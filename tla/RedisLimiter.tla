---------------------------- MODULE RedisLimiter ----------------------------
(***************************************************************************)
(* The shared (Redis) sliding-window rate limiter (package redislimiter,   *)
(* src/ratelimit/redis/limiter.go).  AllowNamed reads the clock, then runs *)
(* one MULTI/EXEC transaction: ZADD the millisecond timestamp (as both     *)
(* score and member), ZREMRANGEBYSCORE 0..start, ZCARD, EXPIRE.  If the    *)
(* count exceeds the limit it issues a separate ZREM of its own member and *)
(* denies; the ZREM's result is not checked.                               *)
(*                                                                         *)
(* The sorted set of a key is a set of milliseconds: member and score are  *)
(* the same number, so two calls stamped in the same millisecond share one *)
(* member.  EXPIRE (window + 1 s) is not modelled: it only fires after no  *)
(* call for longer than the window, when ZREMRANGEBYSCORE would have       *)
(* removed every member anyway, so it cannot change a decision.            *)
(***************************************************************************)
EXTENDS Integers, Sequences, FiniteSets

CONSTANTS
    Procs,        \* concurrent callers (goroutines, possibly on many instances)
    Principals,   \* the "key" argument
    Buckets,      \* the "bucket" argument
    Limits,       \* configured limits: names -> [limit, window]
    MaxTime,      \* bound on the millisecond clock
    FaultModes    \* subset of BOOLEAN: may replies of Redis round trips be lost

ASSUME Limits \in [DOMAIN Limits -> [limit : Nat, window : Nat]]
ASSUME MaxTime \in Nat /\ FaultModes \subseteq BOOLEAN

VARIABLES
    clock,   \* time.Now() in milliseconds
    zsets,   \* Redis: limitKey -> set of members (= scores)
    pc,      \* per caller: "idle", "exec" (clock read), "zrem" (denied, ZREM pending)
    call,    \* per caller: limitKey and now of its current call
    log,     \* history: every admitted timestamp per limitKey
    faults   \* whether this deployment's Redis replies may be lost (fixed)

vars == <<clock, zsets, pc, call, log, faults>>

LimitKeys == Principals \X Buckets

\* Limiter.get: the bucket's limit, else "default", else 100 per minute.
get(bucket) ==
    IF bucket \in DOMAIN Limits THEN Limits[bucket]
    ELSE IF "default" \in DOMAIN Limits THEN Limits["default"]
    ELSE [limit |-> 100, window |-> 60000]

\* Mutant of AfterTx: ZREMRANGEBYSCORE bound one too high, dropping the
\* oldest in-window member.
AfterTxStartPlusOne(k, now) ==
    {m \in zsets[k] \cup {now} : m > now - get(k[2]).window + 1}

\* The set after the transaction's ZADD now and ZREMRANGEBYSCORE 0 start.
AfterTx(k, now) ==
    {m \in zsets[k] \cup {now} : m > now - get(k[2]).window}

Init ==
    /\ clock = 0
    /\ zsets = [k \in LimitKeys |-> {}]
    /\ pc = [p \in Procs |-> "idle"]
    /\ call = [p \in Procs |-> [key |-> CHOOSE k \in LimitKeys : TRUE, now |-> 0]]
    /\ log = [k \in LimitKeys |-> <<>>]
    /\ faults \in FaultModes

Tick ==
    /\ clock < MaxTime
    /\ clock' = clock + 1
    /\ UNCHANGED <<zsets, pc, call, log, faults>>

\* Mutant of Begin: the window start is taken for the member/score now.
BeginStartAsNow(p, principal, bucket) ==
    /\ pc[p] = "idle"
    /\ pc' = [pc EXCEPT ![p] = "exec"]
    /\ call' = [call EXCEPT ![p] = [key |-> <<principal, bucket>>,
                                     now |-> clock - get(bucket).window]]
    /\ UNCHANGED <<clock, zsets, log, faults>>

\* AllowNamed up to pipe.Exec: resolve the limit, read the clock, queue the
\* four commands.  Nothing shared is touched yet.
Begin(p, principal, bucket) ==
    /\ pc[p] = "idle"
    /\ pc' = [pc EXCEPT ![p] = "exec"]
    /\ call' = [call EXCEPT ![p] = [key |-> <<principal, bucket>>, now |-> clock]]
    /\ UNCHANGED <<clock, zsets, log, faults>>

\* EXEC runs atomically in Redis; the count is within the limit: admit.
ExecAdmit(p) ==
    LET k == call[p].key  IN
    /\ pc[p] = "exec"
    /\ Cardinality(AfterTx(k, call[p].now)) <= get(k[2]).limit
    /\ zsets' = [zsets EXCEPT ![k] = AfterTx(k, call[p].now)]
    /\ log' = [log EXCEPT ![k] = Append(@, call[p].now)]
    /\ pc' = [pc EXCEPT ![p] = "idle"]
    /\ UNCHANGED <<clock, call, faults>>

\* Mutant of ExecDeny: `count >= limit` instead of `count > limit`.
ExecDenyAtLimit(p) ==
    LET k == call[p].key  IN
    /\ pc[p] = "exec"
    /\ Cardinality(AfterTx(k, call[p].now)) >= get(k[2]).limit
    /\ zsets' = [zsets EXCEPT ![k] = AfterTx(k, call[p].now)]
    /\ pc' = [pc EXCEPT ![p] = "zrem"]
    /\ UNCHANGED <<clock, call, log, faults>>

\* EXEC runs; the count exceeds the limit: the caller goes on to ZREM.
ExecDeny(p) ==
    LET k == call[p].key  IN
    /\ pc[p] = "exec"
    /\ Cardinality(AfterTx(k, call[p].now)) > get(k[2]).limit
    /\ zsets' = [zsets EXCEPT ![k] = AfterTx(k, call[p].now)]
    /\ pc' = [pc EXCEPT ![p] = "zrem"]
    /\ UNCHANGED <<clock, call, log, faults>>

\* EXEC runs in Redis but its reply is lost: pipe.Exec returns an error and
\* the caller returns (false, err); the ZADD stays applied.
ExecReplyLost(p) ==
    LET k == call[p].key  IN
    /\ faults
    /\ pc[p] = "exec"
    /\ zsets' = [zsets EXCEPT ![k] = AfterTx(k, call[p].now)]
    /\ pc' = [pc EXCEPT ![p] = "idle"]
    /\ UNCHANGED <<clock, call, log, faults>>

\* Mutant of ZRem: the denial returns without issuing the ZREM.
ZRemSkipped(p) ==
    /\ pc[p] = "zrem"
    /\ pc' = [pc EXCEPT ![p] = "idle"]
    /\ UNCHANGED <<clock, zsets, call, log, faults>>

\* l.rdb.ZRem(ctx, limitKey, now), then return false.
ZRem(p) ==
    LET k == call[p].key  IN
    /\ pc[p] = "zrem"
    /\ zsets' = [zsets EXCEPT ![k] = @ \ {call[p].now}]
    /\ pc' = [pc EXCEPT ![p] = "idle"]
    /\ UNCHANGED <<clock, call, log, faults>>

\* The ZREM fails; its error is ignored and the caller returns false.
ZRemLost(p) ==
    /\ faults
    /\ pc[p] = "zrem"
    /\ pc' = [pc EXCEPT ![p] = "idle"]
    /\ UNCHANGED <<clock, zsets, call, log, faults>>

Next ==
    \/ Tick
    \/ \E p \in Procs, a \in Principals, b \in Buckets : Begin(p, a, b)
    \/ \E p \in Procs :
          \/ ExecAdmit(p) \/ ExecDeny(p) \/ ExecReplyLost(p)
          \/ ZRem(p) \/ ZRemLost(p)

Spec == Init /\ [][Next]_vars

-----------------------------------------------------------------------------
(* Properties *)

TypeOK ==
    /\ clock \in 0..MaxTime
    /\ zsets \in [LimitKeys -> SUBSET (0..MaxTime)]
    /\ pc \in [Procs -> {"idle", "exec", "zrem"}]
    /\ call \in [Procs -> [key : LimitKeys, now : 0..MaxTime]]
    /\ log \in [LimitKeys -> Seq(0..MaxTime)]
    /\ faults \in FaultModes

\* Admissions of k stamped in the window (t - window, t] the limiter uses.
AdmittedIn(k, t) ==
    Len(SelectSeq(log[k], LAMBDA e : t - get(k[2]).window < e /\ e <= t))

(* No over-admission: an admitted call never leaves more than `limit`      *)
(* admissions stamped inside its own window (ZADD/ZREMRANGEBYSCORE/ZCARD   *)
(* compared with lim.Limit).                                                *)
NoOverAdmission ==
    [][\A p \in Procs :
         ExecAdmit(p) => AdmittedIn(call[p].key, call[p].now)' <= get(call[p].key[2]).limit
      ]_vars

(* A denial is justified: when the count exceeds the limit, at least       *)
(* `limit` admitted requests are stamped in the caller's window, so denied *)
(* attempts never count against the principal (spec 4.5: denials are not  *)
(* recorded, hammering neither consumes nor extends a ban).                *)
DenialJustified ==
    [][\A p \in Procs :
         ExecDeny(p) => AdmittedIn(call[p].key, call[p].now) >= get(call[p].key[2]).limit
      ]_vars

(* Lost replies never weaken the limit: a lost EXEC reply or a failed     *)
(* ZREM can leave a denied attempt's member behind, which only makes later  *)
(* calls stricter; the distinct admitted timestamps in any admitted call's  *)
(* window never exceed `limit`.                                             *)
DistinctAdmissionBound ==
    [][\A p \in Procs :
         ExecAdmit(p) =>
            LET k == call[p].key
                t == call[p].now
            IN  Cardinality({log'[k][i] : i \in DOMAIN log'[k]}
                            \cap ((t - get(k[2]).window + 1)..t))
                  <= get(k[2]).limit
      ]_vars

(* Between calls the sorted set holds only timestamps of admitted          *)
(* requests: every denied attempt's ZADD is undone by its ZREM.            *)
OnlyAdmissionsRecorded ==
    (\A p \in Procs : pc[p] = "idle") =>
        \A k \in LimitKeys : \A m \in zsets[k] : \E i \in 1..Len(log[k]) : log[k][i] = m

(* The two properties above on a deployment whose Redis replies are never *)
(* lost: there the ZREM of every denial really runs, so the sorted set     *)
(* holds admissions only and a denial is always earned.                    *)
OnlyAdmissionsRecordedReliable == ~faults => OnlyAdmissionsRecorded

DenialJustifiedReliable ==
    [][~faults => \A p \in Procs :
         ExecDeny(p) => AdmittedIn(call[p].key, call[p].now) >= get(call[p].key[2]).limit
      ]_vars
=============================================================================
