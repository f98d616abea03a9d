--------------------------- MODULE MemoryLimiter ---------------------------
(***************************************************************************)
(* The in-process sliding-window rate limiter (package memorylimiter,      *)
(* src/password/password.go).  AllowNamed reads the wall clock, then takes *)
(* the limiter mutex and, under it, prunes the bucket's timestamps that    *)
(* fall before the window, denies when the remaining count reaches the     *)
(* limit, and otherwise appends the clock reading it took before the lock. *)
(*                                                                         *)
(* A caller is a process that alternates two steps: Begin (everything      *)
(* before l.mu.Lock(), including time.Now()) and the locked section, which *)
(* is atomic because the mutex serialises it: Deny or Admit.               *)
(***************************************************************************)
EXTENDS Integers, Sequences, SequencesExt, FiniteSets, FiniteSetsExt

CONSTANTS
    Procs,        \* concurrent callers of AllowNamed (goroutines)
    Principals,   \* the "key" argument (user id, IP)
    Buckets,      \* the "bucket" argument (named limits)
    Limits,       \* configured limits: a function from names to [limit, window]
    MaxTime       \* bound on the millisecond clock

ASSUME Limits \in [DOMAIN Limits -> [limit : Nat, window : Nat]]
ASSUME MaxTime \in Nat

VARIABLES
    clock,    \* time.Now() in milliseconds
    buckets,  \* l.buckets: limitKey -> timestamps (a partial function)
    pc,       \* per caller: "idle" or "locking" (clock read, mutex not yet held)
    call,     \* per caller: the limitKey and nowMs of its current call
    log       \* history: every admitted timestamp per limitKey, in admission order

vars == <<clock, buckets, pc, call, log>>

LimitKeys == Principals \X Buckets

\* Limiter.get: the bucket's limit, else "default", else 100 per minute.
get(bucket) ==
    IF bucket \in DOMAIN Limits THEN Limits[bucket]
    ELSE IF "default" \in DOMAIN Limits THEN Limits["default"]
    ELSE [limit |-> 100, window |-> 60000]

\* The stored timestamps of a limitKey; a missing bucket is created empty.
Stored(k) == IF k \in DOMAIN buckets THEN buckets[k] ELSE <<>>

\* The prune loop: pruneIdx counts leading timestamps below windowStart.
pruneIdx(ts, windowStart) ==
    LET kept == {i \in 1..Len(ts) : ts[i] >= windowStart}
    IN  IF kept = {} THEN Len(ts) ELSE Min(kept) - 1

\* Mutant of Pruned: prunes `<= windowStart`, dropping the boundary entry.
PrunedBoundaryOut(ts, windowStart) ==
    SelectSeq(ts, LAMBDA e : e > windowStart)

Pruned(ts, windowStart) == SubSeq(ts, pruneIdx(ts, windowStart) + 1, Len(ts))

\* delete(l.buckets, limitKey)
DeleteBucket(k) == [x \in DOMAIN buckets \ {k} |-> buckets[x]]

\* l.buckets[limitKey] = b, with b.timestamps = ts
StoreBucket(k, ts) == [x \in DOMAIN buckets \cup {k} |->
                           IF x = k THEN ts ELSE buckets[x]]

Init ==
    /\ clock = 0
    /\ buckets = [x \in {} |-> <<>>]
    /\ pc = [p \in Procs |-> "idle"]
    /\ call = [p \in Procs |-> [key |-> CHOOSE k \in LimitKeys : TRUE, now |-> 0]]
    /\ log = [k \in LimitKeys |-> <<>>]

\* The wall clock advances.
Tick ==
    /\ clock < MaxTime
    /\ clock' = clock + 1
    /\ UNCHANGED <<buckets, pc, call, log>>

\* AllowNamed up to l.mu.Lock(): resolve the limit, read time.Now(),
\* build limitKey.  Nothing shared is touched.
Begin(p, principal, bucket) ==
    /\ pc[p] = "idle"
    /\ pc' = [pc EXCEPT ![p] = "locking"]
    /\ call' = [call EXCEPT ![p] = [key |-> <<principal, bucket>>, now |-> clock]]
    /\ UNCHANGED <<clock, buckets, log>>

\* Mutant of Deny: off-by-one, denies one request early (`>= limit - 1`).
DenyEarly(p) ==
    LET k  == call[p].key
        ts == Pruned(Stored(k), call[p].now - get(k[2]).window)
    IN  /\ pc[p] = "locking"
        /\ Len(ts) >= get(k[2]).limit - 1
        /\ buckets' = IF Len(ts) = 0 THEN DeleteBucket(k) ELSE StoreBucket(k, ts)
        /\ pc' = [pc EXCEPT ![p] = "idle"]
        /\ UNCHANGED <<clock, call, log>>

\* The locked section when the pruned count has reached the limit: store the
\* pruned timestamps (deleting the bucket if empty) and deny.
Deny(p) ==
    LET k  == call[p].key
        ws == call[p].now - get(k[2]).window
        ts == Pruned(Stored(k), ws)
    IN  /\ pc[p] = "locking"
        /\ Len(ts) >= get(k[2]).limit
        /\ buckets' = IF Len(ts) = 0 THEN DeleteBucket(k) ELSE StoreBucket(k, ts)
        /\ pc' = [pc EXCEPT ![p] = "idle"]
        /\ UNCHANGED <<clock, call, log>>

\* Mutant of Admit: appends windowStart where nowMs belongs.
AdmitAppendsWindowStart(p) ==
    LET k  == call[p].key
        ws == call[p].now - get(k[2]).window
        ts == Pruned(Stored(k), ws)
    IN  /\ pc[p] = "locking"
        /\ Len(ts) < get(k[2]).limit
        /\ buckets' = StoreBucket(k, Append(ts, ws))
        /\ log' = [log EXCEPT ![k] = Append(@, ws)]
        /\ pc' = [pc EXCEPT ![p] = "idle"]
        /\ UNCHANGED <<clock, call>>

\* The locked section when there is room: append nowMs and admit.
Admit(p) ==
    LET k  == call[p].key
        ws == call[p].now - get(k[2]).window
        ts == Pruned(Stored(k), ws)
    IN  /\ pc[p] = "locking"
        /\ Len(ts) < get(k[2]).limit
        /\ buckets' = StoreBucket(k, Append(ts, call[p].now))
        /\ log' = [log EXCEPT ![k] = Append(@, call[p].now)]
        /\ pc' = [pc EXCEPT ![p] = "idle"]
        /\ UNCHANGED <<clock, call>>

Next ==
    \/ Tick
    \/ \E p \in Procs, a \in Principals, b \in Buckets : Begin(p, a, b)
    \/ \E p \in Procs : Deny(p) \/ Admit(p)

Spec == Init /\ [][Next]_vars

-----------------------------------------------------------------------------
(* Properties *)

TypeOK ==
    /\ clock \in 0..MaxTime
    /\ DOMAIN buckets \subseteq LimitKeys
    /\ \A k \in DOMAIN buckets : buckets[k] \in Seq(0..MaxTime)
    /\ pc \in [Procs -> {"idle", "locking"}]
    /\ call \in [Procs -> [key : LimitKeys, now : 0..MaxTime]]
    /\ log \in [LimitKeys -> Seq(0..MaxTime)]

\* Admissions of limitKey k stamped in the closed window [t - window, t].
AdmittedIn(k, t) ==
    Len(SelectSeq(log[k], LAMBDA e : t - get(k[2]).window <= e /\ e <= t))

(* No over-admission.  Whatever the interleaving of callers and however    *)
(* stale the clock reading a caller took before the mutex, an Admit never  *)
(* leaves more than `limit` admissions stamped inside the window that ends  *)
(* at the admitted request's own timestamp (AllowNamed's prune, count and  *)
(* append).                                                                 *)
NoOverAdmission ==
    [][\A p \in Procs :
         Admit(p) => AdmittedIn(call[p].key, call[p].now)' <= get(call[p].key[2]).limit
      ]_vars

(* A denial is justified: when AllowNamed denies, at least `limit` admitted *)
(* requests really are stamped at or after the caller's windowStart.        *)
DenialJustified ==
    [][\A p \in Procs :
         Deny(p) =>
            LET k == call[p].key
            IN  Len(SelectSeq(log[k],
                     LAMBDA e : e >= call[p].now - get(k[2]).window))
                  >= get(k[2]).limit
      ]_vars
=============================================================================
