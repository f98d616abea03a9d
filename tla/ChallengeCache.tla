--------------------------- MODULE ChallengeCache ---------------------------
(***************************************************************************)
(* The in-memory TTL cache for single-use challenges (memorystore.         *)
(* StateCache, src/storage/memory/state_cache.go) together with the flow   *)
(* that uses it: a challenge (SIWS nonce or OIDC state) is Put when issued *)
(* and, on verification, looked up with Get and then removed with Del.     *)
(* Every cache method takes the mutex for its own body only, so Get and    *)
(* Del of one verification are two separate atomic steps.  A background   *)
(* goroutine (cleanupLoop) sweeps expired entries on every ticker tick     *)
(* until Close closes its channel.                                         *)
(*                                                                         *)
(* The issuing and verifying callers are not in this repository's source; *)
(* they follow the spec (4.3, 6): issue = Put(nonce); verify = Get(nonce), *)
(* check, Del(nonce).  The cache interface offers no atomic take.          *)
(*                                                                         *)
(* The same flow runs on the Redis-backed caches (redisstore.SIWSCache and *)
(* StateCache, src/unnamed/part_000): Put is SET key value EX ttl, Get is  *)
(* GET, Del is DEL, each one round trip; there is no sweeper goroutine,    *)
(* Redis itself expires keys.  The backend is fixed for a behaviour.       *)
(***************************************************************************)
EXTENDS Integers, FiniteSets

CONSTANTS
    Nonces,     \* challenge keys (fresh random nonces / OIDC states)
    Verifiers,  \* concurrent verification requests
    TTL,        \* s.ttl in clock ticks
    MaxTime,    \* bound on the clock
    Backends    \* subset of {"memory", "redis"}

ASSUME TTL \in Nat \ {0} /\ MaxTime \in Nat

VARIABLES
    clock,     \* time.Now()
    data,      \* s.data: nonce -> expiry (a partial function)
    closed,    \* s.closed has been closed by Close
    loop,      \* the cleanupLoop goroutine: "running" or "stopped"
    vpc,       \* per verifier: "idle" or "checking" (Get returned the entry)
    vnonce,    \* per verifier: the nonce it is verifying
    issued,    \* history: nonces generated (a random nonce never recurs)
    verified,  \* history: nonce -> number of successful verifications
    backend    \* "memory" or "redis" (fixed)

vars == <<clock, data, closed, loop, vpc, vnonce, issued, verified, backend>>

\* delete(s.data, n)
Delete(n) == [x \in DOMAIN data \ {n} |-> data[x]]

\* time.Now().After(exp)
Expired(n) == clock > data[n]

Init ==
    /\ clock = 0
    /\ data = [x \in {} |-> 0]
    /\ closed = FALSE
    /\ backend \in Backends
    /\ loop = IF backend = "memory" THEN "running" ELSE "absent"
    /\ vpc = [v \in Verifiers |-> "idle"]
    /\ vnonce = [v \in Verifiers |-> CHOOSE n \in Nonces : TRUE]
    /\ issued = {}
    /\ verified = [n \in Nonces |-> 0]

Tick ==
    /\ clock < MaxTime
    /\ clock' = clock + 1
    /\ UNCHANGED <<data, closed, loop, vpc, vnonce, issued, verified, backend>>

\* (mutant) Put that stores time.Now().Add(-ttl) as the expiry.
PutExpiryBackwards(n) ==
    /\ n \notin issued
    /\ clock + TTL < MaxTime
    /\ data' = [x \in DOMAIN data \cup {n} |-> IF x = n THEN clock - TTL ELSE data[x]]
    /\ issued' = issued \cup {n}
    /\ UNCHANGED <<clock, closed, loop, vpc, vnonce, verified, backend>>

\* Issue a challenge: Put(nonce) stores it with expiry now + ttl.  Nonces
\* are fresh; issuing stops once the expiry would pass the clock bound.
Put(n) ==
    /\ n \notin issued
    /\ clock + TTL < MaxTime
    /\ data' = [x \in DOMAIN data \cup {n} |-> IF x = n THEN clock + TTL ELSE data[x]]
    /\ issued' = issued \cup {n}
    /\ UNCHANGED <<clock, closed, loop, vpc, vnonce, verified, backend>>

\* redisstore Put: SET returns an error (a lost reply) and the challenge is
\* not handed out; the SET may or may not have been applied in Redis.
RedisSetLost(n) ==
    /\ backend = "redis"
    /\ n \notin issued
    /\ clock + TTL < MaxTime
    /\ data' \in {data, [x \in DOMAIN data \cup {n} |->
                           IF x = n THEN clock + TTL ELSE data[x]]}
    /\ issued' = issued \cup {n}
    /\ UNCHANGED <<clock, closed, loop, vpc, vnonce, verified, backend>>

\* (mutant) Get that returns an entry without comparing its expiry.
GetHitIgnoresExpiry(v, n) ==
    /\ vpc[v] = "idle"
    /\ n \in DOMAIN data
    /\ vpc' = [vpc EXCEPT ![v] = "checking"]
    /\ vnonce' = [vnonce EXCEPT ![v] = n]
    /\ UNCHANGED <<clock, data, closed, loop, issued, verified, backend>>

\* A verification request calls Get(nonce) and finds a live entry.
GetHit(v, n) ==
    /\ vpc[v] = "idle"
    /\ n \in DOMAIN data
    /\ ~Expired(n)
    /\ vpc' = [vpc EXCEPT ![v] = "checking"]
    /\ vnonce' = [vnonce EXCEPT ![v] = n]
    /\ UNCHANGED <<clock, data, closed, loop, issued, verified, backend>>

\* Get finds an expired entry: it deletes it and reports a miss, so the
\* verification fails.  (Redis GET of an expired key returns redis.Nil and
\* changes nothing.)
GetExpired(v, n) ==
    /\ backend = "memory"
    /\ vpc[v] = "idle"
    /\ n \in DOMAIN data
    /\ Expired(n)
    /\ data' = Delete(n)
    /\ UNCHANGED <<clock, closed, loop, vpc, vnonce, issued, verified, backend>>

\* The signature and timestamps check out: Del(nonce), sign-in succeeds.
Del(v) ==
    /\ vpc[v] = "checking"
    /\ data' = Delete(vnonce[v])
    /\ verified' = [verified EXCEPT ![vnonce[v]] = @ + 1]
    /\ vpc' = [vpc EXCEPT ![v] = "idle"]
    /\ UNCHANGED <<clock, closed, loop, vnonce, issued, backend>>

\* (mutant) cleanupLoop that returns after its first sweep.
CleanupOnce ==
    /\ loop = "running"
    /\ data' = [x \in {y \in DOMAIN data : ~Expired(y)} |-> data[x]]
    /\ loop' = "stopped"
    /\ UNCHANGED <<clock, closed, vpc, vnonce, issued, verified, backend>>

\* A ticker tick in cleanupLoop: cleanup() removes every expired entry.
Cleanup ==
    /\ loop = "running"
    /\ data' = [x \in {y \in DOMAIN data : ~Expired(y)} |-> data[x]]
    /\ UNCHANGED <<clock, closed, loop, vpc, vnonce, issued, verified, backend>>

\* Redis removes a key whose EX has passed (lazily or by its active expiry
\* cycle).
RedisExpire(n) ==
    /\ backend = "redis"
    /\ n \in DOMAIN data
    /\ Expired(n)
    /\ data' = Delete(n)
    /\ UNCHANGED <<clock, closed, loop, vpc, vnonce, issued, verified, backend>>

\* Close() closes s.closed (called once by the owner; the Redis caches have
\* no Close).
Close ==
    /\ backend = "memory"
    /\ ~closed
    /\ closed' = TRUE
    /\ UNCHANGED <<clock, data, loop, vpc, vnonce, issued, verified, backend>>

\* cleanupLoop selects <-s.closed and returns.
LoopExit ==
    /\ loop = "running"
    /\ closed
    /\ loop' = "stopped"
    /\ UNCHANGED <<clock, data, closed, vpc, vnonce, issued, verified, backend>>

Next ==
    \/ Tick
    \/ \E n \in Nonces : Put(n) \/ RedisSetLost(n) \/ RedisExpire(n)
    \/ \E v \in Verifiers, n \in Nonces : GetHit(v, n) \/ GetExpired(v, n)
    \/ \E v \in Verifiers : Del(v)
    \/ Cleanup \/ Close \/ LoopExit

\* The clock runs, the ticker goroutine keeps sweeping while it runs, Redis
\* keeps expiring keys, and a verification that got its entry finishes.
Fairness ==
    /\ WF_vars(Tick)
    /\ WF_vars(Cleanup)
    /\ \A n \in Nonces : WF_vars(RedisExpire(n))
    /\ WF_vars(LoopExit)
    /\ \A v \in Verifiers : WF_vars(Del(v))

Spec == Init /\ [][Next]_vars /\ Fairness

-----------------------------------------------------------------------------
(* Properties *)

TypeOK ==
    /\ clock \in 0..MaxTime
    /\ DOMAIN data \subseteq Nonces
    /\ \A n \in DOMAIN data : data[n] \in 0..MaxTime
    /\ closed \in BOOLEAN
    /\ loop \in {"running", "stopped", "absent"}
    /\ backend \in Backends
    /\ vpc \in [Verifiers -> {"idle", "checking"}]
    /\ vnonce \in [Verifiers -> Nonces]
    /\ issued \subseteq Nonces
    /\ verified \in [Nonces -> Nat]

(* Single use (spec 4.3, 8): a challenge is consumed at most once; a       *)
(* second verification with the same nonce fails whatever its signature.   *)
NonceSingleUse == \A n \in Nonces : verified[n] <= 1

(* Refinement.  A challenge is live while it is unconsumed and either its *)
(* entry is present and unexpired or a verification holds it (its Get      *)
(* succeeded and its Del has not yet run).                                  *)
Held(n) == \E v \in Verifiers : vpc[v] = "checking" /\ vnonce[v] = n

Live == {n \in issued : /\ verified[n] = 0
                        /\ \/ n \in DOMAIN data /\ ~Expired(n)
                           \/ Held(n)}

Store == INSTANCE ChallengeStore WITH live <- Live, used <- verified

(* The cache, used as the issuing and verifying flow uses it, implements   *)
(* the abstract challenge store: every Put, Get, Del, sweep, Redis expiry, *)
(* lost SET reply and clock tick is an issue, a consumption, an expiry or  *)
(* changes nothing a verifier can observe.  So a challenge is consumed     *)
(* only if it was issued, at most once, and never after it has expired     *)
(* and been let go - the single-use and expiry promises of spec 2 and 4.3, *)
(* for one verification at a time on either backend.                       *)
ChallengeStoreRefined == Store!Spec

(* Every issued challenge eventually leaves the cache, consumed or swept   *)
(* by cleanupLoop, unless the cache has been closed: an abandoned sign-in  *)
(* does not leak memory while the sweeper runs.                            *)
EventuallySwept ==
    \A n \in Nonces : (n \in DOMAIN data) ~> (n \notin DOMAIN data \/ closed)
=============================================================================
