# TLA+ models of authkit

This directory holds TLA+ models of the parts of authkit whose correctness
depends on concurrency, partial failure, restarts, timing or exact string
layout, together with the TLC configurations that check them.
`PROJECT.json` lists:

- the components;
- the runs;
- the mutants, which show that each checked property can fail;
- the map from every model definition to the source lines it translates;
- the findings and the hazards.

## System inventory

authkit is a Go authentication library. Its parts, and how they interact:

| Part | Source | State | Operations | Interaction |
|---|---|---|---|---|
| In-memory rate limiter | `src/password/password.go` (package memorylimiter, lines 92-195) | per `key:bucket` slice of ms timestamps under one mutex | `New`, `AllowNamed` | called by every handler before its service call |
| Redis rate limiter | `src/ratelimit/redis/limiter.go` | per `key:bucket` ZSET in Redis | `New`, `AllowNamed` (MULTI/EXEC, then ZREM on denial) | same interface as the memory limiter; the spec says both decide identically |
| In-memory state cache | `src/storage/memory/state_cache.go` | map state -> (data, expiry) under a mutex; sweeper goroutine | `Put`, `Get`, `Del`, `cleanupLoop`, `Close` | holds OIDC state and SIWS challenges between issue and verify |
| Redis SIWS / state caches | `src/unnamed/part_000` (lines 1-122) | Redis keys with TTL | `Put` (SET with TTL), `Get`, `Del` | the same interface, Redis backend |
| OIDC relying party | `src/unnamed/part_006`, `src/oidc/verifier.go`, `src/lang/lang.go` (DefaultExchanger) | discovered issuer and endpoints | discovery, auth URL, code exchange (PKCE except Apple), ID-token verification with nonce | uses the state cache |
| Key source, signing, JWKS | `src/jwt/keys.go`, `src/jwt/jwt.go`, `src/unnamed/part_002`, `src/adapters/http/jwks_get.go` | active signer, published public keys, dev key files | key-source selection (env > keys.json > dev keys), sign, JWKS with ETag | tokens are verified by relying services with the JWKS |
| SIWS messages | `src/unnamed/part_001` | none (pure) | construct, parse, timestamp and domain checks | the message carries the nonce the challenge cache holds |
| Refresh sessions | schema only: `src/migrations/postgres/001_auth_schema.up.sql` 161-183; the rotation code is not in the source | rows with current/previous token hash, revoked_at | issue, rotate (grace, reuse detection), revoke, revokeAll (spec 4.2) | minted after a successful authentication; rotated by clients, and possibly by a thief holding a copied token |
| Request language and CurrentUser | `src/adapters/gin/language.go`, `src/adapters/gin/current_user.go`, `src/lang/lang.go` (WithLanguage) | language in the request context | `LanguageMiddleware` (query > path prefix > cookie > Accept-Language > default), `CurrentUser` view | the middleware runs before the handler that builds the view |
| Handlers, identity store, username, password hashing | `src/adapters/gin`, `src/unnamed/part_007..012`, `src/core` (including username.go), `src/password` | database rows / none | thin wrappers, SQL queries, pure functions | - |

## Modules

Each module has a header comment that describes its data abstraction. Each
`MC*.tla` module gives the constants values for TLC.

### MemoryLimiter

State:

- `clock`, the millisecond clock.
- `buckets`, the map from `limitKey` to a timestamp sequence.
- `pc` and `call` for each caller. A caller in the `locking` state has read the clock and is waiting for the mutex.
- `log`, the history of admitted timestamps for each key.

Actions:

- `Tick`.
- `Begin` (lines 144-158): limit lookup, clock read and window start. The clock is read *before* the lock.
- `Deny` and `Admit` (the locked section, 160-194): bucket creation, pruning of the prefix `< windowStart`, denial when `len >= limit`, otherwise an append, and deletion of an empty bucket.

Each locked section is one atomic action, because the mutex serialises it.

### RedisLimiter

State:

- `zsets`, the set of ms members for each key (member = score = now).
- `pc`, `call` and `log`, as in MemoryLimiter.
- `faults`, fixed in Init: whether Redis replies may be lost.

Actions:

- `Begin` reads the clock.
- `ExecAdmit` and `ExecDeny` apply ZADD, ZREMRANGEBYSCORE `[0, start]` and ZCARD atomically, as the MULTI/EXEC does, and branch on `count > limit`.
- `ZRem` undoes a denied member.
- Only when `faults` is set:
  - `ExecReplyLost`: the transaction was applied but Exec returned an error.
  - `ZRemLost`: the ZREM failed and its error is ignored.

EXPIRE is not modelled. It only deletes a key after a full idle window, when every member is already outside the window.

### LimiterEquivalence

This module composes the two limiter modules. It INSTANCEs MemoryLimiter and RedisLimiter with renamed variables and a shared clock. One client sends each request to both backends at the same millisecond, and `decision` records the two answers (Redis may also answer "error" when its EXEC reply is lost).

Two constants shape a run:

- `OnePerMs`: the client sends at most one request per millisecond. The `limiter_equiv` run sets it, so the same-millisecond collision, which is checked separately, cannot mask the window boundary.
- `FaultModes`: the values Redis's `faults` may take in Init.

The `limiters` run uses this module to check both backends' own properties in one model (`OnePerMs = FALSE`, both fault modes). The properties are the instances' own, under the aliases `Mem*` and `Red*`.

### RequestLanguage

The request's language and the CurrentUser view. `cfg` (supported list and default), `req` (query, path, cookie, Accept-Language) and `ident` (user-context and claims ids) are chosen in Init. So is `mw`: whether `LanguageMiddleware` is installed before the handler.

- Strings are sequences of one-character strings over a small alphabet (upper and lower case letters, digits, space, `-`, `_`, `;`, `,`, `/`). `ToLower`, `TrimSpace`, `CutAt` and a RECURSIVE `Split` model `strings`' functions.
- `normalizeLangCode`, `supportedSet`, `pickFromAcceptLanguage`, `pickFromPathPrefix`, `pickFromCookie` and `resolveRequestLanguage` are operators, one per Go function.
- Actions: `LanguageMiddleware` stores the resolved language in the context, and `CurrentUser` builds the view. The view takes the user-context id if it is set, else the claims id, and the context language, or "en" when none is set.
- The reference contract (`Names`, `RefCode`, `RefHints`) is written declaratively from the spec, independently of the Go control flow.

### ChallengeCache

The backend is fixed in Init (`backend`): "memory" or "redis".

State:

- `data`: nonce -> expiry.
- `closed` and `loop`: the sweeper goroutine of the memory cache.
- `vpc` and `vnonce` for each verifier.
- The histories `issued` and `verified`.

Memory actions are the methods of `state_cache.go`, one critical section each: `Put`, `GetHit`, `GetExpired`, `Del`, `Cleanup`, `Close` and `LoopExit`.

Redis actions:

- `RedisSetLost`: a SET whose reply is lost, so the entry may or may not exist.
- `RedisExpire`: Redis deletes a key when its TTL passes.

The callers that issue and verify challenges are not in `src/`. Following the spec, they Put on issue, and on verify they Get, check, then Del.

### ChallengeStore (abstract specification)

What a challenge store promises (spec 2, 4.3, 8), with every step atomic. State: `issued`, `live` (challenges a verification may still consume) and `used` (consumptions per challenge). Actions: `Issue`, `IssueFailed` (never becomes usable), `Consume` (of a live challenge) and `Expire` (of any set of live challenges at once, as one clock tick can expire several).

ChallengeCache implements it under the refinement mapping `live <- Live`, `used <- verified`. A challenge is `Live` while it is unconsumed and either its entry is present and unexpired or a verifier holds it (its Get succeeded and its Del has not run). So:

- `Put` is `Issue`. A lost SET reply is `Issue` or `IssueFailed`, depending on whether the SET was applied.
- `Del` is `Consume`.
- A clock tick is `Expire`.
- `GetHit`, `GetExpired`, the sweep, Redis expiry, `Close` and the sweeper's exit change nothing a verifier can observe.

### KeySource

State:

- The fixed configuration: `env`, `fs`, `prod` and `faults`.
- The dev key files under `.runtime/authkit`: `disk`.
- `clock` and `phase` (down / persisting pem / persisting kid / up / failed).
- `gens`, the number of keys generated so far.
- `active`, `pubs`, and the history `tokens`.
- A downstream verifier's copy of the JWKS: `cached`.

Startup actions:

- `StartStatic` and `StartFailed` are NewAutoKeySource's priority: env > keys.json > dev keys, and production refuses dev keys.
- `StartFromDisk` is loadKeysFromDisk.
- `StartGenerate`, `PersistPem(Fail)` and `PersistKid(Fail)` are NewGeneratedKeySource with persistKeysToDisk. The two files are written in order, and a failure is only a warning.

Other actions:

- `Sign`: the token carries the active kid.
- `Restart`: only the files survive.
- `FetchJWKS` and `FetchNotModified`: ServeJWKS's conditional GET, with an ETag that is the document's SHA-256, taken as collision-free.

### OIDCRelyingParty

The RP discovers its provider. Browser sessions of a victim and an attacker each go through these steps:

- BeginLogin;
- the provider's authorization;
- the callback, where DefaultExchanger exchanges the code and VerifyIDToken checks the ID token.

Discovery steps:

- `Discover` and `DiscoverRejected` are NewRelyingPartyOIDC and discoverOIDC: the trimmed issuer check, the missing-endpoints check and the effective issuer.

Exchange steps:

- `ExchangeRefused`: the token endpoint refuses the code. A code is single-use, and unless the provider is Apple its verifier must match.
- `ExchangeAccepted`: the provider answers with a genuine ID token.
- `ExchangeForged`: a compromised discovery response hands the attacker the token endpoint and the keys.

The login handlers are not in `src/`. BeginLogin follows spec 4.4.

### RefreshSession

Spec 4.2, 5, 8 and 9, over the `profiles.refresh_sessions` table.

State:
- `row[s]`: the row. It holds state (none, active, revoked), subject, current and previous fingerprint.
- Two parties, `client` and `thief`, each with at most one rotate call in flight: `pc`, `call`, `result`.
- `ctok[s]`: the token the client holds.
- `stolen[s]`: the tokens the thief has copied or been handed.
- History variables: sessions flagged by reuse detection, lost-response streaks, and sessions the thief used.

The rotation code is not in this repository's source, so every action is modelled from the spec (spec_modelled in the map). Only the row, its lookup and the revokeAll index come from the SQL. The `sessions` run is therefore a check of the spec's design (that the grace slot tolerates a lost response), not of repository code; properties that would only restate the model's own conditional UPDATE are deliberately not stated.

A rotate is two steps:
1. `Present`: the lookup. It finds the token's session and which slot the token matches.
2. A conditional UPDATE that re-checks that slot and `revoked_at IS NULL`:
   - `RotateCommit`: shift current to previous and mint a new current;
   - `GraceCommit`: honour the previous token once and empty the slot;
   - `StaleCommit`: a concurrent call changed the row, and the update touches nothing;
   - `ReuseCommit`: revoke and report ReuseDetected.

`PresentRevoked` rejects the token of a revoked session. `Respond` delivers a success, or loses it on the way to the client. `Revoke` and `RevokeAll` set `revoked_at`.

Abstractions:
- A token is its fingerprint and carries its session id. The spec's reuse case, a token "matching neither tracked slot", is only decidable if the session is found some other way. A token two rotations old is in neither column of the two-slot table.
- A family is one session, because issue always creates a new family.
- A grace answer hands back the session's current token. The spec says only that the state does not advance, and this is the one refresh token that keeps it so.
- The time bound of the grace window and the absolute expiry are not modelled. They only remove behaviours.

### SIWSMessage

Strings are sequences over an abstract alphabet. NL and SP stand for newline and space. Each field label, and the header tail, is one character. `ParseSigned` computes `ParseMessage(ConstructMessage(input))` for an input chosen in Init. String helpers (TrimSpace, Split, Join, HasPrefix) are operators; Split and Join are RECURSIVE. The field loop is a FoldLeft of `FieldStep`.

## Runs

| Run | Module / cfg | Checks | Result |
|---|---|---|---|
| limiters | MCLimiterEquivalence / MCLimiters.cfg | TypeOK, MemNoOverAdmission, MemDenialJustified, RedOnlyAdmissionsRecordedReliable, RedDenialJustifiedReliable, RedDistinctAdmissionBound; one caller, several requests per ms, with and without lost replies | pass (412002 states) |
| mem_race | MCMemoryLimiterRace | NoOverAdmission with three callers | violated |
| redis_same_ms | MCRedisLimiterSameMs | NoOverAdmission | violated |
| limiter_equiv | MCLimiterEquivalence | SameDecision | violated |
| cache | MCChallengeCache | TypeOK, ChallengeStoreRefined, EventuallySwept; both backends; one verifier | pass (32830 states) |
| cache_race | MCChallengeCacheRace | NonceSingleUse with two verifiers | violated |
| keys | MCKeySource | TypeOK, ActiveTokensVerifyReliable, KidNamesOneKeyReliable | pass (7888 states) |
| oidc | MCOIDCRelyingParty | TypeOK, LoginBound, HonestLoginCompletes | pass (17077 states) |
| oidc_issuer | MCOIDCRelyingParty / MCOIDCRelyingPartyIssuer.cfg | IssuerPinned | violated |
| siws | MCSIWSMessage | ParseRecoversBinding | pass (32640 states) |
| language | MCRequestLanguage | TypeOK, ResolvesByContract, CurrentUserByContract | pass (10800 states) |
| sessions | MCRefreshSession | TypeOK, HonestRetryNotFlagged; a client and a thief, lost responses | pass (9494 states) |

What the violations show (the findings in PROJECT.json):

- **mem_race** (code bug, password.go:153). AllowNamed reads the clock before it takes the mutex, so the timestamps in a bucket can be out of order. A caller with a later reading prunes entries that are still inside a staler caller's window, and the staler caller then admits a request that puts limit + 1 admissions inside one window.
- **redis_same_ms** (code bug, limiter.go:54). The ZSET member is the millisecond itself. Requests in the same millisecond share one member, so ZCARD does not grow and all of them are admitted.
- **limiter_equiv** (divergence from spec 4.5).
  - The memory backend keeps timestamps `== now - window` (password.go:168).
  - Redis removes scores `<= start` (limiter.go:55).
  - With limit 2 and window 4 ms, requests at 0, 3 and 4 ms give admit, admit, and then deny in memory but admit in Redis.
- **cache_race** (divergence from the spec's "consumed exactly once"). Get and Del are separate critical sections, or separate Redis commands, so two verifications of one nonce can both Get it before either Dels it.
- **oidc_issuer** (divergence from spec 4.4, part_006:116). A compromised discovery response names the issuer "/". discoverOIDC compares the discovered issuer only when it trims to something non-empty (115-116), so "/" passes. NewRelyingPartyOIDC keeps the untrimmed "/" as effectiveIssuer (40-43), and VerifyIDToken then accepts the attacker's tokens with iss "/". Spec 4.4 says any returned issuer that differs from the configured one is fatal. An empty issuer falls back to the configured one and does no harm; "/" is the case the check misses.

What the passing properties say:

- **MemNoOverAdmission / MemDenialJustified** (memory, one caller): the window arithmetic admits at most `limit` requests per window and denies only when `limit` admissions are in it.
- **RedOnlyAdmissionsRecordedReliable / RedDenialJustifiedReliable** (Redis): without lost replies, every denied member is removed, so denials are not recorded.
- **RedDistinctAdmissionBound** (Redis, one caller): even with lost replies, the distinct admitted milliseconds in any window never exceed the limit.
- **ChallengeStoreRefined** (cache): with one verifier, on either backend, the cache implements ChallengeStore, including replays, expiry under a pending verification, sweeps and lost SET replies. So a nonce is consumed only if it was issued, at most once, and never after it expired and was let go. This covers the single-use promise (the `cache_race` run's NonceSingleUse) and the expiry promise as well: a Get that skipped the expiry test would revive an expired challenge.
- **EventuallySwept** (cache): expired entries are eventually swept.
- **ActiveTokensVerifyReliable** (keys): on hosts where the key files are written, every token signed by the still-active key verifies.
- **KidNamesOneKeyReliable** (keys): on those hosts a kid never names two keys. This holds across tokens signed in any run of the process, the JWKS served now, and a verifier's cached copy. A verifier that picks the key by kid therefore never checks a token against another key.
- **LoginBound** (OIDC): with genuine discovery, a session is signed in only as its own user, even when codes are intercepted. For Apple, the nonce check alone does this.
- **HonestLoginCompletes** (OIDC): without interception, every login that has begun completes.
- **ParseRecoversBinding** (SIWS): whatever the statement says, parsing returns the domain, address, nonce, timestamps, request id and resources that were signed.
- **ResolvesByContract** (language): with the middleware installed, the context language is the first hint, in the order query, path prefix, cookie, Accept-Language entries, default, that names a supported two-letter code, and "en" if none does. This covers case and white space, region suffixes, `q` parameters, an empty supported list (everything allowed) and a blank default.
- **HonestRetryNotFlagged** (sessions, spec 4.2): a session is revoked by reuse detection only if the thief used one of its tokens or the client lost two rotation responses in a row. One lost response and its retry are tolerated.
- **CurrentUserByContract** (language): end to end, the CurrentUser view carries the contract's language for the request, or "en" on a route without the middleware. It reports the caller as authenticated exactly when the UserContext or the claims carry a user id, and prefers the UserContext's.

Three findings of earlier sittings are no longer runs. Each slot was given to a model of more of the system, since the project is at its cap of twelve runs.

The first is a stale clock in the Redis limiter (limiter.go:50, recorded as a hazard). Like the memory limiter, the Redis limiter reads `now` in the process, before the MULTI/EXEC. A caller with a later clock prunes members that a staler caller's window still counts. With limit 2, requests admitted at 0 and 1 ms, a caller that read 2 ms, and another that prunes at 5 ms, the stale caller is admitted and 0, 1 and 2 ms end up admitted inside one 4 ms window.

The second is a kid-file write failure. A failed write of the dev `kid` file after `private.pem` was written is only a warning (keys.go:93), so the next start reloads the same key under kid "dev", and tokens signed before the restart with "dev-<unix>" no longer verify. The `keys` run's `faults` mode reaches this; `ActiveTokensVerifyReliable` is checked only on hosts where the writes succeed. It is recorded as a hazard at keys.go:132.

The same fault mode also breaks `KidNamesOneKeyReliable`, so the property is checked only on reliable hosts. Suppose `private.pem` cannot be written:
1. The dev key is generated anew at every start.
2. Its kid is "dev-<unix seconds>".
3. A restart within the same second, or after the clock stepped back, therefore names a new key with a kid already in use.
4. A verifier that cached the old JWKS under that kid rejects the new tokens until its cache expires.

This is recorded as a hazard at keys.go:60.

The third is the SIWS round trip (spec 7), hazard part_001:38. ParseMessage starts the field block at the first line whose trimmed text begins with a field label (36-46), so a statement such as "URI:" is dropped; a statement with surrounding white space comes back trimmed (61). `ParseRecoversBinding` still shows that the fields the signature binds come back right. The slot went to `oidc_issuer`.

Two spec gaps of the refresh-session protocol were met while modelling it. No repository code implements rotation, so they are gaps of the spec, recorded here rather than as runs or hazards:

- **Grace ride-along.** The grace path answers with the current token. So a thief holding a token that has just been superseded can take the grace path after every client rotation. Each time it is handed the new current token, and reuse detection never fires. With the thief in `MCRefreshSession`, TLC reaches this in about a dozen steps: the thief steals f2, takes the grace path on f2 and on f3, and holds f4 together with the client while the session stays live. Whether this is a flaw depends on what the grace answer carries, which the spec leaves open.
- **"Exactly one success".** Spec 5 says two concurrent calls presenting one current token yield exactly one success. That holds for calls whose lookups both precede the first update, given the conditional UPDATE the model takes from spec 5. A call whose lookup follows the other's update finds the token in the previous slot and succeeds on the grace path, as spec 4.2 prescribes.

Every property of a passing run has a mutant in PROJECT.json: a plausible bug in the mapped code under which TLC finds the property violated.

## Bounds, and why they are enough

- **Limiters.**
  - One principal and one bucket. Keys are independent: every step touches one key.
  - Limit 2, with window 2 ms (mem_race) or 4 ms (the others), and the clock up to 5-7 ms. That is enough for a window to fill, slide past its edge and refill.
  - The `AdmissionBound` constraint caps each key's Redis history at 5 admissions, because same-millisecond admissions are otherwise unbounded.
  - Three callers are enough for the memory race: two interleave and a third prunes.
- **Cache.** Three nonces, TTL 2 and the clock up to 7. A nonce can be consumed, replayed, expire under a pending verification and be swept while the others are live.
- **Keys.**
  - Four environments: unset, valid, bad PUBLIC_KEYS entry, half-set.
  - Four keys.json states: absent, valid, unreadable, missing the private key.
  - Two initial disk states.
  - Clock up to 2 seconds and at most two key generations. That allows two dev restarts with distinct `dev-<unix>` kids and one restart in the same second.
- **OIDC.**
  - Four sessions, two of the victim and two of the attacker.
  - Google (PKCE) and Apple (no verifier).
  - Interception on or off.
  - Six discovery responses: genuine, genuine without an endpoint, and four compromised (another issuer, no issuer, the issuer "/", the real issuer).
  - The configured issuer lacks the trailing slash that the provider's issuer has.
- **Language.** Five configurations (the test ones, an empty list, a list with an invalid entry and a padded default, a list with a blank default), and four queries, paths and headers and three cookies, chosen so that each hint is valid, invalid, unsupported or absent, and three identities: 4320 initial states (with and without the middleware), 10800 states in all.
- **Sessions.** One session of one subject, a client and a thief, five fingerprints (an issue and four rotations, so that a token can be superseded twice), and up to two consecutive lost responses. Fingerprints are symmetric. One session is enough because rotations of different sessions touch different rows; a second session multiplies the state space by about 100 and adds no interleaving on a shared row.
- **SIWS.**
  - Statements of up to 3 characters over {a, SP, "Nonce:", "URI:"}, so a statement can imitate a field line with a value.
  - Every optional field present or absent.
  - 0-2 resources.

## Fairness

These liveness properties assume weak fairness:

- **EventuallySwept** (ChallengeCache):
  - the clock;
  - the sweeper, since the ticker fires every minute while `cleanupLoop` runs;
  - the sweeper's exit after Close;
  - each verification's completion, since a request that holds its entry runs on;
  - Redis TTL expiry, since Redis deletes an expired key.
- **HonestLoginCompletes** (OIDCRelyingParty):
  - discovery;
  - each session's BeginLogin;
  - authorization;
  - the exchange of its own code.

A browser that has started a login goes on with it, and the RP process handles the callback. Nothing else is assumed.

## Not modelled, and why

- **Refresh sessions: the grace window's time bound, absolute expiry, and families of several sessions.** The spec defines no operation that adds a session to an existing family. The time bounds only remove behaviours from those the model explores.
- **SIWS ValidateTimestamps / ValidateDomain and the verification handler.** The handler that combines parse, signature, timestamps and nonce consumption is not in `src/`. Timestamps would need the RFC 3339 conversion modelled.
- **Username generation** (username.go). Nothing in `src/` calls it. The race it meets, two sign-ups deriving the same name before either inserts it, lies in the store code, which is not in `src/`.
- **Password hashing, Apple client-secret minting, provider defaults and scope merging.** These are pure functions with no property of interest beyond their unit tests.
- **Gin handlers, the identity store (part_007) and the SQL / ClickHouse migrations.** These are thin wrappers over service calls that are not in `src/`, SQL queries, and schema.
- **`Service.siwsCache`** (jwks_get.go:26-31). It builds a new cache on every call. Its callers are not in `src/`, so whether a challenge is put into one cache and looked up in another cannot be decided here. It is listed as a hazard.
- **The `keys.json` override of the active kid by `public_keys`** (keys.go:254). Such a configuration breaks `ActiveTokensVerify` two steps after start; it is a configuration error rather than an interleaving, the MC module does not enumerate it, and it is listed as a hazard.
- **The Redis lost-ZREM case** (limiter.go:66). It is reachable in the `limiters` run's fault mode. Only `RedDistinctAdmissionBound` is checked there; the other two Redis properties are stated for reliable replies.
- **Eviction of limiter buckets** (password.go:162). The in-memory limiter never deletes a key's bucket. The deletion of an empty bucket at line 190 cannot be reached, because a bucket is only looked at when a hit is about to be added. Memory therefore grows with the number of distinct keys. The limiter models have a bounded key set, so this is not a property a run can check. It is listed as a resource_bound hazard.
