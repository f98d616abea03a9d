------------------------------ MODULE KeySource ------------------------------
(***************************************************************************)
(* Key-source selection and the lifetime of the signing key across process *)
(* restarts (src/jwt/keys.go).  NewAutoKeySource tries, in order, the      *)
(* environment (ACTIVE_KEY_ID, ACTIVE_PRIVATE_KEY_PEM, PUBLIC_KEYS), the   *)
(* mounted keys.json, and, outside production, development keys loaded     *)
(* from .runtime/authkit or generated and persisted there as two files     *)
(* (private.pem, then kid).  The running process signs tokens with the     *)
(* active signer (RSASigner.Sign puts its kid in the header) and publishes *)
(* PublicKeys() in the JWKS that verifiers use.                            *)
(*                                                                         *)
(* Data abstraction: a PEM is the key it encodes or "bad" (does not        *)
(* parse); "" is an unset variable or field.  A configuration of the       *)
(* environment and of the mounted file is fixed for the whole behaviour;   *)
(* the process may crash or be restarted at any point, and the files under *)
(* .runtime/authkit survive restarts.                                      *)
(***************************************************************************)
EXTENDS Integers, FiniteSets, Sequences, Functions, TLC

CONSTANTS
    EnvConfigs,   \* possible environments: [kid, pem, pubsOk, pubs]
    FsConfigs,    \* possible /vault/auth states: [state, kid, pem, pubs]
    DiskInits,    \* possible initial .runtime/authkit contents: [pem, kid]
    GenKeys,      \* sequence of keys rsa.GenerateKey returns, in order
                  \* (long enough: MC modules bound gens below its length)
    DevKid,       \* function: clock second -> "dev-<unix seconds>"
    MaxClock,     \* bound on the clock (seconds)
    FaultModes    \* subset of BOOLEAN: may writes of the dev key files fail

VARIABLES
    env, fs, prod,   \* the configuration (fixed once chosen)
    faults,          \* whether this host's dev key writes may fail (fixed)
    disk,            \* .runtime/authkit: [pem, kid], "none" when absent
    clock,           \* time.Now().Unix()
    phase,           \* "down", "pem", "kid" (persisting), "up", "failed"
    gens,            \* number of keys generated so far
    active,          \* the active signer: [kid, key]
    pubs,            \* PublicKeys(): kid -> key
    tokens,          \* history: [kid, key] of every token signed
    cached           \* a verifier's copy of the JWKS: [etag, doc, checked],
                     \* checked = when it was last validated (max-age runs
                     \* from there)

vars == <<env, fs, prod, faults, disk, clock, phase, gens, active, pubs, tokens, cached>>

NoSigner == [kid |-> "", key |-> ""]
NoPubs == [x \in {} |-> ""]
NoETag == <<>>   \* no If-None-Match header
NoCache == [etag |-> NoETag, doc |-> {}, checked |-> 0]

\* Result of a loader: "none" (not configured), "error" or "ok".
None == [outcome |-> "none", kid |-> "", key |-> "", pubs |-> NoPubs]
Err  == [outcome |-> "error", kid |-> "", key |-> "", pubs |-> NoPubs]

\* The public-key map both static loaders build: the active kid first, then
\* every entry of PUBLIC_KEYS / public_keys that parses, overwriting.
StaticPubs(kid, key, extra) ==
    LET good == {x \in DOMAIN extra : extra[x] # "bad"}
    IN  [x \in {kid} \cup good |-> IF x \in good THEN extra[x] ELSE key]

Ok(kid, key, extra) ==
    [outcome |-> "ok", kid |-> kid, key |-> key, pubs |-> StaticPubs(kid, key, extra)]

\* NewRSASignerFromPEM succeeds: the PEM is non-empty, decodes, and holds
\* a PKCS#1 or PKCS#8 RSA private key.
PemParses(pem) == pem \notin {"", "bad"}

tryLoadFromEnv(e) ==
    IF e.kid = "" /\ e.pem = "" THEN None
    ELSE IF e.kid = "" \/ ~PemParses(e.pem) \/ ~e.pubsOk THEN Err
    ELSE Ok(e.kid, e.pem, e.pubs)

tryLoadFromFilesystem(f) ==
    IF f.state = "absent" THEN None
    ELSE IF f.state \in {"unreadable", "malformed"} THEN Err
    ELSE IF f.kid = "" \/ ~PemParses(f.pem) THEN Err
    ELSE Ok(f.kid, f.pem, f.pubs)

\* The first configured static source, in NewAutoKeySource's priority.
Configured ==
    IF tryLoadFromEnv(env).outcome # "none" THEN tryLoadFromEnv(env)
    ELSE tryLoadFromFilesystem(fs)

\* Mutant of DiskKid: the kid file is never read.
DiskKidIgnored == "dev"

\* loadKeysFromDisk: the kid file's trimmed content, or "dev".
DiskKid == IF disk.kid \in {"none", ""} THEN "dev" ELSE disk.kid

\* private.pem exists and parses.
DiskLoadable == disk.pem # "none" /\ PemParses(disk.pem)

\* NewRSASigner: the next key rsa.GenerateKey returns, with the given kid.
NewRSASigner(kid) == [kid |-> kid, key |-> GenKeys[gens + 1]]

Up(kid, key, ps) ==
    /\ phase' = "up"
    /\ active' = [kid |-> kid, key |-> key]
    /\ pubs' = ps

Init ==
    /\ env \in EnvConfigs
    /\ fs \in FsConfigs
    /\ prod \in BOOLEAN
    /\ faults \in FaultModes
    /\ disk \in DiskInits
    /\ clock = 0
    /\ phase = "down"
    /\ gens = 0
    /\ active = NoSigner
    /\ pubs = NoPubs
    /\ tokens = {}
    /\ cached = NoCache

Tick ==
    /\ clock < MaxClock
    /\ clock' = clock + 1
    /\ UNCHANGED <<env, fs, prod, faults, disk, phase, gens, active, pubs, tokens, cached>>

\* NewAutoKeySource returns the environment's or keys.json's source.
StartStatic ==
    /\ phase = "down"
    /\ Configured.outcome = "ok"
    /\ Up(Configured.kid, Configured.key, Configured.pubs)
    /\ UNCHANGED <<env, fs, prod, faults, disk, clock, gens, tokens, cached>>

\* NewAutoKeySource fails: a configured source is invalid, or nothing is
\* configured in production.  The process exits.
StartFailed ==
    /\ phase = "down"
    /\ \/ Configured.outcome = "error"
       \/ Configured.outcome = "none" /\ prod
    /\ phase' = "failed"
    /\ UNCHANGED <<env, fs, prod, faults, disk, clock, gens, active, pubs, tokens, cached>>

\* NewGeneratedKeySource reuses the persisted development key.
StartFromDisk ==
    /\ phase = "down"
    /\ Configured.outcome = "none" /\ ~prod
    /\ DiskLoadable
    /\ Up(DiskKid, disk.pem, DiskKid :> disk.pem)
    /\ UNCHANGED <<env, fs, prod, faults, disk, clock, gens, tokens, cached>>

\* NewGeneratedKeySource generates a key with kid "dev-<unix>" and starts
\* persistKeysToDisk; the signer is held in active until the process is up.
StartGenerate ==
    /\ phase = "down"
    /\ Configured.outcome = "none" /\ ~prod
    /\ ~DiskLoadable
    /\ gens' = gens + 1
    /\ phase' = "pem"
    /\ active' = NewRSASigner(DevKid[clock])
    /\ UNCHANGED <<env, fs, prod, faults, disk, clock, pubs, tokens, cached>>

\* Mutant of PersistPem: the kid is written where the PEM belongs.
PersistPemSwapped ==
    /\ phase = "pem"
    /\ disk' = [disk EXCEPT !.pem = active.kid]
    /\ phase' = "kid"
    /\ UNCHANGED <<env, fs, prod, faults, clock, gens, active, pubs, tokens, cached>>

\* (mutant) The private.pem write goes nowhere but reports success.
PersistPemNoWrite ==
    /\ phase = "pem"
    /\ phase' = "kid"
    /\ UNCHANGED <<env, fs, prod, faults, disk, clock, gens, active, pubs, tokens, cached>>

\* os.WriteFile(private.pem) succeeds.
PersistPem ==
    /\ phase = "pem"
    /\ disk' = [disk EXCEPT !.pem = active.key]
    /\ phase' = "kid"
    /\ UNCHANGED <<env, fs, prod, faults, clock, gens, active, pubs, tokens, cached>>

\* MkdirAll or the private.pem write fails (a failed write may leave a
\* truncated file): the warning is printed and the in-memory key is used.
PersistPemFail ==
    /\ faults
    /\ phase = "pem"
    /\ disk' \in {disk, [disk EXCEPT !.pem = "bad"]}
    /\ Up(active.kid, active.key, active.kid :> active.key)
    /\ UNCHANGED <<env, fs, prod, faults, clock, gens, tokens, cached>>

\* os.WriteFile(kid) succeeds; the generated source is returned.
PersistKid ==
    /\ phase = "kid"
    /\ disk' = [disk EXCEPT !.kid = active.kid]
    /\ Up(active.kid, active.key, active.kid :> active.key)
    /\ UNCHANGED <<env, fs, prod, faults, clock, gens, tokens, cached>>

\* The kid write fails (possibly truncating the file); warning, continue.
PersistKidFail ==
    /\ faults
    /\ phase = "kid"
    /\ disk' \in {disk, [disk EXCEPT !.kid = ""]}
    /\ Up(active.kid, active.key, active.kid :> active.key)
    /\ UNCHANGED <<env, fs, prod, faults, clock, gens, tokens, cached>>

\* RSASigner.Sign: a token carrying the active kid, signed by its key.
Sign ==
    /\ phase = "up"
    /\ tokens' = tokens \cup {active}
    /\ UNCHANGED <<env, fs, prod, faults, disk, clock, phase, gens, active, pubs, cached>>

\* The process stops (crash, deploy, exit after a failed start) and is
\* started again; only the files survive.
Restart ==
    /\ phase # "down"
    /\ phase' = "down"
    /\ active' = NoSigner
    /\ pubs' = NoPubs
    /\ UNCHANGED <<env, fs, prod, faults, disk, clock, gens, tokens, cached>>

\* The JWKS document svc.JWKS() builds from PublicKeys(): one RSA JWK
\* (RSAPublicToJWK) per kid.
JWKSDoc(ps) == {[kid |-> k, key |-> ps[k]] : k \in DOMAIN ps}

\* ServeJWKS's ETag: the quoted SHA-256 of the marshalled document.  The
\* hash is taken as collision-free, so an ETag names one document.
ETag(doc) == <<doc>>

\* ServeJWKS's conditional GET test.
NotModified(inm, etag) == inm # NoETag /\ inm = etag

\* A verifier revalidates its copy (If-None-Match: its ETag) and the ETag
\* still matches: 304 Not Modified, the copy is kept and fresh again.
FetchNotModified ==
    /\ phase = "up"
    /\ NotModified(cached.etag, ETag(JWKSDoc(pubs)))
    /\ cached' = [cached EXCEPT !.checked = clock]
    /\ UNCHANGED <<env, fs, prod, faults, disk, clock, phase, gens, active, pubs, tokens>>

\* Otherwise ServeJWKS writes the document with its ETag and the verifier
\* replaces its copy.
FetchJWKS ==
    /\ phase = "up"
    /\ ~NotModified(cached.etag, ETag(JWKSDoc(pubs)))
    /\ cached' = [etag |-> ETag(JWKSDoc(pubs)), doc |-> JWKSDoc(pubs), checked |-> clock]
    /\ UNCHANGED <<env, fs, prod, faults, disk, clock, phase, gens, active, pubs, tokens>>

Next ==
    \/ FetchNotModified \/ FetchJWKS \/ Tick \/ StartStatic \/ StartFailed \/ StartFromDisk \/ StartGenerate
    \/ PersistPem \/ PersistPemFail \/ PersistKid \/ PersistKidFail
    \/ Sign \/ Restart

Spec == Init /\ [][Next]_vars

-----------------------------------------------------------------------------
(* Properties *)

KidValues == {e.kid : e \in EnvConfigs} \cup {f.kid : f \in FsConfigs}
             \cup {d.kid : d \in DiskInits} \cup {"dev"} \cup Range(DevKid)
KeyValues == {e.pem : e \in EnvConfigs} \cup {f.pem : f \in FsConfigs}
             \cup {d.pem : d \in DiskInits} \cup Range(GenKeys)
             \cup UNION {Range(e.pubs) : e \in EnvConfigs}
             \cup UNION {Range(f.pubs) : f \in FsConfigs} \cup {""}

TypeOK ==
    /\ env \in EnvConfigs /\ fs \in FsConfigs /\ prod \in BOOLEAN
    /\ faults \in FaultModes
    /\ disk.pem \in KeyValues \cup {"none", "bad"}
    /\ disk.kid \in KidValues \cup {"none", ""}
    /\ clock \in 0..MaxClock
    /\ phase \in {"down", "pem", "kid", "up", "failed"}
    /\ gens \in 0..Len(GenKeys)
    /\ active \in [kid : KidValues \cup {""}, key : KeyValues]
    /\ DOMAIN pubs \subseteq KidValues
    /\ tokens \subseteq [kid : KidValues, key : KeyValues \ {"", "bad"}]
    /\ cached.etag \in {NoETag, ETag(cached.doc)}
    /\ cached.doc \subseteq [kid : KidValues, key : KeyValues]
    /\ cached.checked \in 0..MaxClock

(* Tokens stay verifiable: while the process is up, every token ever signed *)
(* by the key that is still the active one - in this run or before a       *)
(* restart - is verified by the published key of its kid.  This is about   *)
(* the PUBLIC_KEYS merge of the static loaders and about the kid that      *)
(* persistKeysToDisk / loadKeysFromDisk attach to a reused dev key.        *)
ActiveTokensVerify ==
    phase = "up" =>
        \A t \in tokens :
            t.key = active.key => t.kid \in DOMAIN pubs /\ pubs[t.kid] = t.key

(* ActiveTokensVerify on hosts where the dev key files are always written: *)
(* the restarts and the configuration priority of NewAutoKeySource alone  *)
(* never strand a token signed by the active key.                          *)
ActiveTokensVerifyReliable == ~faults => ActiveTokensVerify

(* A kid names one key, for all time: every token ever signed, the JWKS   *)
(* the process serves now and the copy a verifier cached - possibly from  *)
(* an earlier run of the process - agree on the key behind each kid, so a *)
(* verifier that selects the key by the token's kid (spec 4.1) never      *)
(* checks a token against another key.  The dev kid is "dev-<unix         *)
(* seconds>" (NewGeneratedKeySource): this holds only as long as a        *)
(* generated key is reused after every restart, never replaced within the *)
(* same second.  Stated for hosts whose dev key writes succeed.            *)
KidBindings == tokens \cup cached.doc \cup JWKSDoc(pubs)

KidNamesOneKeyReliable ==
    ~faults => \A b1, b2 \in KidBindings : b1.kid = b2.kid => b1.key = b2.key

=============================================================================
