--------------------------- MODULE OIDCRelyingParty ---------------------------
(***************************************************************************)
(* The OIDC relying party: discovery (NewRelyingPartyOIDC, discoverOIDC in *)
(* src/unnamed/part_006), the code exchange (DefaultExchanger, lang.go)    *)
(* and ID-token verification (VerifyIDToken, oidc/verifier.go), against an *)
(* attacker who can intercept authorization codes and, in some runs,       *)
(* controls the discovery response.                                        *)
(*                                                                         *)
(* The login handlers are not in this repository's source; they follow    *)
(* the spec (4.4): BeginLogin stores fresh state, nonce and PKCE verifier  *)
(* for the session and sends the challenge up front (not for Apple); the   *)
(* callback looks the session up by state and calls DefaultExchanger with  *)
(* the stored verifier and nonce.  The provider is the OAuth token         *)
(* endpoint: a code is redeemed once, and only with the verifier of the    *)
(* request it answers when that request carried a challenge.               *)
(*                                                                         *)
(* Abstraction: each session's state, nonce and verifier are fresh, so     *)
(* they are represented by the session itself; the code answering a        *)
(* session's authorization request is that session too.  An issuer URL is  *)
(* a record [host, slash] so that TrimRight(_, "/") is modelled exactly.   *)
(***************************************************************************)
EXTENDS Integers, FiniteSets

CONSTANTS
    Sessions,    \* browser login attempts
    Owner,       \* Owner[s]: the user whose browser runs session s
    Attacker,    \* the attacker (one of the users)
    Providers,   \* provider names passed to DefaultExchanger
    ConfIssuer,  \* the issuer string the RP is configured with
    ProvIssuer,  \* the provider's real issuer (the iss of its tokens)
    Docs,        \* possible discovery responses: [issuer, owner, endpoints]
    InterceptModes \* whether the attacker can intercept codes: subset of BOOLEAN

Users == {Owner[s] : s \in Sessions}
NoUser == "none"
NoIssuer == [host |-> "", slash |-> FALSE]

VARIABLES
    provider,   \* the provider this RP is configured for
    intercept,  \* whether the attacker intercepts authorization codes
    doc,        \* the discovery response served to the RP
    rp,         \* [status: "down"/"failed"/"up", issuer, owner of the endpoints]
    phase,      \* per session: "new", "authorizing", "callback", "done", "failed"
    codes,      \* codes the provider issued (each answers its session)
    redeemed,   \* codes already exchanged at the token endpoint
    loggedAs,   \* per session: the user it was signed in as, or NoUser
    acceptedIss \* history: iss of every ID token VerifyIDToken accepted

vars == <<provider, intercept, doc, rp, phase, codes, redeemed, loggedAs, acceptedIss>>

\* strings.TrimRight(x, "/")
TrimRight(x) == [x EXCEPT !.slash = FALSE]

\* Mutant of discoverOIDC's check: the issuer is not compared at all.
IssuerRejectedNever(issuer) == FALSE

\* discoverOIDC: a non-empty discovered issuer that differs from the
\* (trimmed) configured issuer is fatal.
IssuerRejected(issuer) ==
    /\ TrimRight(issuer) # NoIssuer
    /\ TrimRight(issuer) # TrimRight(ConfIssuer)

\* discoverOIDC: authorization_endpoint, token_endpoint and jwks_uri are
\* all present in the response.
EndpointsComplete(d) == d.endpoints

\* Mutant of EffectiveIssuer: the fallback to the configured issuer dropped.
EffectiveIssuerNoFallback(issuer) == issuer

\* NewRelyingPartyOIDC: effectiveIssuer, the issuer tokens must carry.
EffectiveIssuer(issuer) == IF issuer = NoIssuer THEN ConfIssuer ELSE issuer

\* Mutant of Verifies: the nonce is never compared.
VerifiesNoNonce(tok, s) ==
    /\ tok.signer = rp.owner
    /\ tok.iss = rp.issuer

\* VerifyIDToken with the verifier DefaultExchanger builds: signature by a
\* key of the RP's key set, iss = rp.Issuer(), and the nonce stored for the
\* session (never empty: it is generated at BeginLogin).
Verifies(tok, s) ==
    /\ tok.signer = rp.owner
    /\ tok.iss = rp.issuer
    /\ tok.nonce = s

\* Mutant of VerifierSent: the PKCE condition inverted.
VerifierSentInverted(s) == IF provider = "apple" THEN s ELSE "none"

\* DefaultExchanger: code_verifier is sent except for Apple.
VerifierSent(s) == IF provider # "apple" THEN s ELSE "none"

\* The provider's token endpoint: the code is unused and, if its request
\* carried a challenge (not Apple), the verifier matches it.
CodeAccepted(c, verifier) ==
    /\ c \notin redeemed
    /\ provider = "apple" \/ verifier = c

Init ==
    /\ provider \in Providers
    /\ intercept \in InterceptModes
    /\ doc \in Docs
    /\ rp = [status |-> "down", issuer |-> NoIssuer, owner |-> "provider"]
    /\ phase = [s \in Sessions |-> "new"]
    /\ codes = {}
    /\ redeemed = {}
    /\ loggedAs = [s \in Sessions |-> NoUser]
    /\ acceptedIss = {}

\* NewRelyingPartyOIDC succeeds: the discovered issuer passes the check and
\* the endpoints are present.
Discover ==
    /\ rp.status = "down"
    /\ ~IssuerRejected(doc.issuer)
    /\ EndpointsComplete(doc)
    /\ rp' = [status |-> "up", issuer |-> EffectiveIssuer(doc.issuer), owner |-> doc.owner]
    /\ UNCHANGED <<provider, intercept, doc, phase, codes, redeemed, loggedAs, acceptedIss>>

\* discoverOIDC returns "issuer mismatch" or, for a matching issuer,
\* "discovery missing endpoints".
DiscoverRejected ==
    /\ rp.status = "down"
    /\ IssuerRejected(doc.issuer) \/ ~EndpointsComplete(doc)
    /\ rp' = [rp EXCEPT !.status = "failed"]
    /\ UNCHANGED <<provider, intercept, doc, phase, codes, redeemed, loggedAs, acceptedIss>>

\* BeginLogin: state, nonce and verifier stored; AuthURL returned.
BeginLogin(s) ==
    /\ rp.status = "up"
    /\ phase[s] = "new"
    /\ phase' = [phase EXCEPT ![s] = "authorizing"]
    /\ UNCHANGED <<provider, intercept, doc, rp, codes, redeemed, loggedAs, acceptedIss>>

\* The session's user authenticates at the authorization endpoint and is
\* redirected back with a code for this request.
Authorize(s) ==
    /\ phase[s] = "authorizing"
    /\ phase' = [phase EXCEPT ![s] = "callback"]
    /\ codes' = codes \cup {s}
    /\ UNCHANGED <<provider, intercept, doc, rp, redeemed, loggedAs, acceptedIss>>

\* Codes that can arrive at session s's callback: its own, and, in the
\* attacker's browser, any code the attacker intercepted.
Deliverable(s) ==
    ({s} \cap codes) \cup (IF intercept /\ Owner[s] = Attacker THEN codes ELSE {})

\* Callback with a genuine provider: DefaultExchanger exchanges the code
\* with the session's verifier; the token endpoint refuses it.
ExchangeRefused(s, c) ==
    /\ rp.status = "up" /\ rp.owner = "provider"
    /\ phase[s] = "callback"
    /\ c \in Deliverable(s)
    /\ ~CodeAccepted(c, VerifierSent(s))
    /\ phase' = [phase EXCEPT ![s] = "failed"]
    /\ UNCHANGED <<provider, intercept, doc, rp, codes, redeemed, loggedAs, acceptedIss>>

\* The exchange succeeds: the provider returns an ID token for the code's
\* request and user; VerifyIDToken accepts or rejects it.
ExchangeAccepted(s, c) ==
    LET tok == [iss |-> ProvIssuer, nonce |-> c, user |-> Owner[c],
                signer |-> "provider"]
    IN  /\ rp.status = "up" /\ rp.owner = "provider"
        /\ phase[s] = "callback"
        /\ c \in Deliverable(s)
        /\ CodeAccepted(c, VerifierSent(s))
        /\ redeemed' = redeemed \cup {c}
        /\ phase' = [phase EXCEPT ![s] = IF Verifies(tok, s) THEN "done" ELSE "failed"]
        /\ loggedAs' = [loggedAs EXCEPT ![s] = IF Verifies(tok, s) THEN tok.user ELSE NoUser]
        /\ acceptedIss' = IF Verifies(tok, s) THEN acceptedIss \cup {tok.iss} ELSE acceptedIss
        /\ UNCHANGED <<provider, intercept, doc, rp, codes>>

\* Endpoints from a compromised discovery response: the attacker's token
\* endpoint answers any exchange with an ID token of its choosing, signed
\* by its own key (it saw every nonce in the authorization URLs).
ExchangeForged(s, tok) ==
    /\ rp.status = "up" /\ rp.owner = "attacker"
    /\ phase[s] = "callback"
    /\ phase' = [phase EXCEPT ![s] = IF Verifies(tok, s) THEN "done" ELSE "failed"]
    /\ loggedAs' = [loggedAs EXCEPT ![s] = IF Verifies(tok, s) THEN tok.user ELSE NoUser]
    /\ acceptedIss' = IF Verifies(tok, s) THEN acceptedIss \cup {tok.iss} ELSE acceptedIss
    /\ UNCHANGED <<provider, intercept, doc, rp, codes, redeemed>>

ForgedTokens ==
    [iss : {d.issuer : d \in Docs} \cup {ConfIssuer, ProvIssuer},
     nonce : Sessions, user : Users, signer : {"attacker"}]

Next ==
    \/ Discover \/ DiscoverRejected
    \/ \E s \in Sessions :
          \/ BeginLogin(s) \/ Authorize(s)
          \/ \E c \in Sessions : ExchangeRefused(s, c) \/ ExchangeAccepted(s, c)
          \/ \E tok \in ForgedTokens : ExchangeForged(s, tok)

\* The RP process, each browser and the provider take their next step.
Fairness ==
    /\ WF_vars(Discover)
    /\ \A s \in Sessions :
          /\ WF_vars(BeginLogin(s))
          /\ WF_vars(Authorize(s))
          /\ WF_vars(ExchangeRefused(s, s) \/ ExchangeAccepted(s, s))

Spec == Init /\ [][Next]_vars /\ Fairness

-----------------------------------------------------------------------------
(* Properties *)

TypeOK ==
    /\ provider \in Providers /\ intercept \in InterceptModes
    /\ doc \in Docs
    /\ rp \in [status : {"down", "failed", "up"},
               issuer : {d.issuer : d \in Docs} \cup {ConfIssuer, NoIssuer},
               owner : {"provider", "attacker"}]
    /\ rp.status = "up" => rp.issuer # NoIssuer
    /\ phase \in [Sessions -> {"new", "authorizing", "callback", "done", "failed"}]
    /\ codes \subseteq Sessions /\ redeemed \subseteq codes
    /\ loggedAs \in [Sessions -> Users \cup {NoUser}]
    /\ acceptedIss \subseteq {d.issuer : d \in Docs} \cup {ConfIssuer, ProvIssuer}

(* Spec 4.4: a discovered issuer differing from the configured one is     *)
(* fatal, so trust is not rebased by discovery: every ID token the RP      *)
(* accepts carries the configured issuer, up to trailing slashes.  It is   *)
(* about discoverOIDC's mismatch check (part_006:115-116), which skips an  *)
(* issuer that trims to "", and NewRelyingPartyOIDC's effectiveIssuer      *)
(* (40-43), which keeps the untrimmed discovered issuer.                   *)
IssuerPinned ==
    \A i \in acceptedIss : TrimRight(i) = TrimRight(ConfIssuer)

(* With genuine discovery, a browser session is only ever signed in as its *)
(* own user: an intercepted code redeemed in the attacker's browser does   *)
(* not complete its login as the victim.  This is what the PKCE verifier   *)
(* of DefaultExchanger and the nonce check of VerifyIDToken are for (for   *)
(* Apple, which gets no verifier, the nonce check alone).  A discovery     *)
(* response the attacker controls, naming the real issuer, hands it every  *)
(* endpoint and key; no check of the RP can help then.                     *)
LoginBound ==
    doc.owner = "provider" =>
        \A s \in Sessions : loggedAs[s] # NoUser => loggedAs[s] = Owner[s]

(* An honest login completes: with genuine discovery and no interception,  *)
(* every session that is begun is eventually signed in as its user (the    *)
(* token endpoint accepts the code with the verifier DefaultExchanger      *)
(* sends, and VerifyIDToken accepts the token).                            *)
HonestLoginCompletes ==
    \A s \in Sessions :
        (phase[s] = "authorizing" /\ doc.owner = "provider" /\ ~intercept)
            ~> (loggedAs[s] = Owner[s])
=============================================================================
