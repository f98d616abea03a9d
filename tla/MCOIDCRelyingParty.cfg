\* Google (PKCE) or Apple (no verifier sent), with or without code
\* interception, genuine or compromised discovery.
CONSTANTS
    Sessions <- MCSessions
    Owner <- MCOwner
    Attacker = "attacker"
    Providers = {"google", "apple"}
    ConfIssuer <- Idp
    ProvIssuer <- IdpSlash
    Docs <- MCDocsAll
    InterceptModes = {FALSE, TRUE}

SPECIFICATION Spec
INVARIANT TypeOK
INVARIANT LoginBound
PROPERTY HonestLoginCompletes

\* Every login attempt ends, signed in or failed, and nothing is left to do.
CHECK_DEADLOCK FALSE
