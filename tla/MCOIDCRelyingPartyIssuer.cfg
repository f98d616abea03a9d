\* Spec 4.4: a discovered issuer that differs from the configured one is
\* fatal.  Checked over every modelled discovery response, including the
\* compromised one naming the issuer "/".
CONSTANTS
    Sessions <- MCSessions
    Owner <- MCOwner
    Attacker = "attacker"
    Providers = {"google", "apple"}
    ConfIssuer <- Idp
    ProvIssuer <- IdpSlash
    Docs <- MCDocsAll
    InterceptModes = {FALSE, TRUE}

SPECIFICATION Spec
INVARIANT IssuerPinned
CHECK_DEADLOCK FALSE
