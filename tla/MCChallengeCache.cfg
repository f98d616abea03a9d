\* Requests verified one at a time (one verifier), replays included.
CONSTANTS
    Nonces = {n1, n2, n3}
    Verifiers = {v1}
    TTL = 2
    MaxTime = 7
    Backends = {"memory", "redis"}

SPECIFICATION Spec

INVARIANT TypeOK
PROPERTY ChallengeStoreRefined
PROPERTY EventuallySwept

\* After Close the sweeper exits and, once the clock bound is reached and
\* every request has finished, nothing is left to do: the program stops.
CHECK_DEADLOCK FALSE
