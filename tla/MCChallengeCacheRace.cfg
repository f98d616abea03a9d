\* Two verification requests presenting the same nonce concurrently.
CONSTANTS
    Nonces = {n1}
    Verifiers = {v1, v2}
    TTL = 2
    MaxTime = 4
    Backends = {"memory", "redis"}

SPECIFICATION Spec

INVARIANT NonceSingleUse

\* Once the clock bound is reached and both requests have finished,
\* nothing is left to do: the program stops.
CHECK_DEADLOCK FALSE
