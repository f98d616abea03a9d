\* One session, a client and a thief, concurrent rotate calls, lost
\* responses, revocation.
CONSTANTS
    Sessions = {s1}
    Subjects = {u1}
    Secrets = {f1, f2, f3, f4, f5}
    NoSecret = NoSecret
    MaxLost = 2

SPECIFICATION Spec
SYMMETRY SecretSymmetry

INVARIANT TypeOK
INVARIANT HonestRetryNotFlagged
