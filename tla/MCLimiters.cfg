\* Both backends fed the same request stream: several requests in one
\* millisecond allowed, deployments with and without lost Redis replies.
CONSTANTS
    Client = c1
    Principals = {"u1"}
    Buckets = {"login"}
    Limits <- MCLimits
    MaxTime = 7
    OnePerMs = FALSE
    FaultModes = {FALSE, TRUE}

SPECIFICATION Spec
CONSTRAINT AdmissionBound

INVARIANT TypeOK
INVARIANT RedOnlyAdmissionsRecordedReliable
PROPERTY MemNoOverAdmission
PROPERTY MemDenialJustified
PROPERTY RedDenialJustifiedReliable
PROPERTY RedDistinctAdmissionBound
