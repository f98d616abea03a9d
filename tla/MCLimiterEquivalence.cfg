\* One client, one principal, one bucket; a request at most once per ms and
\* Redis replies never lost: the input histories of spec 4.5.
CONSTANTS
    Client = c1
    Principals = {"u1"}
    Buckets = {"login"}
    Limits <- MCLimits
    MaxTime = 7
    OnePerMs = TRUE
    FaultModes = {FALSE}

SPECIFICATION Spec
INVARIANT SameDecision

\* The clock bound ends every behaviour: at MaxTime no new request may start.
CHECK_DEADLOCK FALSE
