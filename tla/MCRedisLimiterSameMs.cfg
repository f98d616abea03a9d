CONSTANTS
    Procs = {p1}
    Principals = {"u1"}
    Buckets = {"login"}
    Limits <- MCLimits
    MaxTime = 7
    FaultModes = {FALSE}

SPECIFICATION Spec
CONSTRAINT AdmissionBound

PROPERTY NoOverAdmission
