\* Three concurrent callers: time.Now() is read before l.mu.Lock().
CONSTANTS
    Procs = {p1, p2, p3}
    Principals = {"u1"}
    Buckets = {"login"}
    Limits <- MCLimits
    MaxTime = 5

SPECIFICATION Spec

PROPERTY NoOverAdmission
