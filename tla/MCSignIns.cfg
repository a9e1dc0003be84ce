\* Two addresses from two clients, a limit of two, two workers, so three failures
\* of one address in a window, a fourth after one expires, and two of staff.
CONSTANTS
    Emails = {e1, e2}
    Sources = {i1, i2}
    Workers = {w1, w2}
    Staff = {s1, s2}
    Limit = 2
    MaxAttempts = 4
    Idle = idle
    None = none
    Open = open
SYMMETRY Symmetric
SPECIFICATION WatchSpec
INVARIANTS
    WatchTypeOK
    FailuresBounded
    LocksAreReported
    ResolvedOnce
