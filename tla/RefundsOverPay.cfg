CONSTANTS
    Requests = {r1, r2}
    Total = 2
    MaxFailures = 0
SPECIFICATION Spec
INVARIANTS
    NoOverRefund
\* Every request ends.
CHECK_DEADLOCK FALSE
