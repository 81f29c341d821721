CONSTANTS
    Rows = {d1}
    NoRow = NoRow
    Sweeps = {s1, s2}
    Retries = {r1}
    MaxAttempts = 2
    MaxFailures = 1
SPECIFICATION FairSpec
INVARIANTS
    IInv
PROPERTIES
    SettledInTurn
    RowsResolve
\* Every row is settled in the end.
CHECK_DEADLOCK FALSE
