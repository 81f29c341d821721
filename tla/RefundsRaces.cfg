CONSTANTS
    Requests = {r1, r2, r3}
    Total = 3
    MaxFailures = 1
SPECIFICATION Spec
INVARIANTS
    IInv
    BooksFollowMoney
PROPERTIES
    RefundsAdvance
\* Every request ends.
CHECK_DEADLOCK FALSE
