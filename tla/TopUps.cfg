SPECIFICATION FairSpec
CONSTANTS
    c1 = c1
    Customers = {c1}
    Keys = {k1}
    Owner <- MCOwner
    TopUpRows = {l1, l2}
    Amounts = {1, 2}
    Requests = {r1, r2}
    MaxFailures = 2
INVARIANT CreditIsPaid
PROPERTY CreditedWithRow
PROPERTY SettledStays
PROPERTY PaidIsSettled
CHECK_DEADLOCK FALSE
