SPECIFICATION FairSpec
CONSTANTS
    c1 = c1
    Customers = {c1}
    Keys = {k1}
    Owner <- MCOwner
    TopUpRows = {l1}
    Amounts = {1}
    Requests = {r1}
    MaxFailures = 0
PROPERTY PaidIsCredited
CHECK_DEADLOCK FALSE
