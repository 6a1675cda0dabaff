SPECIFICATION Spec
CONSTANTS
    Providers = {s1}
    Keys = {k1, k2}
    Methods = {m1, m2}
    Amounts = {1, 2}
    MaxEarned = 2
    Requests = {r1}
SYMMETRY Symmetry
INVARIANT BalanceIsExact
INVARIANT ActiveIsBacked
INVARIANT OnePayoutPerMethod
INVARIANT OneDefault
