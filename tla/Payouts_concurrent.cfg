SPECIFICATION Spec
CONSTANTS
    Providers = {s1}
    Keys = {k1, k2}
    Methods = {m1}
    Amounts = {1, 2}
    MaxEarned = 2
    Requests = {r1, r2}
SYMMETRY Symmetry
INVARIANT NothingIsLost
PROPERTY DebitedOnce
