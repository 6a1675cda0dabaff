SPECIFICATION FairSpec
CONSTANTS
    Providers = {s1}
    Keys = {k1}
    Methods = {m1}
    Amounts = {1}
    MaxEarned = 1
    Requests = {r1}
PROPERTY ApprovedSettles
