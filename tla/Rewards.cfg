SPECIFICATION FairSpec
CONSTANTS
    c1 = c1
    c2 = c2
    p1 = p1
    p2 = p2
    Customers = {c1, c2}
    Founders = {c1}
    Payments = {p1, p2}
    Payer <- MCPayer
    Amount <- MCAmount
    SettingsRows <- MCSettings
    Redemptions = {e1, e2}
    Withdrawn = {1, 2}
    Settlers = {s1, s2}
    Redeemers = {d1}
    MaxFailures = 1
INVARIANT RewardsMatchReferral
INVARIANT RewardIsPaidFor
INVARIANT RedemptionIsCovered
PROPERTY RedemptionIsCredited
PROPERTY PurchaseIsDecided
CHECK_DEADLOCK FALSE
