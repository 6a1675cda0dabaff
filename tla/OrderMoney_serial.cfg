SPECIFICATION Spec
CONSTANTS
    Customers = {c1}
    Providers = {s1}
    PlatformWallets = {w1, w2}
    Orders = {o1, o2}
    Payments = {p1}
    Requests = {r1}
    Subtotals = {2}
    CommissionRates = {0}
    Percents = {0, 50, 100}
    OpeningFunds <- MCFunds
INVARIANT NoOverdraft
 
INVARIANT RejectedIsNotCharged
