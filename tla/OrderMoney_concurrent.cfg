SPECIFICATION Spec
CONSTANTS
    Customers = {c1}
    Providers = {s1}
    PlatformWallets = {w1, w2}
    Orders = {o1}
    Payments = {p1}
    Requests = {r1, r2}
    Subtotals = {2}
    CommissionRates = {0}
    Percents = {0, 50}
    OpeningFunds <- MCFunds
INVARIANT MoneyOutNeedsCharge
PROPERTY LedgerBacksBalances
PROPERTY EscrowSpec
