SPECIFICATION PricingSpec
CONSTANTS
    g = g
    NSales = 2
    Goods = {g}
    Rows <- MCRows
    Orderings <- MCOrderings
    Discounts = {5}
    Percents = {1000}
    Clerks = {w1, w2}
    CreditLimit = 150
    SettledBalance = 20
INVARIANTS TotalsMatchLines DocumentFoots
PROPERTY AcceptedWithinLimit
SYMMETRY Perms
