SPECIFICATION FairExposureSpec
CONSTANTS
    o1 = o1
    o2 = o2
    Orders = {o1, o2}
    Workers = {w1, w2}
    Years = {y1}
    Keys = {k1}
    NoKey = NoKey
    Taxable <- MCTaxable
    Tax <- MCTax
    Units <- MCUnits
INVARIANTS Gapless CreditedWithinInvoice BooksAgree NeverDoubleCounts
PROPERTIES ImplementsBillBook TransactionsEnd
