SPECIFICATION Spec
CONSTANTS
    Orders = {o1, o2}
    Products = {p1, p2}
    MaxQty = 1
    Keys = {k1}
    NoKey = NoKey
INVARIANTS StockMovesOnce ReturnsCoveredByIssue CancelledNeverMoved
PROPERTY ImplementsGoodsFlow
CHECK_DEADLOCK FALSE
