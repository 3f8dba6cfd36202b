SPECIFICATION Spec
CONSTANTS
    p1 = p1
    p2 = p2
    Orders = {o1}
    Products <- MCProducts
    Workers = {w1, w2}
    LineQuantities = {333, 500}
    MaxReceived = 600
    Tolerance = 5000
    Cost <- MCCost
    TaxRate <- MCTaxRate
INVARIANTS ReceivedIsComplete UnracedStatusIsExact PayableFollowsGoods
PROPERTY ReceivedLinesStand
