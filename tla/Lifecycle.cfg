CONSTANTS
    Orders = {o1}
    Variants = {v1}
    Workers = {w1, w2}
    Calls = {c1, c2}
    NoOrder = NoOrder
    NoWorker = NoWorker
    NoCall = NoCall
    Qty <- MCQty
    InitStock <- MCInitStock
    Stock = 1
    StockLevels = {}
    Delistable = {}
    BatchLimit = 2
    AdminTargets = {"confirmed"}
SYMMETRY Slots
SPECIFICATION Spec
PROPERTY
    LifecycleGraph
