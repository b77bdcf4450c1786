CONSTANTS
    Orders = {o1}
    Variants = {v1}
    Workers = {w1, w2, w3}
    Calls = {c1, c2, c3}
    NoOrder = NoOrder
    NoWorker = NoWorker
    NoCall = NoCall
    Qty <- MCQty
    InitStock <- MCInitStock
    Stock = 1
    StockLevels = {0, 1}
    Delistable = {}
    BatchLimit = 2
    AdminTargets = {"cancelled", "confirmed", "processing", "shipped", "delivered"}
SYMMETRY Slots
SPECIFICATION Spec
INVARIANTS
    TypeOK
    OrdersBacked
    CancelledReleased
    ClearedOrdersReserved
PROPERTIES
    EntryAlongTransitions
