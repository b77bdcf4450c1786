CONSTANTS
    o1 = o1
    o2 = o2
    v1 = v1
    v2 = v2
    c1 = c1
    c2 = c2
    c3 = c3
    Orders = {o1, o2}
    Variants = {v1, v2}
    Calls = {c1, c2, c3}
    NoOrder = NoOrder
    Qty <- MCQty
    InitStock <- MCInitStock
    StockLevels = {}
    Delistable = {v2}
SYMMETRY CallSymmetry
SPECIFICATION InventorySpec
INVARIANTS
    InventoryTypeOK
    AnswersHold
    StockConserved
PROPERTY
    LedgerSpec
