CONSTANTS
    Categories = {c1, c2, c3}
    CategoryHandlers = {h1, h2}
    NoCategory = NoCategory
    ProductVariantIds = {v1, v2}
    VariantHandlers = {h1, h2}
    VariantCurrencies = {"ZAR", "USD"}
    DefaultCurrency = "ZAR"
    Units = {u1, u2}
    Keys = {k1, k2}
    CheckoutHandlers = {h1, h2}
    MaxClears = 2
    Fetches = {f1, f2}
    CartIds = {i1, i2}
    Variants = {v1, v2}
    NoId = NoId
    NoVariant = NoVariant
    MaxChanges = 2
SPECIFICATION Spec
INVARIANTS
    ShopTypeOK
    NothingLost
    BoughtLeavesCart
    SpinnersEnd
PROPERTIES
    CycleOnlyByRace
    SoldInOneCurrency
    ArchiveSticks
    AloneShowsStored
    NeverOlderThanSeen
    CartKept
