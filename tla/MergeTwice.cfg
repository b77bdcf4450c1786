CONSTANTS
    user = user
    guest = guest
    v1 = v1
    v2 = v2
    v3 = v3
    Keys = {user, guest}
    Variants = {v1, v3}
    Handlers = {h1, h2}
    Currencies = {"ZAR", "USD"}
    NoCurrency = "none"
    MaxItems = 2
    MaxQuantity = 2
    Infos <- RetryInfos
    Requests <- MergeRequests
SPECIFICATION Spec
INVARIANTS
    MergedOnce
