\* One thread hands in limit, market and IOC orders; valid and invalid quantities.
SPECIFICATION Spec
CONSTANTS
    Handlers = {h1}
    Types = {"LIMIT", "MARKET", "IOC"}
    Prices = {1, 2}
    Quantities = {0, 1, 2}
    MaxOrders = 3
    MaxIterations = 10
INVARIANTS
    TypeOK
    LogTellsAll
    MatchesDetermined
