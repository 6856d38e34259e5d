SPECIFICATION FairSpec
CONSTANTS
    c1 = c1
    c2 = c2
    Clients = {c1, c2}
    Concurrency = 2
    Namespaces = {"a", "b"}
    Order <- MCOrder
    Exporters = {"gpu"}
    NoNamespace = NoNamespace
    NoError = NoError
    TTL = 1
    ScrapeLimit = 1
    MaxTime = 3
INVARIANTS
    AnswerGenuine
PROPERTIES
    EveryRequestAnswered
    ReadingsRecent
CHECK_DEADLOCK FALSE
