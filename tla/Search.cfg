\* Three documents of two tenants, one of them ingested twice, and two requests.
SPECIFICATION FairSpec
CONSTANTS
    d1 = d1
    d2 = d2
    d3 = d3
    t1 = t1
    t2 = t2
    c1 = c1
    c2 = c2
    Docs = {d1, d2, d3}
    Tenants = {t1, t2}
    Collections = {c1, c2}
    TenantOf <- MCTenantOf
    CollectionOf <- MCCollectionOf
    Matching = {d1, d3}
    Everywhere = Everywhere
    Queries <- MCQueries
    Requests = {r1, r2}
    NoEntry = NoEntry
    NoQuery = NoQuery
    Pool = 2
    Ttl = 2
    MaxIngests <- MCMaxIngests
    MaxFaults = 1
INVARIANTS
    SearchTypeOK
    AnswersFitTheirQuery
PROPERTIES
    SearchIsAnswered
    StaleEntriesDie
