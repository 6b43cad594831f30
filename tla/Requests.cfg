\* A pool of two connections (a pool_size of one) and three requests at a time.
SPECIFICATION FairSpec
CONSTANTS
    r1 = r1
    r2 = r2
    r3 = r3
    Requests = {r1, r2, r3}
    Connections = {c1, c2}
    Asked <- MCAsked
    Free = Free
    Lost = Lost
INVARIANTS
    RequestsTypeOK
    FewUploadsNeverStall
    ToldIsDone
PROPERTIES
    EveryRequestEnds
    ConnectionsComeBack
