\* One tenant, one content, two registrations.
SPECIFICATION Spec
CONSTANTS
    Tenants = {t1}
    Hashes = {h1}
    Requests = {r1, r2}
    NoRow = NoRow
    NoRequest = NoRequest
    NoAnswer = NoAnswer
CHECK_DEADLOCK FALSE
INVARIANTS
    RepeatIsAnswered
