CONSTANTS
    Workers = {w1, w2}
    Proposals = {p1, p2}
    Risks = {r1}
    Messages = {m1, m2}
    Ttls = {1, 2}
    Lives = {2}
    MaxTime = 3
    None = None
SPECIFICATION Spec
INVARIANTS
    RecordsAgree
    RefusedOnlyLate
PROPERTIES
    OneShot
