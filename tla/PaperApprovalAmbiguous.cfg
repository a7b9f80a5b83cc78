CONSTANTS
    Workers = {w1}
    Proposals = {p1}
    Risks = {r1}
    Messages = {m1, m2}
    Ttls = {1}
    Lives = {1}
    MaxTime = 1
    None = None
SPECIFICATION Spec
INVARIANT AmbiguousRowRecoverable
