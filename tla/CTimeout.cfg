SPECIFICATION Spec
CONSTANTS
    Clients = {c1}
    Triples = {t1}
    Texts = {m1, m2}
    MaxCounter = 1
    None = none
INVARIANTS EvaluationsTimeOut
