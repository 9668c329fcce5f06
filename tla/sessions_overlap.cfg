SPECIFICATION Spec
CONSTANTS
    mia = mia
    t1 = t1
    t2 = t2
    t3 = t3
    r1 = r1
    r2 = r2
    None = None
    Members = {mia}
    Tokens = {t1, t2, t3}
    Requests = {r1, r2}
SYMMETRY Interchangeable
INVARIANTS TypeOK DoorStaysShut SerialExchange
PROPERTIES ImplementsTokens
