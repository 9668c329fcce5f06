SPECIFICATION Spec
CONSTANTS
    lea = lea
    mia = mia
    pat = pat
    c1 = c1
    c2 = c2
    s1 = s1
    s2 = s2
    k1 = k1
    k2 = k2
    sunday = sunday
    text = text
    r1 = r1
    r2 = r2
    None = None
    Members = {lea, mia}
    Leaders = {lea}
    Musicians = {lea, mia}
    Churches = {c1}
    Schedules = {s1}
    Slots = {k1, k2}
    Dates = {sunday}
    Notes = {}
    Requests = {r1, r2}
    TokenChurch <- OneTokenChurch
SYMMETRY Interchangeable
INVARIANTS TypeOK NotifiedIsPublished UnnotifiedIsLate OnePublisher
PROPERTIES ImplementsTeams
