SPECIFICATION Spec
CONSTANTS
    lea = lea
    mia = mia
    pat = pat
    c1 = c1
    c2 = c2
    s1 = s1
    s2 = s2
    k1 = k1
    k2 = k2
    sunday = sunday
    text = text
    r1 = r1
    r2 = r2
    None = None
    Members = {lea, mia, pat}
    Leaders = {lea, pat}
    Musicians = {lea, mia, pat}
    Churches = {c1, c2}
    Schedules = {s1, s2}
    Slots = {k1}
    Dates = {sunday}
    Notes = {text}
    Requests = {r1}
    TokenChurch <- TwoTokenChurch
PROPERTIES WithinChurch
