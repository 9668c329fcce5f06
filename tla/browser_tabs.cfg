SPECIFICATION FairBrowserSpec
CONSTANTS
    mia = mia
    k1 = k1
    k2 = k2
    left = left
    right = right
    a = a
    b = b
    c = c
    None = None
    Members = {mia}
    Tokens = {k1, k2}
    Requests = {a, b, c}
    Calls = {a, b, c}
    Tabs = {left, right}
    Tab <- TabOf
    MaxEvents = 1
INVARIANTS BrowserTypeOK KickedForCause
PROPERTIES EveryCallSettles
