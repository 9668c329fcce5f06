SPECIFICATION Spec
CONSTANTS
    drill = drill
    soap = soap
    lea = lea
    mia = mia
    pat = pat
    c1 = c1
    c2 = c2
    ghost = ghost
    l1 = l1
    l2 = l2
    r1 = r1
    r2 = r2
    None = None
    Items = {drill}
    Loans = {l1, l2}
    Members = {lea, mia}
    Staff = {lea}
    Churches = {c1}
    Targets = {mia}
    Requests = {r1, r2}
    TokenChurch <- OneTokenChurch
    MemberChurches <- OneMemberChurches
    ItemChurch <- OneItemChurch
PROPERTY LentWhileAvailable
