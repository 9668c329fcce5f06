SPECIFICATION Spec
CONSTANTS
    ana = ana
    ben = ben
    zoe = zoe
    c1 = c1
    c2 = c2
    pastor = pastor
    team = team
    red = red
    card = card
    r1 = r1
    r2 = r2
    None = None
    Members = {ana, ben}
    Churches = {c1}
    Founder <- OneFounder
    Roles = {pastor, team}
    SystemRoles = {pastor}
    SystemProfile <- PastorOnly
    PastorRole = pastor
    RoleNames = {red}
    RoleProfiles = {"leadership"}
    Cards = {}
    RoleSets <- NewcomerRoles
    Sheets <- BenTwice
    Requests = {r1, r2}
SYMMETRY Interchangeable
INVARIANTS TypeOK AssignmentsSound ImportTold
