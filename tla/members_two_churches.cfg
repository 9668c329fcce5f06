SPECIFICATION FairSpec
CONSTANTS
    ana = ana
    ben = ben
    zoe = zoe
    c1 = c1
    c2 = c2
    pastor = pastor
    team = team
    red = red
    card = card
    r1 = r1
    r2 = r2
    None = None
    Members = {ana, zoe}
    Churches = {c1, c2}
    Founder <- TwoFounders
    Roles = {pastor, team}
    SystemRoles = {pastor}
    SystemProfile <- PastorOnly
    PastorRole = pastor
    RoleNames = {red}
    RoleProfiles = {"leadership"}
    Cards = {card}
    RoleSets <- NewcomerRoles
    Sheets <- NoLists
    Requests = {r1}
PROPERTIES WithinChurch ProfileFades
INVARIANTS AssignmentsSound
