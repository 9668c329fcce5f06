SPECIFICATION Spec
CONSTANTS
    lea = lea
    mia = mia
    c1 = c1
    c2 = c2
    voice = voice
    harp = harp
    harpName = harpName
    r1 = r1
    r2 = r2
    None = None
    Members = {lea, mia}
    Churches = {c1, c2}
    Church <- TwoChurches
    Staff = {lea}
    Instruments = {voice, harp}
    SystemInstruments = {voice}
    InstrumentNames = {harpName}
    Requests = {r1, r2}
SYMMETRY Interchangeable
INVARIANTS TypeOK PlayersHavePrimary GiftsOverlap PlayedIsOpen
