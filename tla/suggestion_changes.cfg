SPECIFICATION Spec
CONSTANTS
    amy = amy
    bea = bea
    harp = harp
    voice = voice
    past = past
    before = before
    next = next
    None = None
    Members = {amy, bea}
    Instruments = {harp, voice}
    ByName <- Alphabet
    Dates = {past, before, next}
    Preceding = before
    LastWeeks = {before}
    ToCome = {next}
    MaxChanges = 2
CHECK_DEADLOCK FALSE
INVARIANTS TypeOK QuietIsExact AgreesWithItself
