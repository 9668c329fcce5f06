SPECIFICATION Spec
CONSTANTS
    i1 = i1
    i2 = i2
    i3 = i3
    k1 = k1
    k2 = k2
    r1 = r1
    r2 = r2
    None = None
    left = left
    middle = middle
    right = right
    itemPrefix = itemPrefix
    Letters = {"A", "B"}
    Items = {i1, i2, i3}
    Categories = {k1, k2}
    Names = {left, middle, right}
    Keys = {left, middle, right}
    Prefixes = {left, middle, right, itemPrefix}
    Text <- TheText
    Word <- WordOf
    Key <- KeyOf
    Prefix <- PrefixOf
    Distance <- Distances
    Size <- Sizes
    DefaultPrefix = itemPrefix
    HandNumbers <- EnteredNumbers
    Requests = {r1, r2}
    Importers = {r1}
    SheetRows <- TheRows
    MaxRows = 2
    MaxServed = 3
CHECK_DEADLOCK FALSE
INVARIANTS TypeOK Gapless RefusalHasCause ImportTold MatchIsNearest
PROPERTIES NoTwins DiscardedIsFrozen
