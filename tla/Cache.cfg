SPECIFICATION Spec
CONSTANTS
    u1 = u1
    u2 = u2
    a = a
    x = x
    y = y
    Empty = Empty
    Absent = Absent
    Urls <- TwoUrls
    Methods <- OnlyGet
    Names <- OneName
    Values <- TwoValues
    MaxEntries = 10
SYMMETRY Symmetry
INVARIANTS
    TypeOK
    LookupFindsNewest
    OneEntryPerVariant
    EntriesWithinLimit
