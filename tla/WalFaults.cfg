SPECIFICATION Spec
CONSTANTS
    Name = {f1, f2}
    Meta = {m1, m2}
    LongMeta = {m2}
    Absent = Absent
    Torn = Torn
    Overlong = Overlong
    Errors = {"nothing", "fragment", "no newline"}
    Tears = {"nothing", "fragment", "no newline"}
    CompactAt = 3
    MaxLog = 4
INVARIANTS
    CompactionHeals
PROPERTY
    RecoverIsReplay
