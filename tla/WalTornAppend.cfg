SPECIFICATION Spec
CONSTANTS
    Name = {f1, f2}
    Meta = {m1, m2}
    LongMeta = {}
    Absent = Absent
    Torn = Torn
    Overlong = Overlong
    Errors = {}
    Tears = {"fragment"}
    CompactAt = 3
    MaxLog = 4
INVARIANT
    RecoveryExact
