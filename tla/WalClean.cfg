SPECIFICATION Spec
CONSTANTS
    Name = {f1, f2}
    Meta = {m1, m2}
    LongMeta = {}
    Absent = Absent
    Torn = Torn
    Overlong = Overlong
    Errors = {}
    Tears = {}
    CompactAt = 3
    MaxLog = 4
INVARIANTS
    TypeOK
    RecoveryExact
    CountExact
PROPERTY
    ImplementsDurableFiles
