SPECIFICATION Spec
CONSTANTS
    MaxLength = 5
    Byte <- Letter
    Files <- MCFiles
    Newline <- NL
    Return <- CR
    Comma <- CM
    MapFunc <- LettersOfLine
    Partition <- ByParity
    NumReducers = 2
    MaxChunkSize = 2
    SpillSize = 2
    BatchSize = 2
    MaxToken = 5
    Wrap = 8
    MaxChunks = 6
INVARIANTS
    TypeOK
    ChunksAreFile
    MergesSorted
    RecordsKept
    KeyReducedOnce
    ResultExact
PROPERTY
    PipelineEnds
CHECK_DEADLOCK FALSE
