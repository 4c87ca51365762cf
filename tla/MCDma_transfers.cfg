SPECIFICATION Spec
CONSTANTS
    Limit16 = 4
    Limit26 = 6
    SubBuffersCount = 3
    DescrWords = 8
    CommandDescrWords = 22
    MaxCommands = 3
    SdmaMinBlock = 1
    Boundary = 4
    Wrap = 16
    CountWrap = 8
    Envs <- TransferEnvs
INVARIANTS
    SplitCovers
    MovesInOrder
    OkMovedAll
    TableFits
PROPERTIES
    TransferEnds
