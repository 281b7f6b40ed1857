\* Three layouts, up to three tokens, one damaged field; four threads a block.
SPECIFICATION Spec
CONSTANTS
    HalfBits = 4
    HalfMax = 60
    BrainBits = 2
    Binades = 8
    Inf = Inf
    NaN = NaN
    NegInf = NegInf
    NoBackend = NoBackend
    MaxScore = 2
    MinThreads = 4
    Specs <- SomeSpecs
    Keys <- AllKeys
    Values <- SomeValues
    Exact <- ExactTensors
    Queries <- SomeQueries
    Selectors <- SomeSelectors
    StageSizes <- OneOrTwo
    Configs <- SomeConfigs
    VllmValues <- SlotValues
CHECK_DEADLOCK FALSE
INVARIANTS
    TypeOK
    ErrorBounded
    DamageDetected
    AttentionExact
    FailsClosed
