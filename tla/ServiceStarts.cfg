CONSTANTS
    a = a
    b = b
    none = none
    NumRuns = 2
    Feature <- Features
    NoFeature = none
    Files <- OddFiles
    Initial <- There
    BatchSize = 2
    Faults = {"query", "crash", "late", "restart", "overlap"}
    MaxRows = 3
    AddressOf <- SomeAddress
    Country = "si"
    Codes <- SomeCodes
    Norm <- SomeNorm
    Invalid = "error"
    CodeRank <- SomeCodeRank
    Streets <- SomeStreets
    Forms <- SomeForms
    FormsOf <- SomeFormsOf
    Cities <- SomeCities
    Names <- SomeNames
    NameOf <- SomeName
    NoName = ""
    CityRank <- SomeCityRank
    Empty = ""
    Tables <- AnyTable
SPECIFICATION ServiceSpec
INVARIANTS UntouchedKept UntouchedFound
CHECK_DEADLOCK FALSE
