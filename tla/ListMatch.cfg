CONSTANTS
    c1 = c1
    c2 = c2
    z1 = z1
    z2 = z2
    z3 = z3
    s1 = s1
    s2 = s2
    s3 = s3
    Cities = {c1, c2}
    Codes = {z1, z2, z3}
    Streets = {s1, s2, s3}
    Inputs = 2
    MaxMatches = 3
    MaxCodes = 2
    MaxPerCode = 2
    MaxPerStreet = 1
    MaxStreets = 2
    CandidateLists <- FoundCities
    CodeLists <- AFewCodes
    StreetLists <- AFewStreets
    Gradings <- SomeGradings
SPECIFICATION Spec
INVARIANTS
    TypeOK
    FlagsAgree
    NearMatchReported
CHECK_DEADLOCK FALSE
