CONSTANTS
    r1 = r1
    si = si
    at = at
    It = r1
    Requests = {r1}
    Listed = {r1}
    Users <- OneUser
    UserOf <- TheUser
    UseJWT = FALSE
    WriteTimeout = 120
    Deadline = 180
    Keys <- OneKey
    KeyOf <- TheKey
    Countries <- TwoCountries
    Own = si
    Matches <- AllPatterns
SPECIFICATION SystemSpec
INVARIANTS
    FlagsExplained
    FreshAnswersWhole
    PerfectWins
    DeliveredFromChecks
PROPERTIES
    NoGoroutineLeft
    EveryRequestAnswered
    HandlerImplemented
CHECK_DEADLOCK FALSE
