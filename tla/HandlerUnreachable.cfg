CONSTANTS
    r1 = r1
    r2 = r2
    home = home
    Requests = {r1, r2}
    Listed = {r1, r2}
    Users <- OneUser
    UserOf <- SameUser
    UseJWT = FALSE
    WriteTimeout = 120
    Deadline = 180
    Keys <- OneKey
    KeyOf <- SameKey
    Countries = {home}
    Own = home
    Matches <- FewPatterns
SPECIFICATION Spec
INVARIANT FalseOnlyIfNominatimAnswered
CHECK_DEADLOCK FALSE
