CONSTANTS
    Countries = {si}
    Languages = {l1, l2}
    Streets = 2
SPECIFICATION FairSpec
INVARIANTS
    AnswersCombined
    UnreachableReported
PROPERTIES
    ErrorOfAnyLanguage
    NoGoroutineLeft
    ImplementsSource
CHECK_DEADLOCK FALSE
