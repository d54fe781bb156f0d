CONSTANTS
    Countries = {si}
    Languages = {l1}
    Streets = 0
SPECIFICATION Spec
INVARIANT PostalErrorsReported
CHECK_DEADLOCK FALSE
