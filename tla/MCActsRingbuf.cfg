SPECIFICATION Spec
CONSTANTS
    Size = 3
    Wrap = 5
    Elem = {0, 1}
    StreamErrors = {1}
INVARIANTS
    NoOverlap
    ClaimsStayValid
    CountersAgree
PROPERTY
    RefinesFifo
