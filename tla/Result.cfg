\* Two objects of either kind, and functions that do not fail where a result
\* without a value is chained, as everywhere in the library.
SPECIFICATION Spec

CONSTANTS
    TypedResults = {t1, t2}
    VoidResults = {n1, n2}
    Values = {v1, v2, v3}
    Errors = {e1, e2}
    kNull = kNull
    kEmpty = kEmpty
    VoidOutcomes = {"ok"}

INVARIANTS
    ValueArrives
    ErrorsTravel

CHECK_DEADLOCK FALSE
