\* Every offset within a few milliseconds of five nanoseconds each.
SPECIFICATION Spec
CONSTANTS
    NanosPerMilli = 5
    MaxInstant = 40
    NoDate = NoDate
INVARIANTS
    StoredJustBefore
    DateInv
PROPERTY DateIsFinal
