SPECIFICATION Spec
CONSTANTS
    Suite <- Invariants
    CaseCount = 1
    Plan <- ShortPlan
    ActionCount = 4
    Absent = Absent
    Torn = Torn
    NoRequest = NoRequest
    NoManifest = NoManifest
INVARIANTS
    ChecksumsAreExact
\* A campaign ends.
CHECK_DEADLOCK FALSE
