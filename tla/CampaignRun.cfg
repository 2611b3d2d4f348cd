SPECIFICATION FairSpec
CONSTANTS
    Suite <- Invariants
    CaseCount = 2
    Plan <- LongPlan
    ActionCount = 5
    Absent = Absent
    Torn = Torn
    NoRequest = NoRequest
    NoManifest = NoManifest
INVARIANTS
    JournalFirst
    NeverRefused
    CompleteIsWhole
    JournalTellsApplication
    AppLeftRunning
    CauseIsFirst
PROPERTIES
    DurableLogs
    RunEnds
\* A campaign ends.
CHECK_DEADLOCK FALSE
