SPECIFICATION ReductionSpec
CONSTANTS
    Specs <- MCSpecs
    NoRetry = NoRetry
    None = None
    Invariants = {1, 2}
    FrontierLimit = 3
    CandidateLimit = 5
INVARIANTS
    CompleteIsLocalMinimum
    MinimizedReproduces
    ExecutedIsCompilable
