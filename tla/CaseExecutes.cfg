SPECIFICATION CaseSpec
CONSTANTS
    Specs <- MCSpecs
    NoRetry = NoRetry
    Applications <- AllApplications
    Seed = s1
    NoEntry = NoEntry
    NoValue = NoValue
INVARIANTS
    PlansExecute
    BudgetSuffices
    NeverStuck
    KillsAreSupported
    CheckpointIsWhole
PROPERTIES
    SymbolicStateIsReal
