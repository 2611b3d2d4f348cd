SPECIFICATION CaseSpec
CONSTANTS
    Specs <- MCSpecs
    NoRetry = NoRetry
    Applications <- Recovering
    Seed = s1
    NoEntry = NoEntry
    NoValue = NoValue
INVARIANTS
    RecoveredOutcomeIsLeft
