SPECIFICATION Spec
CONSTANTS
    Operation = op
    Seed = s1
    NoEntry = NoEntry
    NoValue = NoValue
    RetryKeyMode = "repaired_same_key"
    CallerRetryMode = "repaired_recover_operation"
    ReconciliationMode = "repaired_provider_reconcile"
    TerminalStateMode = "repaired_monotonic"
    WebhookEffectMode = "repaired_deduplicate"
    LedgerBalanceMode = "repaired_balanced"
    Checkouts = {b1, b2}
    Webhooks = {w1, w2, w3}
    Drivers <- BothDrivers
    KillLimit = 1
SYMMETRY Symmetric
INVARIANTS
    ProviderObjectUnique
    EffectsAndLedgerOnce
    LocalNeverAhead
    TerminalSuccessMonotonic
CHECK_DEADLOCK FALSE
