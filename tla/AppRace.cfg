SPECIFICATION Spec
CONSTANTS
    Operation = op
    Seed = s1
    NoEntry = NoEntry
    NoValue = NoValue
    RetryKeyMode = "repaired_same_key"
    CallerRetryMode = "repaired_recover_operation"
    ReconciliationMode = "repaired_provider_reconcile"
    TerminalStateMode = "repaired_monotonic"
    WebhookEffectMode = "repaired_deduplicate"
    LedgerBalanceMode = "repaired_balanced"
    Checkouts = {b1}
    Webhooks = {w1, w2}
    Drivers <- SerialDriver
    KillLimit = 0
PROPERTIES
    TerminalSuccessPreserved
CHECK_DEADLOCK FALSE
