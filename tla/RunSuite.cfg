CONSTANTS
    MaxSteps = 1
    TOKEN_USAGE_FIELDS <- MCFields
    RawUsages <- MCRawUsages
    Budgets <- MCBudgets

SPECIFICATION Spec

INVARIANTS
    AuditAcceptsRuns
    RetriesToldLatestFailure
    SummaryAddsUp

PROPERTIES
    ImplementsPolicy
