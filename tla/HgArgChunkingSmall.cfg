CONSTANTS
    Budgets <- MCUnsafeBudgets
    ArgLens <- MCUnsafeArgLens
    UsizeMax <- MCUsizeMax
    Builds <- MCBuilds
SPECIFICATION Spec
INVARIANT
    HeaderWithinBudget
