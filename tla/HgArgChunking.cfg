CONSTANTS
    Budgets <- MCBudgets
    ArgLens <- MCArgLens
    UsizeMax <- MCUsizeMax
    Builds <- MCBuilds
SPECIFICATION Spec
INVARIANTS
    TypeOK
    HeaderWithinBudget
    HeadersReassemble
