CONSTANTS
    MaxCommands <- MCMaxCommands
SPECIFICATION Spec
INVARIANTS
    CleanupAfterJoin
PROPERTIES
    DropCompletes
