CONSTANTS
    N <- MCN
    Branches <- MCBranches
    MaxAdds <- MCMaxAdds
    NoRef = NoRef
SPECIFICATION Spec
INVARIANTS
    TypeOK
    HeadsAreBranchHeads
    HeadsOrderedByInsertion
    HeadsComplete
