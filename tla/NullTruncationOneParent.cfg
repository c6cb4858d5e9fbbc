CONSTANTS
    ParentIds <- MCParentIds
    ParentCounts <- MCOneParent
    MaxTrueNuls <- MCMaxTrueNuls
    MaxExtraNuls <- MCMaxExtraNuls
SPECIFICATION Spec
INVARIANTS
    ReconstructsTruth
