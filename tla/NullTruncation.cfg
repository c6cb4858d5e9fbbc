CONSTANTS
    ParentIds <- MCParentIds
    ParentCounts <- MCRootsAndMerges
    MaxTrueNuls <- MCMaxTrueNuls
    MaxExtraNuls <- MCMaxExtraNuls
SPECIFICATION Spec
INVARIANTS
    TypeOK
    ReconstructsTruth
