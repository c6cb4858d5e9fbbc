CONSTANTS
    Raws <- MCRawsTwoFiles
    ByteOrder <- MCByteOrder
    Alnum <- MCAlnum
    PercentHex <- MCPercentHex
    ManifestIds <- MCManifestIds
    ParentIds <- MCParentIds
    ParentCounts <- MCParentCounts
    MaxExtraNuls <- MCMaxExtraNuls
    GitTz <- MCGitTz
    HgOffset <- MCHgOffset
    MaxLen <- MCMaxLen
SPECIFICATION Spec
INVARIANTS
    Reconstructs
