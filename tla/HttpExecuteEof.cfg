CONSTANTS
    MaxBody <- MCMaxBody
    MaxChunk <- MCMaxChunk
    MaxRead <- MCMaxRead
    UploadLen <- MCUploadLen
    Statuses <- MCStatuses
SPECIFICATION Spec
INVARIANT
    EofMeansComplete
