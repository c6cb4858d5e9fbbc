CONSTANTS
    MaxBody <- MCMaxBody
    MaxChunk <- MCMaxChunk
    MaxRead <- MCMaxRead
    UploadLen <- MCUploadLen
    Statuses <- MCStatuses
SPECIFICATION Spec
INVARIANTS
    TypeOK
    BodyIntact
    RetryResendsWholeBody
    NoUnreachablePanic
PROPERTIES
    TransportRefinement
