CONSTANTS
    Cmds = {"capabilities", "simple", "changegroup", "push"}
    CTypes <- MCCTypes
    MediaTypes <- MCMediaTypes
    Bodies <- MCBodies
    Codecs <- MCCodecs
    ByteValue <- MCByteValue
    BufSize <- MCBufSize
SPECIFICATION Spec
INVARIANTS
    TypeOK
    ReplyAsSpecified
PROPERTIES
    ReaderTerminates
