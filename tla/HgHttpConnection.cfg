CONSTANTS
    h1 = h1
    h2 = h2
    h3 = h3
    NoHost = NoHost
    NoReq = NoReq
    Hosts <- MCHosts
    Start <- MCStart
    Modes <- MCModes
    MaxRedirs <- MCMaxRedirs
    MaxCommands <- MCMaxCommands
SPECIFICATION Spec
INVARIANTS
    TypeOK
    ConnectionSurvives
    BaseIsRepository
