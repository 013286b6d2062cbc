CONSTANTS
    h1 = h1
    h2 = h2
    Main = Main
    Enabled <- MCPushing
    Handlers <- MCTwoHandlers
SPECIFICATION BridgeFairSpec
CHECK_DEADLOCK FALSE
INVARIANTS
    TypeOK
    StoppedMeansStopped
    ReaderOutlivesPolling
PROPERTIES
    StopsOnCtrlC
