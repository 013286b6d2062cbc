CONSTANTS
    h1 = h1
    h2 = h2
    Main = Main
    Enabled <- MCAll
    Handlers <- MCOneHandler
SPECIFICATION FairSpec
CHECK_DEADLOCK FALSE
PROPERTIES
    StopsOnCtrlC
