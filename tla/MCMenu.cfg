\* A screen of three rows and a strip below them that can be touched.
CONSTANTS
    MenuSizes <- MCMenuSizes
    MaxMenuRows = 3
    kMaxMenuRows = 7
    TouchRows = 4
\* Places 2 and 5 pixels to the right, of which 5 are a swipe; two rows of
\* the menu, below a row without, and a virtual key in the corner.
    PanelMax <- MCPanelMax
    Fb <- MCFb
    MinSwipe = 2
    ItemHeight = 2
    MenuTop = 3
    VirtualKey <- MCVirtualKey
    MaxSecond = 2
    FewPoints <- MCFewPoints
\* Two scopes, and a thread that is late while two others are started.
    Full = 3
    Portions = {0, 1, 2}
    BarWidth = 4
    LoopThreads = {t1, t2, t3}
\* Lines as long as a row, longer and empty, in a ring of three rows.
    LogRows = 3
    LogCols = 2
    Messages <- MCMessages
SPECIFICATION MCSpec
INVARIANTS  LastLinesShown TouchEnds TouchMeant DialogTakesTouch
PROPERTIES TimedBarFills
