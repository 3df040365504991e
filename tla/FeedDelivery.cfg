SPECIFICATION FeedSpec
CONSTANTS
    g1 = g1  g2 = g2
    None = None
    Guis = {g1, g2}
    EventKinds = {"deny", "audit"}
    Window = 2
    MaxClients = 2
    Room = 2
    MaxLines = 3
    MaxLaunches = 3
INVARIANTS FeedTypeOK NoGap NobodyForgotten DashboardAgrees FeedInv
PROPERTIES Reconnects
