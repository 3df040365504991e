SPECIFICATION FeedSpec
CONSTANTS
    g1 = g1  g2 = g2
    None = None
    Guis = {g1}
    EventKinds = {"deny"}
    Window = 1
    MaxClients = 1
    Room = 1
    MaxLines = 1
    MaxLaunches = 1
INVARIANTS OutlivesGuis
