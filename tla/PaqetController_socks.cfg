SPECIFICATION FairSpec
CONSTANTS
    Configs = {c1, c2}
    Ports <- TwoPorts
    Modes <- SocksModes
    PortSpace = 65536
    MaxTimers = 1
    MaxJobs = 1
    MaxStarts = 2
    None = None
INVARIANTS TypeOK NoDoubleStart StartIsForThisProcess ConnectedIsLaunched SystemProxyReachesHttp
PROPERTIES PaqetStops EveryStartAnswered RestartReconnects
