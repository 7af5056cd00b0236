SPECIFICATION FairSpec
CONSTANTS
    Servers = {s1}
    MaxTimers = 1
    MaxJobs = 2
    None = None
INVARIANTS TypeOK NoTunnelAfterStop RoutesAreTracked TunnelSparesServer
PROPERTIES ImplementsTunService StartEnds TunnelStops
