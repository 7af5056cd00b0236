SPECIFICATION Spec
CONSTANTS
    Configs = {c1}
    Ports <- OnePort
    Modes <- TunModes
    PortSpace = 65536
    MaxTimers = 1
    MaxJobs = 1
    MaxStarts = 2
    None = None
INVARIANT NoOrphanStop
