SPECIFICATION FairSpec
CONSTANTS
    Hosts = {h1}
    MaxData = 2
    MaxRequests = 1
    None = None
INVARIANTS UpstreamInOrder ClientStreamInOrder GrantedFirst
PROPERTIES EveryClientAnswered EveryConnectionEnds
