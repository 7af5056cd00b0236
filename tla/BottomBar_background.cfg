SPECIFICATION FairSpec
CONSTANTS
    Configs = {c1}
    MaxTests = 2
    None = None
PROPERTIES DownloadInstalls ShownActivityEnds
