SPECIFICATION Spec
CONSTANTS
    MaxChildPids = 64
    MaxJobs = 2
INVARIANTS DesktopIsServed TableIsChildren QuitRemovesRoute
