SPECIFICATION Spec
CONSTANTS
    MaxVersion = 2
    MaxFetches = 2
    None = None
INVARIANTS CancelSurvives
