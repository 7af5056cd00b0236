SPECIFICATION FairSpec
CONSTANTS
    MaxVersion = 2
    MaxFetches = 2
    None = None
INVARIANTS NoEndlessProgress AnswersAreForTheChecked
PROPERTY OperationsEnd
