SPECIFICATION FairSpec
CONSTANTS
    Adapters = {1, 2, 3}
    Ordinary = {2, 3}
    Links <- SomeLinks
    None = None
INVARIANTS SelectionIsShown ChoiceIsGood
PROPERTIES PageFollowsNet
