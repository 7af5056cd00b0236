SPECIFICATION Spec
CONSTANTS
    Objects <- SomeObjects
    Edits <- SomeEdits
    Uris <- SomeUris
    SettingsPort = 1080
    None = None
INVARIANTS SharedTunnelsAreAlike RewritingKeepsTunnel
