SPECIFICATION Spec
CONSTANTS
    Models = {"large", "small", "hidden"}
    ProviderOf <- MCProviderOf
    Window <- MCWindow
    ToolModels = {"large"}
    Authenticated = {"large", "small"}
    Levels <- MCLevels
    Fallback = "small"
    Catalogs <- MCCatalogs
    Concealed = {"hidden"}
    Prepares <- MCPrepares
    Filters <- MCFilters
    Queries <- MCQueries
    Sessions <- MCSessions
    Commands = {"help", "new", "stats", "models", "effort", "resume", "compact", "model"}
    KeepTurns = 1
    TriggerPct = 75
    MaxTurns = 2
    MaxChoices = 1
    MaxRefreshes = 1
    MaxKeys = 2
INVARIANT TypeOK
INVARIANT LabelBacked
PROPERTY TurnsUndisturbed
CHECK_DEADLOCK FALSE
