SPECIFICATION CatalogSpec
CONSTANTS
    Providers = {"a", "b"}
    ProviderOrder <- MCProviderOrder
    Models = {"a1", "a1preview", "b1"}
    ModelOrder <- MCModelOrder
    ProviderOf <- MCProviderOf
    Raw <- MCRaw
    Dev <- MCDev
    Undated <- MCUndated
    Released <- MCReleased
    Listings <- MCListings
    Seed = {"a1", "b1"}
    Preset <- MCPreset
    Queries = {"one", "previw", "fav"}
    Fit <- MCFit
    Rules <- MCRules
    Samples <- MCSamples
    Bounds <- MCBounds
CHECK_DEADLOCK FALSE
INVARIANT CatalogTypeOK
INVARIANT ListServes
INVARIANT ChoiceHolds
