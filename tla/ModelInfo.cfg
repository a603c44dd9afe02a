\* Two deployments and a variant of a model, and one reload, probe or restart.
SPECIFICATION Spec
CONSTANTS
    Order <- MCOrder
    Provider <- MCProvider
    Base <- MCBase
    Fallbacks <- MCFallbacks
    Yaml <- MCYaml
    Catalogs <- MCCatalogs
    HubInfos <- MCHubInfos
    ProbeInfos <- MCProbeInfos
    HubFields = {"description", "quantization", "license"}
    SharedFields = {"description", "license"}
    BoolFields = {"tools"}
    Length <- MCLength
    Placeholders = {"blog"}
    Reloads <- MCReloads
    MaxEvents = 1
INVARIANTS NothingShownIsLost
PROPERTIES StoredFactsStand FetchShares
CHECK_DEADLOCK FALSE
