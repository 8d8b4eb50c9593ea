CONSTANTS
    Models = {"s30", "s50"}
    Mounts = {"altaz", "equatorial"}
    ModelLists <- MCModelLists
    MountLists <- MCMountLists
    Coordinators = {"telescope-coordinator"}
    OtherCoords = {"weather-coordinator"}
    Statuses = {"healthy", "unhealthy"}
    MaxReqs = 3
    MaxResps = 2
    MaxHealth = 2
SPECIFICATION PanelsSpec
INVARIANT PanelsTypeOK
INVARIANT LoadEnabledMatchesSelection
