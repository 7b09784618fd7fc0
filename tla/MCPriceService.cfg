CONSTANTS
    Key = {"a", "b", "c"}
    CacheTtl = 3
    BackOff = 2
    MaxFetch = 1
    MaxSize = 2
    HasApiKey = TRUE
    MaxOutages = 2
SPECIFICATION FairSpec
INVARIANT TypeOK
PROPERTIES FreshSpec RefreshSpaced Recovery
