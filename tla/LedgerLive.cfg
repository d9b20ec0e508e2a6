SPECIFICATION FairSpec
CONSTANTS
    Servers = {s1}
    Clients = {c1}
    Skew <- NoSkew
    MaxInt = 4
    ExpireChoices = {3}
    EnabledChoices = {TRUE}
    LimitChoices = {0, 1}
    GrantChoices <- GrantedEverywhere
    MaxTime = 3
    MaxReal = 2
    MaxEpoch = 1
    MaxInFlight = 2
    CountersReset = FALSE
PROPERTIES EventuallyEnforced EventuallyBilled
