SPECIFICATION Spec
CONSTANTS
    Servers = {s1}
    Clients = {c1}
    Skew <- NoSkew
    MaxInt = 4
    ExpireChoices = {2, 4}
    EnabledChoices = {TRUE}
    LimitChoices = {0}
    GrantChoices <- GrantedEverywhere
    MaxTime = 3
    MaxReal = 2
    MaxEpoch = 2
    MaxInFlight = 1
    CountersReset = FALSE
PROPERTIES FirstSampleAfterRenewalIsBaseline
