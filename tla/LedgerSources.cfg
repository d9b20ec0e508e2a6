SPECIFICATION Spec
CONSTANTS
    Servers = {s1, s2}
    Clients = {c1}
    Skew <- AgentsAhead
    MaxInt = 1
    ExpireChoices = {1, 3}
    EnabledChoices = {TRUE}
    LimitChoices = {2}
    GrantChoices <- EveryGrant
    MaxTime = 3
    MaxReal = 1
    MaxEpoch = 1
    MaxInFlight = 1
    CountersReset = FALSE
INVARIANTS TypeOK UsageIsSumOfCharges LedgerIsDurable
PROPERTIES ChargedToOneSource
