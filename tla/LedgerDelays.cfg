SPECIFICATION Spec
CONSTANTS
    Servers = {s1}
    Clients = {c1}
    Skew <- AgentsAhead
    MaxInt = 4
    ExpireChoices = {1, 2}
    EnabledChoices = {TRUE}
    LimitChoices = {2}
    GrantChoices <- GrantedEverywhere
    MaxTime = 2
    MaxReal = 2
    MaxEpoch = 2
    MaxInFlight = 2
    CountersReset = TRUE
INVARIANTS NeverOverbills LedgerInv LedgerIsDurable OverLimitOnlyAfterEdit
PROPERTIES CursorsOnlyAdvance
