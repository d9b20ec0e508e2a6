SPECIFICATION FairSpec
CONSTANTS
    A = A
    B = B
    Bad = Bad
    Configs <- TheConfigs
    Rejected <- TheRejected
    ApplyChoices = {TRUE, FALSE}
    MaxPublished = 3
INVARIANT MarkerCoversDivergence
INVARIANT ReportIsTrue
INVARIANT FlushedBeforeApply
INVARIANT AgentInv
PROPERTY DeliverySpec
PROPERTY EventuallyApplied
