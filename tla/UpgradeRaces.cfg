SPECIFICATION FairSpec
CONSTANTS
    c1 = c1
    c2 = c2
    p1 = p1
    x1 = x1
    Creates <- TwoCreates
    Polls <- OnePoll
    Clears <- OneClear
    Releases <- Candidates
INVARIANT TypeOK
INVARIANT SuccessMeansInstalled
PROPERTY NeverStartsDowngrade
PROPERTY OutcomeStands
PROPERTY LockReleased
PROPERTY InterruptedUpgradeRecovers
