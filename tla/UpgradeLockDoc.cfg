SPECIFICATION Spec
CONSTANTS
    c1 = c1
    c2 = c2
    p1 = p1
    x1 = x1
    Creates <- TwoCreates
    Polls <- OnePoll
    Clears <- NoRequests
    Releases <- TwoReleases
INVARIANT SingleRunner
