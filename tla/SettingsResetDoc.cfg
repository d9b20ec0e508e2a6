SPECIFICATION Spec
CONSTANTS
    p0 = p0
    p1 = p1
    pGenerated = pGenerated
    r1 = r1
    r2 = r2
    default = default
    other = other
    invalid = invalid
    None = None
    Unsure = Unsure
    Empty = Empty
    Torn = Torn
    Resolvers <- MCResolvers
    Usable <- MCUsable
    DefaultResolvers <- MCDefault
    Passwords = {p0}
    Installed = p0
    Generated = pGenerated
    Requested <- MCRequested
    Exits = {x1}
    Routes = {r1, r2}
    Relayed = {}
    Proxies <- MCProxies
    MaxEvents = 1
CHECK_DEADLOCK FALSE
INVARIANT
    ResetHolds
