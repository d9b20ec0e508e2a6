SPECIFICATION Spec
CONSTANTS
    Servers = {s1, s2}
    Nodes = {n1}
    Relays = {r1}
    Clients = {c1}
    NoId = NoId
    Ports = {1}
    Endpoints = {"local"}
    Kinds = {"other"}
    RelayModes = {}
    EnabledChoices = {TRUE}
    SavesFail = FALSE
SYMMETRY Symmetry
INVARIANT LastServerStays
