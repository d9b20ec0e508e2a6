SPECIFICATION Spec
CONSTANTS
    Servers = {s1, s2}
    Nodes = {n1}
    Relays = {}
    Clients = {c1}
    NoId = NoId
    Ports = {1}
    Endpoints = {"local", "remote"}
    Kinds = {"other"}
    RelayModes = {}
    EnabledChoices = {TRUE}
    SavesFail = TRUE
SYMMETRY Symmetry
INVARIANTS
    TypeOK
    BooksAreSound
PROPERTIES
    ListingMerges
