SPECIFICATION Spec
CONSTANTS
    Servers = {s1, s2}
    Nodes = {n1}
    Relays = {r1, r2}
    Clients = {c1}
    NoId = NoId
    Ports = {1}
    Endpoints = {"local"}
    Kinds = {"socks", "reality"}
    RelayModes = {"panel_node", "manual_socks5", "tcp_forward"}
    EnabledChoices = {TRUE, FALSE}
    SavesFail = FALSE
SYMMETRY Symmetry
INVARIANTS
    BooksAreSound
    NodeLinksServed
    LastGrantDisables
    DeadRelaysReported
    ClashesReported

    
