--------------------------- MODULE MCPanelSettings ---------------------------
(* Instances of PanelSettings for TLC.                                     *)
EXTENDS PanelSettings, FiniteSets

CONSTANTS p0, p1, pGenerated, r1, r2, default, other, invalid

MCResolvers == {default, other, invalid}
MCUsable == {default, other}
MCDefault == {default}

\* A strict policy, one between, and one with fields out of range.
MCRequested == {
    [mode |-> "strict", publicDNS |-> FALSE, dns |-> {invalid}, query |-> "",
     blocks |-> {}, ipv6 |-> "", quad9 |-> {}],
    [mode |-> "dns_leak_guard", publicDNS |-> FALSE, dns |-> {other, invalid}, query |-> "odd",
     blocks |-> {"dns53"}, ipv6 |-> "odd", quad9 |-> {}],
    [mode |-> "odd", publicDNS |-> FALSE, dns |-> {}, query |-> "UseIP",
     blocks |-> {"quic"}, ipv6 |-> "odd", quad9 |-> {"clash"}],
    [mode |-> "custom", publicDNS |-> TRUE, dns |-> {}, query |-> "",
     blocks |-> {"dns53"}, ipv6 |-> "", quad9 |-> {"sing_box"}]}

Good == [dials |-> TRUE, method |-> "password", accepts |-> TRUE, connects |-> TRUE,
         address |-> "domain", carries |-> TRUE, body |-> "address"]

\* One that works, one that asks for no login, and one for each way to fail.
MCProxies == {Good,
    [Good EXCEPT !.method = "none", !.accepts = FALSE],
    [Good EXCEPT !.dials = FALSE], [Good EXCEPT !.accepts = FALSE],
    [Good EXCEPT !.method = "refused"], [Good EXCEPT !.connects = FALSE],
    [Good EXCEPT !.address = "other"], [Good EXCEPT !.carries = FALSE],
    [Good EXCEPT !.body = "text"]}
=============================================================================
