------------------------------ MODULE SocksProbe ------------------------------
(***************************************************************************)
(* The SOCKS5 client of the panel (backend/internal/api/tools.go): a       *)
(* greeting, perhaps a login, a CONNECT, an HTTP request, and the body of  *)
(* the answer, which must be an address.  It decides whether a landing     *)
(* exit is reported to work.                                               *)
(*                                                                         *)
(* A proxy is described by what it answers at each step; a step it leaves  *)
(* out or garbles is one it fails.  Texts and time limits are left out.    *)
(***************************************************************************)

Methods == {"none", "password", "refused", "other"}
Addresses == {"ipv4", "domain", "ipv6", "other"}

\* What a proxy does: accepts the connection, picks a way to log in, accepts
\* the login, grants the CONNECT, names its own address, carries the request
\* to a site that answers 2xx, with a body that is an address.
Proxy == [dials : BOOLEAN, method : Methods, accepts : BOOLEAN, connects : BOOLEAN,
          address : Addresses, carries : BOOLEAN, body : {"address", "text"}]

\* A proxy that never asks is not told the login.
Authenticated(login, proxy) ==
    CASE proxy.method = "none" -> TRUE
      [] proxy.method = "password" -> login /\ proxy.accepts
      [] OTHER -> FALSE

\* socks5Handshake; login: a user name or a password is configured.
Handshake(login, proxy) ==
    /\ Authenticated(login, proxy)
    /\ proxy.connects
    /\ proxy.address # "other"

\* socks5HTTPGet and parseHTTPBody: the body, or an error.
Get(login, proxy) ==
    IF proxy.dials /\ Handshake(login, proxy) /\ proxy.carries
    THEN proxy.body ELSE "error"

\* testSocks5 and testLandingExit: a second site is asked when the first one
\* did not answer with an address; between the two the proxy may change.
Works(login, first, second) ==
    LET body == IF Get(login, first) = "address" THEN Get(login, first)
                ELSE Get(login, second)
    IN  body = "address"
=============================================================================
