------------------------------ MODULE Inventory ------------------------------
(***************************************************************************)
(* The panel's inventory (backend/internal/api: servers.go, nodes.go,      *)
(* relays.go, clients.go; backend/internal/store/store.go): servers, the   *)
(* inbound nodes and relay routes on them, and the clients bound to nodes  *)
(* and relays.  The records refer to each other by id and nothing but the  *)
(* handlers' checks keeps the references in order.  Two readers depend on  *)
(* them: the Xray configuration a server's agent is sent                   *)
(* (GenerateServerConfig) and the subscription a client downloads          *)
(* (subscriptionSnapshot).                                                 *)
(*                                                                         *)
(* Handlers run under store.Mu, one action each, except a heartbeat, which *)
(* checks its token under one lock and does its work under another.        *)
(*                                                                         *)
(* Abstracted: a server's address is only the panel machine's own, another *)
(* or none; a node is VLESS+Reality, SOCKS5, or another shareable inbound; *)
(* a client that expired is one the sweep is about to disable.  Landing    *)
(* exits are the subject of PanelSettings.                                 *)
(***************************************************************************)
EXTENDS Naturals, FiniteSets

CONSTANTS
    Servers, Nodes, Relays, Clients,    \* ids store.NewID may give out
    NoId,           \* the empty id
    Ports,
    Endpoints,      \* addresses an administrator gives a server
    Kinds,          \* kinds of node an administrator creates
    RelayModes,     \* modes of relay an administrator creates
    EnabledChoices, \* values of the enabled field of a request
    SavesFail       \* may SaveLocked fail?

ASSUME InventoryAssumption ==
    /\ NoId \notin Servers \cup Nodes \cup Relays
    /\ Nodes \cap Relays = {}           \* NewID puts the kind into an id
    /\ Endpoints \subseteq {"local", "remote", "none"}
    /\ Kinds \subseteq {"reality", "socks", "other"}
    /\ RelayModes \subseteq {"tcp_forward", "panel_node", "manual_socks5"}
    /\ EnabledChoices \subseteq BOOLEAN
    /\ SavesFail \in BOOLEAN

VARIABLES
    book,       \* store.Data: servers, nodes, relays and clients, by id
    disk,       \* panel.json
    born,       \* history: every id ever given out
    checked     \* heartbeats between the token check and the lock

vars == <<book, disk, born, checked>>

Server == [id : Servers \cup {NoId}, endpoint : {"local", "remote", "none"}]

Node == [server : Servers \cup {NoId}, port : Ports,
         kind : {"reality", "socks", "other"}, enabled : BOOLEAN]

Relay == [server : Servers \cup {NoId}, port : Ports,
          mode : {"tcp_forward", "panel_node", "manual_socks5"},
          landing : Nodes \cup {NoId}, enabled : BOOLEAN]

\* bare: history, an administrator saved the client without any grant.
Client == [enabled : BOOLEAN, nodes : SUBSET Nodes, relays : SUBSET Relays,
           bare : BOOLEAN]

IsBook(b) ==
    /\ DOMAIN b = {"servers", "nodes", "relays", "clients"}
    /\ DOMAIN b.servers \subseteq Servers \cup {NoId}
    /\ DOMAIN b.nodes \subseteq Nodes
    /\ DOMAIN b.relays \subseteq Relays
    /\ DOMAIN b.clients \subseteq Clients
    /\ b.servers \in [DOMAIN b.servers -> Server]
    /\ b.nodes \in [DOMAIN b.nodes -> Node]
    /\ b.relays \in [DOMAIN b.relays -> Relay]
    /\ b.clients \in [DOMAIN b.clients -> Client]

TypeOK ==
    /\ IsBook(book)
    /\ IsBook(disk)
    /\ born \subseteq Servers \cup Nodes \cup Relays \cup Clients
    /\ checked \subseteq Servers

-----------------------------------------------------------------------------
(* Maps of records.                                                        *)

Put(map, id, record) ==
    [x \in DOMAIN map \cup {id} |-> IF x = id THEN record ELSE map[x]]

Drop(map, id) == [x \in DOMAIN map \ {id} |-> map[x]]

Has(map, id) == id \in DOMAIN map

-----------------------------------------------------------------------------
(* ensureSingleModeLocalServer.                                            *)

\* The records taken for the panel's own machine.
Candidates(b) ==
    {s \in DOMAIN b.servers :
        b.servers[s].endpoint = "local" \/ Cardinality(DOMAIN b.servers) = 1}

\* Faulty variant: MergedInto that keeps the merged records.
MergedKeepingRecords(b, keep) ==
    LET kept == b.servers[keep]
        merged == {b.servers[s].id : s \in Candidates(b)} \ {kept.id}
    IN  [b EXCEPT
          !.servers[keep].endpoint = IF @ = "none" THEN "local" ELSE @,
          !.nodes = [n \in DOMAIN b.nodes |->
              IF b.nodes[n].server \in merged
              THEN [b.nodes[n] EXCEPT !.server = kept.id]
              ELSE b.nodes[n]]]

\* The nodes, and only the nodes, of the merged servers follow.
MergedInto(b, keep) ==
    LET kept == b.servers[keep]
        merged == {b.servers[s].id : s \in Candidates(b)} \ {kept.id}
    IN  [b EXCEPT
          !.servers = [s \in (DOMAIN b.servers \ merged) \cup {kept.id} |->
              IF s = kept.id
              THEN [kept EXCEPT !.endpoint = IF @ = "none" THEN "local" ELSE @]
              ELSE b.servers[s]],
          !.nodes = [n \in DOMAIN b.nodes |->
              IF b.nodes[n].server \in merged
              THEN [b.nodes[n] EXCEPT !.server = kept.id]
              ELSE b.nodes[n]]]

Seeded(b, s) ==
    [b EXCEPT !.servers = Put(b.servers, s, [id |-> s, endpoint |-> "local"])]

\* Which candidate is kept depends on versions, states and times of contact.
Ensured(b) ==
    IF Candidates(b) = {}
    THEN {Seeded(b, s) : s \in Servers \ born}
    ELSE {MergedInto(b, s) : s \in Candidates(b)}

-----------------------------------------------------------------------------
(* Every handler works on the book, may first have merged the servers, and *)
(* ends with a save whose failure it ignores.                              *)

Ids(b) == (DOMAIN b.servers \ {NoId}) \cup DOMAIN b.nodes \cup DOMAIN b.relays
            \cup DOMAIN b.clients

Bear(b) == born' = born \cup Ids(b)

Keep(merged, b) ==
    /\ book' = b
    /\ disk' \in {b} \cup (IF SavesFail THEN {merged, disk} ELSE {})
    /\ Bear(b)
    /\ UNCHANGED checked

\* A request may leave the server out: the panel merges, then takes a default.
Resolved(named) == IF named = NoId THEN Ensured(book) ELSE {book}

ServersFor(named, b) == IF named = NoId THEN DOMAIN b.servers ELSE {named}

Init ==
    /\ \E s \in Servers :
         book = [servers |-> Put(<<>>, s, [id |-> s, endpoint |-> "local"]),
                 nodes |-> <<>>, relays |-> <<>>, clients |-> <<>>]
    /\ disk = book
    /\ born = Ids(book)
    /\ checked = {}

-----------------------------------------------------------------------------
(* servers.go                                                              *)

\* GET servers and GET nodes merge before they list.
List ==
    \E b \in Ensured(book) :
        /\ book' = b
        /\ disk' \in {b} \cup (IF SavesFail \/ b = book THEN {disk} ELSE {})
        /\ Bear(b)
        /\ UNCHANGED checked

CreateServer(s, endpoint) ==
    /\ s \notin born
    /\ Keep(book, [book EXCEPT
            !.servers = Put(@, s, [id |-> s, endpoint |-> endpoint])])

UpdateServer(s, endpoint) ==
    /\ Has(book.servers, s)
    /\ Keep(book, [book EXCEPT
            !.servers = Put(@, s, [id |-> s, endpoint |-> endpoint])])

DeleteServer(s) ==
    /\ Has(book.servers, s)
    /\ Cardinality(DOMAIN book.servers) > 1
    /\ \A n \in DOMAIN book.nodes : book.nodes[n].server # s
    /\ Keep(book, [book EXCEPT !.servers = Drop(@, s)])

-----------------------------------------------------------------------------
(* nodes.go                                                                *)

\* An enabled one of these inbounds is on the server and port of this one.
PortTaken(inbounds, inbound) ==
    \E x \in DOMAIN inbounds :
        /\ inbounds[x].server = inbound.server
        /\ inbounds[x].enabled
        /\ inbounds[x].port = inbound.port

\* normalizeNodeLocked; relays are not asked about the port.
NodeAccepted(b, node, self) ==
    /\ node.server # NoId /\ Has(b.servers, node.server)
    /\ node.enabled => ~PortTaken(Drop(b.nodes, self), node)

\* POST enables the node after the check, whatever the request said.
CreateNode(n, named, body) ==
    /\ n \notin born
    /\ \E b \in Resolved(named) : \E s \in ServersFor(named, b) :
         LET node == [body EXCEPT !.server = s]
         IN  /\ NodeAccepted(b, node, NoId)
             /\ Keep(b, [b EXCEPT !.nodes = Put(@, n, [node EXCEPT !.enabled = TRUE])])

UpdateNode(n, named, body) ==
    /\ Has(book.nodes, n)
    /\ \E b \in Resolved(named) : \E s \in ServersFor(named, b) :
         LET node == [body EXCEPT !.server = s]
         IN  /\ NodeAccepted(b, node, n)
             /\ Keep(b, [b EXCEPT !.nodes = Put(@, n, node)])

\* Faulty variant: Ungranted that leaves the switch alone.
UngrantedEnabled(client, node, relay) ==
    [client EXCEPT !.nodes = @ \ {node}, !.relays = @ \ {relay}]

\* A client that loses its last grant with a node or a relay is disabled.
Ungranted(client, node, relay) ==
    LET nodes == client.nodes \ {node}
        relays == client.relays \ {relay}
        loses == nodes # client.nodes \/ relays # client.relays
    IN  [client EXCEPT !.nodes = nodes, !.relays = relays,
                       !.enabled = @ /\ ~(loses /\ nodes = {} /\ relays = {})]

\* Faulty variant: DeleteNode that leaves the clients' lists alone.
DeleteNodeOnly(n) ==
    /\ Has(book.nodes, n)
    /\ Keep(book, [book EXCEPT !.nodes = Drop(@, n)])

\* Faulty variant: DeleteNode that saves before it has cleared the lists.
DeleteNodeSavedTwice(n) ==
    /\ Has(book.nodes, n)
    /\ LET dropped == [book EXCEPT !.nodes = Drop(@, n)]
       IN  Keep(dropped, [dropped EXCEPT
                !.clients = [c \in DOMAIN @ |-> Ungranted(@[c], n, NoId)]])

\* Faulty variant: DeleteNode that leaves Go's zero record behind.
DeleteNodeZeroed(n) ==
    /\ Has(book.nodes, n)
    /\ Keep(book, [book EXCEPT
            !.nodes = Put(@, n, [server |-> NoId, port |-> 0, kind |-> "other",
                                 enabled |-> FALSE]),
            !.clients = [c \in DOMAIN @ |-> Ungranted(@[c], n, NoId)]])

\* Faulty variant: DeleteNode that disables the relays landing on it.
DeleteNodeDisablingRelays(n) ==
    /\ Has(book.nodes, n)
    /\ Keep(book, [book EXCEPT
            !.nodes = Drop(@, n),
            !.relays = [r \in DOMAIN @ |-> [@[r] EXCEPT !.enabled =
                            @ /\ book.relays[r].landing # n]],
            !.clients = [c \in DOMAIN @ |-> Ungranted(@[c], n, NoId)]])

DeleteNode(n) ==
    /\ Has(book.nodes, n)
    /\ Keep(book, [book EXCEPT
            !.nodes = Drop(@, n),
            !.clients = [c \in DOMAIN @ |-> Ungranted(@[c], n, NoId)]])

-----------------------------------------------------------------------------
(* relays.go                                                               *)

\* A relay may only be put before an enabled node of the right kind.
LandingFits(b, relay) ==
    LET kind == IF relay.mode = "tcp_forward" THEN "reality" ELSE "socks"
    IN  relay.mode # "manual_socks5" =>
            /\ Has(b.nodes, relay.landing)
            /\ b.nodes[relay.landing].enabled
            /\ b.nodes[relay.landing].kind = kind

\* Faulty variant: RelayAccepted that does not ask the other relays.
RelayAcceptedOverRelays(b, relay, self) ==
    /\ Has(b.servers, relay.server)
    /\ LandingFits(b, relay)
    /\ ~PortTaken(b.nodes, relay)

\* normalizeRelayLocked
RelayAccepted(b, relay, self) ==
    /\ Has(b.servers, relay.server)
    /\ LandingFits(b, relay)
    /\ ~PortTaken(b.nodes, relay)
    /\ ~PortTaken(Drop(b.relays, self), relay)

\* A manual SOCKS5 landing clears the node.
Landed(relay) ==
    IF relay.mode = "manual_socks5" THEN [relay EXCEPT !.landing = NoId] ELSE relay

CreateRelay(r, named, body) ==
    /\ r \notin born
    /\ \E b \in Resolved(named) : \E s \in ServersFor(named, b) :
         LET relay == Landed([body EXCEPT !.server = s])
         IN  /\ RelayAccepted(b, relay, NoId)
             /\ Keep(b, [b EXCEPT
                    !.relays = Put(@, r, [relay EXCEPT !.enabled = TRUE])])

UpdateRelay(r, named, body) ==
    /\ Has(book.relays, r)
    /\ \E b \in Resolved(named) : \E s \in ServersFor(named, b) :
         LET relay == Landed([body EXCEPT !.server = s])
         IN  /\ RelayAccepted(b, relay, r)
             /\ Keep(b, [b EXCEPT !.relays = Put(@, r, relay)])

DeleteRelay(r) ==
    /\ Has(book.relays, r)
    /\ Keep(book, [book EXCEPT
            !.relays = Drop(@, r),
            !.clients = [c \in DOMAIN @ |-> Ungranted(@[c], NoId, r)]])

-----------------------------------------------------------------------------
(* clients.go                                                              *)

\* validateClientLocked
ClientAccepted(b, client) ==
    /\ client.nodes \subseteq DOMAIN b.nodes
    /\ client.relays \subseteq DOMAIN b.relays
    /\ \A r \in client.relays : b.relays[r].mode # "tcp_forward"
    /\ Cardinality(client.relays) <= 1

Submitted(body) == [body EXCEPT !.bare = body.nodes = {} /\ body.relays = {}]

CreateClient(c, body) ==
    /\ c \notin born
    /\ ClientAccepted(book, body)
    /\ Keep(book, [book EXCEPT
            !.clients = Put(@, c, [Submitted(body) EXCEPT !.enabled = TRUE])])

\* A renewal enables the client although the request did not; a failed save
\* is undone.
UpdateClient(c, body) ==
    /\ Has(book.clients, c)
    /\ ClientAccepted(book, body)
    /\ \E renewed \in BOOLEAN :
         book' = [book EXCEPT !.clients =
                    Put(@, c, [Submitted(body) EXCEPT !.enabled = @ \/ renewed])]
    /\ disk' = book'
    /\ UNCHANGED <<born, checked>>

DeleteClient(c) ==
    /\ Has(book.clients, c)
    /\ Keep(book, [book EXCEPT !.clients = Drop(@, c)])

\* createClientWithSocks5Relay: a client and its relay, under one lock.
CreateClientWithRelay(c, r, named, port) ==
    /\ c \notin born /\ r \notin born
    /\ \E b \in Resolved(named) : \E s \in ServersFor(named, b) :
         LET relay == [server |-> s, port |-> port, mode |-> "manual_socks5",
                       landing |-> NoId, enabled |-> TRUE]
             client == [enabled |-> TRUE, nodes |-> {}, relays |-> {r}, bare |-> FALSE]
         IN  /\ RelayAccepted(b, relay, NoId)
             /\ Keep(b, [b EXCEPT !.relays = Put(@, r, relay),
                                  !.clients = Put(@, c, client)])

-----------------------------------------------------------------------------
(* agent.go                                                                *)

\* Clients the sweep of billing finds expired or over their limit.
Swept(b, due) ==
    [b EXCEPT !.clients =
        [c \in DOMAIN @ |-> IF c \in due THEN [@[c] EXCEPT !.enabled = FALSE] ELSE @[c]]]

\* A record is written back under the id it carries.
Written(b, record) ==
    [b EXCEPT !.servers = Put(@, record.id, record)]

\* agentSync looks the server up again under its lock.
AgentSync(s) ==
    /\ Has(book.servers, s)
    /\ \E due \in SUBSET DOMAIN book.clients :
         Keep(book, Written(Swept(book, due), book.servers[s]))

\* validateAgentToken; a record that was never filled in has no token.
TokenChecked(s) ==
    /\ Has(book.servers, s) /\ book.servers[s].id = s
    /\ checked' = checked \cup {s}
    /\ UNCHANGED <<book, disk, born>>

\* agentHeartbeat does not: a server that is gone reads as Go's zero record.
Found(s) ==
    IF Has(book.servers, s) THEN book.servers[s] ELSE [id |-> NoId, endpoint |-> "none"]

Heartbeat(s) ==
    /\ s \in checked
    /\ \E due \in SUBSET DOMAIN book.clients :
         book' = Written(Swept(book, due), Found(s))
    /\ disk' = book'
    /\ checked' = checked \ {s}
    /\ UNCHANGED born

\* The rollback restores the clients, and the record found under the id the
\* heartbeat named.
HeartbeatSaveFails(s) ==
    /\ s \in checked /\ SavesFail
    /\ book' = [Written(book, Found(s)) EXCEPT !.servers = Put(@, s, Found(s))]
    /\ checked' = checked \ {s}
    /\ UNCHANGED <<disk, born>>

\* store.Open reads panel.json, merges, and does not start unless that is saved.
RestartPanel ==
    /\ \E b \in Ensured(disk) :
         /\ book' = b
         /\ disk' = b
         /\ Bear(b)
    /\ checked' = {}

-----------------------------------------------------------------------------
NodeBodies == [server : {NoId}, port : Ports, kind : Kinds, enabled : EnabledChoices]

RelayBodies == [server : {NoId}, port : Ports, mode : RelayModes,
                landing : Nodes \cup {NoId}, enabled : EnabledChoices]

ClientBodies(b) == [enabled : EnabledChoices, nodes : SUBSET DOMAIN b.nodes,
                    relays : SUBSET DOMAIN b.relays, bare : {FALSE}]

Named == Servers \cup {NoId}

ServerRequest ==
    \/ List
    \/ \E s \in Servers, e \in Endpoints : CreateServer(s, e) \/ UpdateServer(s, e)
    \/ \E s \in Servers : DeleteServer(s)

NodeRequest ==
    \/ \E n \in Nodes, s \in Named, body \in NodeBodies :
          CreateNode(n, s, body) \/ UpdateNode(n, s, body)
    \/ \E n \in Nodes : DeleteNode(n)

RelayRequest ==
    \/ \E r \in Relays, s \in Named, body \in RelayBodies :
          CreateRelay(r, s, body) \/ UpdateRelay(r, s, body)
    \/ \E r \in Relays : DeleteRelay(r)

ClientRequest ==
    \/ \E c \in Clients, body \in ClientBodies(book) :
          CreateClient(c, body) \/ UpdateClient(c, body)
    \/ \E c \in Clients : DeleteClient(c)
    \/ \E c \in Clients, r \in Relays, s \in Named, p \in Ports :
          CreateClientWithRelay(c, r, s, p)

AgentRequest ==
    \E s \in Servers :
        AgentSync(s) \/ TokenChecked(s) \/ Heartbeat(s) \/ HeartbeatSaveFails(s)

Next ==
    \/ ServerRequest \/ NodeRequest \/ RelayRequest \/ ClientRequest
    \/ AgentRequest \/ RestartPanel

Spec == Init /\ [][Next]_vars

-----------------------------------------------------------------------------
(* What is read from the book.                                             *)

\* GenerateServerConfig leaves out a relay whose landing cannot be used.
Lands(b, relay) ==
    relay.mode # "manual_socks5" =>
        /\ Has(b.nodes, relay.landing)
        /\ b.nodes[relay.landing].enabled
        /\ relay.mode = "panel_node" => b.nodes[relay.landing].kind = "socks"

\* Faulty variant: NodeInbounds with the disabled nodes.
NodeInboundsAll(b, s) == {n \in DOMAIN b.nodes : b.nodes[n].server = s}

NodeInbounds(b, s) ==
    {n \in DOMAIN b.nodes : b.nodes[n].server = s /\ b.nodes[n].enabled}

RelayInbounds(b, s) ==
    {r \in DOMAIN b.relays :
        b.relays[r].server = s /\ b.relays[r].enabled /\ Lands(b, b.relays[r])}

\* The nodes and relays at which Xray accepts the client.
AcceptedAt(b, s, c) ==
    IF ~b.clients[c].enabled THEN {}
    ELSE {n \in NodeInbounds(b, s) :
             n \in b.clients[c].nodes /\ b.nodes[n].kind # "socks"}
         \cup {r \in RelayInbounds(b, s) :
             r \in b.clients[c].relays /\ b.relays[r].mode # "tcp_forward"}

\* Agents ask with the id of a server that is registered, never an empty one.
Agents(b) == DOMAIN b.servers \ {NoId}

Served(b, c) == UNION {AcceptedAt(b, s, c) : s \in Agents(b)}

\* subscriptionSnapshot
NodeLinks(b, c) ==
    IF ~b.clients[c].enabled THEN {}
    ELSE {n \in b.clients[c].nodes \cap DOMAIN b.nodes :
             b.nodes[n].enabled /\ b.nodes[n].kind # "socks"}

RelayLinks(b, c) ==
    IF ~b.clients[c].enabled THEN {}
    ELSE {r \in b.clients[c].relays \cap DOMAIN b.relays :
             b.relays[r].enabled /\ b.relays[r].mode # "tcp_forward"}

-----------------------------------------------------------------------------
(* system.go, buildSystemChecks: the page that tells the administrator.    *)

EnabledNodes(b) == {n \in DOMAIN b.nodes : b.nodes[n].enabled}
EnabledRelays(b) == {r \in DOMAIN b.relays : b.relays[r].enabled}

\* A server that is found is taken to be online.
RelaysOffline(b) == {r \in EnabledRelays(b) : ~Has(b.servers, b.relays[r].server)}

\* The landing's record is missing or of another kind.
RelaysBroken(b) ==
    {r \in EnabledRelays(b) :
        \/ b.relays[r].mode # "manual_socks5" /\ ~Has(b.nodes, b.relays[r].landing)
        \/ /\ b.relays[r].mode = "panel_node" /\ Has(b.nodes, b.relays[r].landing)
           /\ b.nodes[b.relays[r].landing].kind # "socks"}

\* Faulty variant: BindingProblems that looks at the records again, and not at
\* a generated configuration.
BindingProblemsOfRecords(b) == {r \in RelaysBroken(b) : b.relays[r].mode # "tcp_forward"}

\* socks5RouteBindingProblems, on a configuration generated from all nodes and
\* relays, of whatever servers.
BindingProblems(b) ==
    {r \in EnabledRelays(b) : b.relays[r].mode # "tcp_forward" /\ ~Lands(b, b.relays[r])}

ReportedRelays(b) == RelaysOffline(b) \cup RelaysBroken(b) \cup BindingProblems(b)

\* The ports an enabled node or relay takes, as <<server, port>>.
TakenByNode(b, n) == <<b.nodes[n].server, b.nodes[n].port>>
TakenByRelay(b, r) == <<b.relays[r].server, b.relays[r].port>>

\* The check of ports has something to say.
PortsConflict(b) ==
    \/ \E n, m \in EnabledNodes(b) : n # m /\ TakenByNode(b, n) = TakenByNode(b, m)
    \/ \E n \in EnabledNodes(b), r \in EnabledRelays(b) :
           TakenByNode(b, n) = TakenByRelay(b, r)
    \/ \E r, q \in EnabledRelays(b) : r # q /\ TakenByRelay(b, r) = TakenByRelay(b, q)

-----------------------------------------------------------------------------
(* Properties.                                                             *)

(* Bindings and servers of nodes always exist, in memory and on disk, so   *)
(* that a restart after a lost save finds no dangling reference: nodes are *)
(* taken from the clients bound to them, follow merged servers, and hold   *)
(* back the deletion of theirs.  (nodeByID, relayByID, serverByID,         *)
(* ensureSingleModeLocalServer)                                            *)
BindingsExist(b) ==
    \A c \in DOMAIN b.clients :
        /\ b.clients[c].nodes \subseteq DOMAIN b.nodes
        /\ b.clients[c].relays \subseteq DOMAIN b.relays
        /\ Cardinality(b.clients[c].relays) <= 1

NodesHaveServers(b) ==
    \A n \in DOMAIN b.nodes : Has(b.servers, b.nodes[n].server)

BooksAreSound ==
    /\ BindingsExist(book) /\ NodesHaveServers(book)
    /\ BindingsExist(disk) /\ NodesHaveServers(disk)

(* What a client's subscription offers of nodes is what the servers accept *)
(* it at, and it is accepted nowhere that its subscription does not offer. *)
(* The only nodes offered in vain are those a merge gave to the server     *)
(* without an id (see LastServerStays), which has no agent.                *)
(* (subscriptionSnapshot, GenerateServerConfig)                            *)
NodeLinksServed ==
    \A c \in DOMAIN book.clients :
        /\ Served(book, c) \subseteq NodeLinks(book, c) \cup RelayLinks(book, c)
        /\ {n \in NodeLinks(book, c) : book.nodes[n].server # NoId}
              \subseteq Served(book, c)

\* What may take the exit away: a request about this client or relay, the end of
\* the client's billing, a restart after a lost save.
ExitLost(c, r) ==
    \/ RestartPanel /\ disk # book
    \/ DeleteClient(c) \/ DeleteRelay(r)
    \/ \E body \in ClientBodies(book) : UpdateClient(c, body)
    \/ ~book'.clients[c].enabled /\ AgentRequest

\* The relay is edited, and serves the client on or has ceased to relay.
ExitEdited(c, r) ==
    /\ \E s \in Named, body \in RelayBodies : UpdateRelay(r, s, body)
    /\ \/ r \in Served(book', c)
       \/ LET relay == book'.relays[r]
          IN  ~relay.enabled \/ relay.mode = "tcp_forward" \/ relay.server = NoId

ExitSame(r) ==
    /\ book'.relays[r].mode = book.relays[r].mode
    /\ book'.relays[r].landing = book.relays[r].landing

(* README.md: a fixed-exit client has one entrance and one exit.  The exit *)
(* is settled when the client is saved; afterwards landings are edited and *)
(* deleted, servers deleted and merged, other relays and clients edited,   *)
(* and the panel restarts.  None of it moves the exit a client is served   *)
(* at or takes it away unnoticed: it stays what it was, or the system page *)
(* names the relay.  Only a request about this client or this relay, the   *)
(* end of its billing, or a restart after a lost save does more; and an    *)
(* edit of the relay loses its clients unnoticed in three ways only: it    *)
(* disables it, makes it a forwarding one or gives it to the server        *)
(* without an id.  (relayByID, nodeByID, clientByID, GenerateServerConfig, *)
(* buildSystemChecks)                                                      *)
FixedExitStands ==
    [][ \A c \in DOMAIN book.clients : \A r \in Served(book, c) \cap Relays :
          \/ ExitLost(c, r)
          \/ r \in Served(book', c) /\ ExitSame(r)
          \/ r \in RelayLinks(book', c) \cap ReportedRelays(book')
          \/ ExitEdited(c, r) ]_vars

(* A client without any grant is enabled only because an administrator     *)
(* saved it so: losing its grants one by one, to deletions of nodes and of *)
(* relays, disables it with the last.  (nodeByID, relayByID)               *)
LastGrantDisables ==
    \A c \in DOMAIN book.clients :
        LET client == book.clients[c]
        IN  client.enabled /\ client.nodes = {} /\ client.relays = {} => client.bare

(* After the panel listed its servers, one record at most stands for the   *)
(* panel's own machine.  (ensureSingleModeLocalServer)                     *)
ListingMerges ==
    [][ List => Cardinality({s \in DOMAIN book'.servers :
                    book'.servers[s].endpoint = "local"}) <= 1 ]_vars

(* serverByID: the last server cannot be deleted.                          *)
LastServerStays == Agents(book) # {}

(* A relay that a subscription offers and no server accepts, because its   *)
(* landing was deleted, disabled or changed, or its server was deleted or  *)
(* merged away, is named on the system page; but one that was given to the *)
(* server without an id passes for served (see LastServerStays).           *)
(* (subscriptionSnapshot, GenerateServerConfig,                            *)
(* socks5RouteBindingProblems)                                             *)
DeadRelaysReported ==
    \A c \in DOMAIN book.clients :
        {r \in RelayLinks(book, c) \ Served(book, c) : book.relays[r].server # NoId}
            \subseteq ReportedRelays(book)

(* Three handlers check ports, each against another set of inbounds, and a *)
(* node is enabled after its check: two relays of a server never share a   *)
(* port, however they are created, moved, disabled and enabled; every      *)
(* other pair of inbounds a server is sent with one port is warned about.  *)
(* (normalizeNodeLocked, nodes, normalizeRelayLocked, buildSystemChecks)   *)
ClashesReported ==
    \A s \in DOMAIN book.servers :
        /\ \A r, q \in RelayInbounds(book, s) :
              r # q => book.relays[r].port # book.relays[q].port
        /\ \/ PortsConflict(book)
           \/ /\ \A n \in NodeInbounds(book, s), m \in NodeInbounds(book, s) :
                    n # m => book.nodes[n].port # book.nodes[m].port
              /\ \A n \in NodeInbounds(book, s), r \in RelayInbounds(book, s) :
                    book.nodes[n].port # book.relays[r].port
=============================================================================
