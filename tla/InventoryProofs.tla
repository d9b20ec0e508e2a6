--------------------------- MODULE InventoryProofs ---------------------------
(***************************************************************************)
(* Proofs about Inventory, for every set of ids, ports and requests, with  *)
(* saves that fail or not.                                                 *)
(***************************************************************************)
EXTENDS Inventory, FiniteSetTheorems, TLAPS

-----------------------------------------------------------------------------
(* The inductive invariant.  Memory and disk are sound by themselves, as   *)
(* a restart continues with the disk and a merge with either.              *)

\* A server's record carries its id, or is the zero record that a heartbeat of
\* a server that is gone leaves behind when its save fails.
RecordsCarryIds(b) ==
    \A s \in DOMAIN b.servers :
        b.servers[s].id = s \/ b.servers[s] = [id |-> NoId, endpoint |-> "none"]

RelaysApart(b) ==
    \A r, q \in DOMAIN b.relays :
        r # q /\ b.relays[r].enabled /\ b.relays[q].enabled
              /\ b.relays[r].server = b.relays[q].server
            => b.relays[r].port # b.relays[q].port

GrantlessAreBare(b) ==
    \A c \in DOMAIN b.clients :
        LET client == b.clients[c]
        IN  client.enabled /\ client.nodes = {} /\ client.relays = {} => client.bare

\* Finitely many relays: a client's are counted.
Sound(b) ==
    /\ IsBook(b) /\ IsFiniteSet(DOMAIN b.relays)
    /\ RecordsCarryIds(b) /\ NodesHaveServers(b) /\ BindingsExist(b)
    /\ RelaysApart(b) /\ GrantlessAreBare(b)

InventoryInv ==
    /\ Sound(book) /\ Sound(disk)
    /\ born \subseteq Servers \cup Nodes \cup Relays \cup Clients
    /\ checked \subseteq Servers

-----------------------------------------------------------------------------
(* What each change of a book does to its soundness.                       *)

\* A book keeps what was not written to.
LEMMA ServersReplaced ==
    ASSUME NEW b, Sound(b), NEW servers,
           servers \in [DOMAIN servers -> Server],
           DOMAIN servers \subseteq Servers \cup {NoId},
           \A s \in DOMAIN servers :
               servers[s].id = s \/ servers[s] = [id |-> NoId, endpoint |-> "none"],
           \A n \in DOMAIN b.nodes : b.nodes[n].server \in DOMAIN servers,
           NEW after, after = [b EXCEPT !.servers = servers]
    PROVE  Sound(after)
  <1>1. /\ DOMAIN after = {"servers", "nodes", "relays", "clients"}
        /\ after.servers = servers /\ after.nodes = b.nodes
        /\ after.relays = b.relays /\ after.clients = b.clients
    BY DEF Sound, IsBook
  <1>2. IsBook(after)
    BY <1>1 DEF Sound, IsBook
  <1>3. RecordsCarryIds(after) /\ NodesHaveServers(after)
    BY <1>1 DEF RecordsCarryIds, NodesHaveServers, Has
  <1>4. QED
    BY <1>1, <1>2, <1>3 DEF Sound, BindingsExist, RelaysApart, GrantlessAreBare

LEMMA NodesReplaced ==
    ASSUME NEW b, Sound(b), NEW nodes, NEW clients,
           nodes \in [DOMAIN nodes -> Node],
           DOMAIN nodes \subseteq Nodes,
           \A n \in DOMAIN nodes : nodes[n].server \in DOMAIN b.servers,
           clients \in [DOMAIN b.clients -> Client],
           \A c \in DOMAIN b.clients :
               /\ clients[c].nodes \subseteq DOMAIN nodes
               /\ clients[c].relays \subseteq b.clients[c].relays
               /\ clients[c].relays \subseteq DOMAIN b.relays
               /\ clients[c].enabled /\ clients[c].nodes = {} /\ clients[c].relays = {}
                     => clients[c].bare,
           NEW after, after = [b EXCEPT !.nodes = nodes, !.clients = clients]
    PROVE  Sound(after)
  <1>1. /\ DOMAIN after = {"servers", "nodes", "relays", "clients"}
        /\ after.servers = b.servers /\ after.nodes = nodes
        /\ after.relays = b.relays /\ after.clients = clients
        /\ DOMAIN clients = DOMAIN b.clients
    BY DEF Sound, IsBook
  <1>2. IsBook(after)
    BY <1>1 DEF Sound, IsBook
  <1>3. NodesHaveServers(after) /\ GrantlessAreBare(after)
    BY <1>1 DEF NodesHaveServers, GrantlessAreBare, Has
  <1>4. BindingsExist(after)
    <2>1. SUFFICES ASSUME NEW c \in DOMAIN b.clients
                   PROVE  Cardinality(clients[c].relays) <= 1
      BY <1>1 DEF BindingsExist
    <2>2. IsFiniteSet(b.clients[c].relays) /\ Cardinality(b.clients[c].relays) <= 1
      BY FS_Subset DEF Sound, BindingsExist
    <2>3. QED
      BY <2>2, FS_Subset, FS_CardinalityType
  <1>5. QED
    BY <1>1, <1>2, <1>3, <1>4 DEF Sound, RecordsCarryIds, RelaysApart

LEMMA RelaysReplaced ==
    ASSUME NEW b, Sound(b), NEW relays, NEW clients,
           relays \in [DOMAIN relays -> Relay],
           DOMAIN relays \subseteq Relays, IsFiniteSet(DOMAIN relays),
           \A r, q \in DOMAIN relays :
               r # q /\ relays[r].enabled /\ relays[q].enabled
                     /\ relays[r].server = relays[q].server
                   => relays[r].port # relays[q].port,
           clients \in [DOMAIN clients -> Client],
           DOMAIN clients \subseteq Clients,
           \A c \in DOMAIN clients :
               /\ clients[c].nodes \subseteq DOMAIN b.nodes
               /\ clients[c].relays \subseteq DOMAIN relays
               /\ Cardinality(clients[c].relays) <= 1
               /\ clients[c].enabled /\ clients[c].nodes = {} /\ clients[c].relays = {}
                     => clients[c].bare,
           NEW after, after = [b EXCEPT !.relays = relays, !.clients = clients]
    PROVE  Sound(after)
  <1>1. /\ DOMAIN after = {"servers", "nodes", "relays", "clients"}
        /\ after.servers = b.servers /\ after.nodes = b.nodes
        /\ after.relays = relays /\ after.clients = clients
    BY DEF Sound, IsBook
  <1>2. IsBook(after)
    BY <1>1 DEF Sound, IsBook
  <1>3. RelaysApart(after) /\ GrantlessAreBare(after) /\ BindingsExist(after)
    BY <1>1 DEF RelaysApart, GrantlessAreBare, BindingsExist
  <1>4. QED
    BY <1>1, <1>2, <1>3 DEF Sound, RecordsCarryIds, NodesHaveServers

-----------------------------------------------------------------------------
(* The operators the handlers are built from.                              *)

LEMMA PutServerSound ==
    ASSUME NEW b, Sound(b), NEW s \in Servers \cup {NoId}, NEW record \in Server,
           record.id = s \/ record = [id |-> NoId, endpoint |-> "none"]
    PROVE  Sound([b EXCEPT !.servers = Put(@, s, record)])
  <1> DEFINE servers == Put(b.servers, s, record)
  <1>1. b.servers \in [DOMAIN b.servers -> Server] /\ DOMAIN b.servers \subseteq Servers \cup {NoId}
    BY DEF Sound, IsBook
  <1>2. /\ servers \in [DOMAIN b.servers \cup {s} -> Server]
        /\ DOMAIN servers = DOMAIN b.servers \cup {s}
        /\ servers[s] = record
        /\ \A x \in DOMAIN b.servers : x # s => servers[x] = b.servers[x]
    BY <1>1 DEF Put
  <1>3. \A x \in DOMAIN servers :
            servers[x].id = x \/ servers[x] = [id |-> NoId, endpoint |-> "none"]
    BY <1>2 DEF Sound, RecordsCarryIds
  <1>4. \A n \in DOMAIN b.nodes : b.nodes[n].server \in DOMAIN servers
    BY <1>2 DEF Sound, NodesHaveServers, Has
  <1>5. [b EXCEPT !.servers = Put(@, s, record)] = [b EXCEPT !.servers = servers]
    BY DEF Sound, IsBook
  <1> HIDE DEF servers
  <1>6. QED
    BY <1>1, <1>2, <1>3, <1>4, <1>5, ServersReplaced

LEMMA DropServerSound ==
    ASSUME NEW b, Sound(b), NEW s,
           \A n \in DOMAIN b.nodes : b.nodes[n].server # s
    PROVE  Sound([b EXCEPT !.servers = Drop(@, s)])
  <1> DEFINE servers == Drop(b.servers, s)
  <1>1. b.servers \in [DOMAIN b.servers -> Server] /\ DOMAIN b.servers \subseteq Servers \cup {NoId}
    BY DEF Sound, IsBook
  <1>2. /\ servers \in [DOMAIN b.servers \ {s} -> Server]
        /\ DOMAIN servers = DOMAIN b.servers \ {s}
        /\ \A x \in DOMAIN b.servers : x # s => servers[x] = b.servers[x]
    BY <1>1 DEF Drop
  <1>3. \A x \in DOMAIN servers :
            servers[x].id = x \/ servers[x] = [id |-> NoId, endpoint |-> "none"]
    BY <1>2 DEF Sound, RecordsCarryIds
  <1>4. \A n \in DOMAIN b.nodes : b.nodes[n].server \in DOMAIN servers
    BY <1>2 DEF Sound, NodesHaveServers, Has
  <1>5. [b EXCEPT !.servers = Drop(@, s)] = [b EXCEPT !.servers = servers]
    BY DEF Sound, IsBook
  <1> HIDE DEF servers
  <1>6. QED
    BY <1>1, <1>2, <1>3, <1>4, <1>5, ServersReplaced

\* The clients of a book keep their grants but those on one node and one relay.
LEMMA UngrantedFacts ==
    ASSUME NEW b, Sound(b), NEW n, NEW r, NEW c \in DOMAIN b.clients,
           NEW client, client = Ungranted(b.clients[c], n, r)
    PROVE  /\ client \in Client
           /\ client.nodes = b.clients[c].nodes \ {n}
           /\ client.relays = b.clients[c].relays \ {r}
           /\ client.enabled /\ client.nodes = {} /\ client.relays = {} => client.bare
  <1> DEFINE old == b.clients[c]
             on == old.enabled /\ ~((old.nodes \ {n} # old.nodes \/ old.relays \ {r} # old.relays)
                                      /\ old.nodes \ {n} = {} /\ old.relays \ {r} = {})
  <1>1. old \in Client /\ old.enabled \in BOOLEAN
    BY DEF Sound, IsBook, Client
  <1>2. old.enabled /\ old.nodes = {} /\ old.relays = {} => old.bare
    BY DEF Sound, GrantlessAreBare
  <1>3. client = [old EXCEPT !.nodes = old.nodes \ {n}, !.relays = old.relays \ {r},
                             !.enabled = on]
    BY <1>1 DEF Ungranted, Client
  <1>4. on \in BOOLEAN
    OBVIOUS
  <1>5. /\ client \in Client
        /\ client.nodes = old.nodes \ {n} /\ client.relays = old.relays \ {r}
        /\ client.enabled = on /\ client.bare = old.bare
    <2> HIDE DEF on
    <2>1. QED
      BY <1>1, <1>3, <1>4 DEF Client
  <1>6. QED
    BY <1>2, <1>5

LEMMA PutNodeSound ==
    ASSUME NEW b, Sound(b), NEW n \in Nodes, NEW node \in Node,
           Has(b.servers, node.server)
    PROVE  Sound([b EXCEPT !.nodes = Put(@, n, node)])
  <1> DEFINE nodes == Put(b.nodes, n, node)
  <1>1. /\ b.nodes \in [DOMAIN b.nodes -> Node] /\ DOMAIN b.nodes \subseteq Nodes
        /\ b.clients \in [DOMAIN b.clients -> Client]
    BY DEF Sound, IsBook
  <1>2. /\ nodes \in [DOMAIN b.nodes \cup {n} -> Node]
        /\ DOMAIN nodes = DOMAIN b.nodes \cup {n}
        /\ nodes[n] = node
        /\ \A x \in DOMAIN b.nodes : x # n => nodes[x] = b.nodes[x]
    BY <1>1 DEF Put
  <1>3. \A x \in DOMAIN nodes : nodes[x].server \in DOMAIN b.servers
    BY <1>2 DEF Sound, NodesHaveServers, Has
  <1>4. [b EXCEPT !.nodes = Put(@, n, node)]
            = [b EXCEPT !.nodes = nodes, !.clients = b.clients]
    BY DEF Sound, IsBook
  <1>5. \A c \in DOMAIN b.clients :
            /\ b.clients[c].nodes \subseteq DOMAIN nodes
            /\ b.clients[c].relays \subseteq DOMAIN b.relays
            /\ b.clients[c].enabled /\ b.clients[c].nodes = {} /\ b.clients[c].relays = {}
                  => b.clients[c].bare
    BY <1>2 DEF Sound, BindingsExist, GrantlessAreBare
  <1>6. nodes \in [DOMAIN nodes -> Node] /\ DOMAIN nodes \subseteq Nodes
    BY <1>1, <1>2
  <1> HIDE DEF nodes
  <1>7. Sound([b EXCEPT !.nodes = nodes, !.clients = b.clients])
    BY <1>1, <1>3, <1>5, <1>6, NodesReplaced
  <1>8. QED
    BY <1>4, <1>7

LEMMA DropNodeSound ==
    ASSUME NEW b, Sound(b), NEW n \in Nodes
    PROVE  Sound([b EXCEPT !.nodes = Drop(@, n),
                           !.clients = [c \in DOMAIN @ |-> Ungranted(@[c], n, NoId)]])
  <1> DEFINE nodes == Drop(b.nodes, n)
             clients == [c \in DOMAIN b.clients |-> Ungranted(b.clients[c], n, NoId)]
  <1>1. b.nodes \in [DOMAIN b.nodes -> Node] /\ DOMAIN b.nodes \subseteq Nodes
    BY DEF Sound, IsBook
  <1>2. /\ nodes \in [DOMAIN b.nodes \ {n} -> Node]
        /\ DOMAIN nodes = DOMAIN b.nodes \ {n}
        /\ \A x \in DOMAIN b.nodes : x # n => nodes[x] = b.nodes[x]
    BY <1>1 DEF Drop
  <1>3. \A x \in DOMAIN nodes : nodes[x].server \in DOMAIN b.servers
    BY <1>2 DEF Sound, NodesHaveServers, Has
  <1>4. [b EXCEPT !.nodes = Drop(@, n),
                  !.clients = [c \in DOMAIN @ |-> Ungranted(@[c], n, NoId)]]
            = [b EXCEPT !.nodes = nodes, !.clients = clients]
    BY DEF Sound, IsBook
  <1>5. ASSUME NEW c \in DOMAIN b.clients
        PROVE  /\ clients[c] \in Client
               /\ clients[c].nodes = b.clients[c].nodes \ {n}
               /\ clients[c].relays = b.clients[c].relays \ {NoId}
               /\ clients[c].enabled /\ clients[c].nodes = {} /\ clients[c].relays = {}
                     => clients[c].bare
    BY UngrantedFacts
  <1>6. clients \in [DOMAIN b.clients -> Client]
    BY <1>5
  <1>7. \A c \in DOMAIN b.clients :
            /\ clients[c].nodes \subseteq DOMAIN nodes
            /\ clients[c].relays \subseteq b.clients[c].relays
            /\ clients[c].relays \subseteq DOMAIN b.relays
            /\ clients[c].enabled /\ clients[c].nodes = {} /\ clients[c].relays = {}
                  => clients[c].bare
    <2> HIDE DEF clients, nodes
    <2>1. QED
      BY <1>2, <1>5 DEF Sound, BindingsExist
  <1>8. nodes \in [DOMAIN nodes -> Node] /\ DOMAIN nodes \subseteq Nodes
    BY <1>1, <1>2
  <1> HIDE DEF nodes, clients
  <1>9. Sound([b EXCEPT !.nodes = nodes, !.clients = clients])
    BY <1>3, <1>6, <1>7, <1>8, NodesReplaced
  <1>10. QED
    BY <1>4, <1>9

LEMMA PutClientSound ==
    ASSUME NEW b, Sound(b), NEW c \in Clients, NEW client \in Client,
           client.nodes \subseteq DOMAIN b.nodes,
           client.relays \subseteq DOMAIN b.relays,
           Cardinality(client.relays) <= 1,
           client.enabled /\ client.nodes = {} /\ client.relays = {} => client.bare
    PROVE  Sound([b EXCEPT !.clients = Put(@, c, client)])
  <1> DEFINE clients == Put(b.clients, c, client)
  <1>1. /\ b.relays \in [DOMAIN b.relays -> Relay] /\ DOMAIN b.relays \subseteq Relays
        /\ b.clients \in [DOMAIN b.clients -> Client] /\ DOMAIN b.clients \subseteq Clients
        /\ IsFiniteSet(DOMAIN b.relays)
    BY DEF Sound, IsBook
  <1>2. /\ clients \in [DOMAIN b.clients \cup {c} -> Client]
        /\ DOMAIN clients = DOMAIN b.clients \cup {c}
        /\ clients[c] = client
        /\ \A x \in DOMAIN b.clients : x # c => clients[x] = b.clients[x]
    BY <1>1 DEF Put
  <1>3. [b EXCEPT !.clients = Put(@, c, client)]
            = [b EXCEPT !.relays = b.relays, !.clients = clients]
    BY DEF Sound, IsBook
  <1>4. \A x \in DOMAIN clients :
            /\ clients[x].nodes \subseteq DOMAIN b.nodes
            /\ clients[x].relays \subseteq DOMAIN b.relays
            /\ Cardinality(clients[x].relays) <= 1
            /\ clients[x].enabled /\ clients[x].nodes = {} /\ clients[x].relays = {}
                  => clients[x].bare
    BY <1>2 DEF Sound, BindingsExist, GrantlessAreBare
  <1>5. \A r, q \in DOMAIN b.relays :
            r # q /\ b.relays[r].enabled /\ b.relays[q].enabled
                  /\ b.relays[r].server = b.relays[q].server
                => b.relays[r].port # b.relays[q].port
    BY DEF Sound, RelaysApart
  <1>6. clients \in [DOMAIN clients -> Client] /\ DOMAIN clients \subseteq Clients
    BY <1>1, <1>2
  <1> HIDE DEF clients
  <1>7. Sound([b EXCEPT !.relays = b.relays, !.clients = clients])
    BY <1>1, <1>4, <1>5, <1>6, RelaysReplaced
  <1>8. QED
    BY <1>3, <1>7

\* Fewer clients, and some of them disabled.
LEMMA ClientsReducedSound ==
    ASSUME NEW b, Sound(b), NEW clients, DOMAIN clients \subseteq DOMAIN b.clients,
           clients \in [DOMAIN clients -> Client],
           \A c \in DOMAIN clients :
               /\ clients[c].nodes = b.clients[c].nodes
               /\ clients[c].relays = b.clients[c].relays
               /\ clients[c].bare = b.clients[c].bare
               /\ clients[c].enabled => b.clients[c].enabled
    PROVE  Sound([b EXCEPT !.clients = clients])
  <1>1. /\ b.relays \in [DOMAIN b.relays -> Relay] /\ DOMAIN b.relays \subseteq Relays
        /\ DOMAIN b.clients \subseteq Clients /\ IsFiniteSet(DOMAIN b.relays)
    BY DEF Sound, IsBook
  <1>2. [b EXCEPT !.clients = clients] = [b EXCEPT !.relays = b.relays, !.clients = clients]
    BY DEF Sound, IsBook
  <1>3. \A c \in DOMAIN clients :
            /\ clients[c].nodes \subseteq DOMAIN b.nodes
            /\ clients[c].relays \subseteq DOMAIN b.relays
            /\ Cardinality(clients[c].relays) <= 1
            /\ clients[c].enabled /\ clients[c].nodes = {} /\ clients[c].relays = {}
                  => clients[c].bare
    BY DEF Sound, BindingsExist, GrantlessAreBare
  <1>4. \A r, q \in DOMAIN b.relays :
            r # q /\ b.relays[r].enabled /\ b.relays[q].enabled
                  /\ b.relays[r].server = b.relays[q].server
                => b.relays[r].port # b.relays[q].port
    BY DEF Sound, RelaysApart
  <1>5. QED
    BY <1>1, <1>2, <1>3, <1>4, RelaysReplaced

LEMMA PutRelaySound ==
    ASSUME NEW b, Sound(b), NEW r \in Relays, NEW relay \in Relay,
           NEW self \in {r, NoId}, ~PortTaken(Drop(b.relays, self), relay)
    PROVE  Sound([b EXCEPT !.relays = Put(@, r, relay)])
  <1> DEFINE relays == Put(b.relays, r, relay)
  <1>1. /\ b.relays \in [DOMAIN b.relays -> Relay] /\ DOMAIN b.relays \subseteq Relays
        /\ b.clients \in [DOMAIN b.clients -> Client] /\ DOMAIN b.clients \subseteq Clients
        /\ IsFiniteSet(DOMAIN b.relays) /\ NoId \notin DOMAIN b.relays
    BY InventoryAssumption DEF Sound, IsBook
  <1>2. /\ relays \in [DOMAIN b.relays \cup {r} -> Relay]
        /\ DOMAIN relays = DOMAIN b.relays \cup {r}
        /\ relays[r] = relay
        /\ \A x \in DOMAIN b.relays : x # r => relays[x] = b.relays[x]
    BY <1>1 DEF Put
  <1>3. [b EXCEPT !.relays = Put(@, r, relay)]
            = [b EXCEPT !.relays = relays, !.clients = b.clients]
    BY DEF Sound, IsBook
  <1>4. \A c \in DOMAIN b.clients :
            /\ b.clients[c].nodes \subseteq DOMAIN b.nodes
            /\ b.clients[c].relays \subseteq DOMAIN relays
            /\ Cardinality(b.clients[c].relays) <= 1
            /\ b.clients[c].enabled /\ b.clients[c].nodes = {} /\ b.clients[c].relays = {}
                  => b.clients[c].bare
    BY <1>2 DEF Sound, BindingsExist, GrantlessAreBare
  <1>5. \A x \in DOMAIN b.relays : x # r =>
            ~(/\ b.relays[x].server = relay.server
              /\ b.relays[x].enabled
              /\ b.relays[x].port = relay.port)
    BY <1>1 DEF PortTaken, Drop
  <1>6. \A x, q \in DOMAIN relays :
            x # q /\ relays[x].enabled /\ relays[q].enabled
                  /\ relays[x].server = relays[q].server
                => relays[x].port # relays[q].port
    <2> HIDE DEF relays
    <2>1. QED
      BY <1>2, <1>5 DEF Sound, RelaysApart
  <1>7. /\ relays \in [DOMAIN relays -> Relay] /\ DOMAIN relays \subseteq Relays
        /\ IsFiniteSet(DOMAIN relays)
    BY <1>1, <1>2, FS_AddElement
  <1> HIDE DEF relays
  <1>8. Sound([b EXCEPT !.relays = relays, !.clients = b.clients])
    BY <1>1, <1>4, <1>6, <1>7, RelaysReplaced
  <1>9. QED
    BY <1>3, <1>8

LEMMA DropRelaySound ==
    ASSUME NEW b, Sound(b), NEW r \in Relays
    PROVE  Sound([b EXCEPT !.relays = Drop(@, r),
                           !.clients = [c \in DOMAIN @ |-> Ungranted(@[c], NoId, r)]])
  <1> DEFINE relays == Drop(b.relays, r)
             clients == [c \in DOMAIN b.clients |-> Ungranted(b.clients[c], NoId, r)]
  <1>1. /\ b.relays \in [DOMAIN b.relays -> Relay] /\ DOMAIN b.relays \subseteq Relays
        /\ DOMAIN b.clients \subseteq Clients /\ IsFiniteSet(DOMAIN b.relays)
    BY DEF Sound, IsBook
  <1>2. /\ relays \in [DOMAIN b.relays \ {r} -> Relay]
        /\ DOMAIN relays = DOMAIN b.relays \ {r}
        /\ \A x \in DOMAIN b.relays : x # r => relays[x] = b.relays[x]
    BY <1>1 DEF Drop
  <1>3. [b EXCEPT !.relays = Drop(@, r),
                  !.clients = [c \in DOMAIN @ |-> Ungranted(@[c], NoId, r)]]
            = [b EXCEPT !.relays = relays, !.clients = clients]
    BY DEF Sound, IsBook
  <1>4. ASSUME NEW c \in DOMAIN b.clients
        PROVE  /\ clients[c] \in Client
               /\ clients[c].nodes = b.clients[c].nodes \ {NoId}
               /\ clients[c].relays = b.clients[c].relays \ {r}
               /\ clients[c].enabled /\ clients[c].nodes = {} /\ clients[c].relays = {}
                     => clients[c].bare
    BY UngrantedFacts
  <1>5. clients \in [DOMAIN b.clients -> Client] /\ DOMAIN clients = DOMAIN b.clients
    BY <1>4
  <1>6. \A x, q \in DOMAIN relays :
            x # q /\ relays[x].enabled /\ relays[q].enabled
                  /\ relays[x].server = relays[q].server
                => relays[x].port # relays[q].port
    BY <1>2 DEF Sound, RelaysApart
  <1>7. ASSUME NEW c \in DOMAIN clients
        PROVE  /\ clients[c].nodes \subseteq DOMAIN b.nodes
               /\ clients[c].relays \subseteq DOMAIN relays
               /\ Cardinality(clients[c].relays) <= 1
    <2> HIDE DEF clients, relays
    <2>1. IsFiniteSet(b.clients[c].relays) /\ Cardinality(b.clients[c].relays) <= 1
      BY <1>1, <1>5, FS_Subset DEF Sound, BindingsExist
    <2>2. clients[c].relays \in SUBSET b.clients[c].relays
      BY <1>4, <1>5
    <2>3. Cardinality(clients[c].relays) <= 1
      BY <2>1, <2>2, FS_Subset, FS_CardinalityType
    <2>4. QED
      BY <1>2, <1>4, <1>5, <2>3 DEF Sound, BindingsExist
  <1>8. /\ relays \in [DOMAIN relays -> Relay] /\ DOMAIN relays \subseteq Relays
        /\ IsFiniteSet(DOMAIN relays)
    BY <1>1, <1>2, FS_RemoveElement
  <1> HIDE DEF relays, clients
  <1>9. Sound([b EXCEPT !.relays = relays, !.clients = clients])
    BY <1>1, <1>4, <1>5, <1>6, <1>7, <1>8, RelaysReplaced
  <1>10. QED
    BY <1>3, <1>9

LEMMA DropClientSound ==
    ASSUME NEW b, Sound(b), NEW c
    PROVE  Sound([b EXCEPT !.clients = Drop(@, c)])
  <1> DEFINE clients == Drop(b.clients, c)
  <1>1. b.clients \in [DOMAIN b.clients -> Client]
    BY DEF Sound, IsBook
  <1>2. /\ clients \in [DOMAIN clients -> Client] /\ DOMAIN clients \subseteq DOMAIN b.clients
        /\ \A x \in DOMAIN clients : clients[x] = b.clients[x]
    BY <1>1 DEF Drop
  <1>3. [b EXCEPT !.clients = Drop(@, c)] = [b EXCEPT !.clients = clients]
    BY DEF Sound, IsBook
  <1> HIDE DEF clients
  <1>4. Sound([b EXCEPT !.clients = clients])
    BY <1>2, ClientsReducedSound
  <1>5. QED
    BY <1>3, <1>4

LEMMA SweptSound ==
    ASSUME NEW b, Sound(b), NEW due
    PROVE  Sound(Swept(b, due)) /\ Swept(b, due).servers = b.servers
  <1> DEFINE clients == [c \in DOMAIN b.clients |->
                            IF c \in due THEN [b.clients[c] EXCEPT !.enabled = FALSE]
                                         ELSE b.clients[c]]
  <1>1. b.clients \in [DOMAIN b.clients -> Client]
    BY DEF Sound, IsBook
  <1>2. \A c \in DOMAIN b.clients :
            /\ clients[c] \in Client
            /\ clients[c].nodes = b.clients[c].nodes
            /\ clients[c].relays = b.clients[c].relays
            /\ clients[c].bare = b.clients[c].bare
            /\ clients[c].enabled => b.clients[c].enabled
    BY <1>1 DEF Client
  <1>3. DOMAIN clients = DOMAIN b.clients /\ clients \in [DOMAIN clients -> Client]
    BY <1>2
  <1>4. Swept(b, due) = [b EXCEPT !.clients = clients]
    BY DEF Swept, Sound, IsBook
  <1> HIDE DEF clients
  <1>5. Sound([b EXCEPT !.clients = clients])
    BY <1>2, <1>3, ClientsReducedSound
  <1>6. QED
    BY <1>4, <1>5 DEF Sound, IsBook

LEMMA MergedIntoSound ==
    ASSUME NEW b, Sound(b), NEW keep \in Candidates(b)
    PROVE  Sound(MergedInto(b, keep))
  <1> DEFINE kept == b.servers[keep]
             merged == {b.servers[s].id : s \in Candidates(b)} \ {kept.id}
             renamed == [kept EXCEPT !.endpoint = IF kept.endpoint = "none" THEN "local"
                                                  ELSE kept.endpoint]
             servers == [s \in (DOMAIN b.servers \ merged) \cup {kept.id} |->
                            IF s = kept.id THEN renamed ELSE b.servers[s]]
             nodes == [n \in DOMAIN b.nodes |->
                         IF b.nodes[n].server \in merged
                         THEN [b.nodes[n] EXCEPT !.server = kept.id]
                         ELSE b.nodes[n]]
             after == [b EXCEPT !.servers = servers, !.nodes = nodes]
  <1>1. MergedInto(b, keep) = after
    BY DEF MergedInto, Sound, IsBook
  <1>2. /\ DOMAIN after = {"servers", "nodes", "relays", "clients"}
        /\ after.servers = servers /\ after.nodes = nodes
        /\ after.relays = b.relays /\ after.clients = b.clients
    BY DEF Sound, IsBook
  <1>3. /\ b.servers \in [DOMAIN b.servers -> Server]
        /\ DOMAIN b.servers \subseteq Servers \cup {NoId}
        /\ b.nodes \in [DOMAIN b.nodes -> Node]
        /\ keep \in DOMAIN b.servers
    BY DEF Sound, IsBook, Candidates
  <1>4. /\ kept \in Server /\ kept.id \in Servers \cup {NoId}
        /\ renamed \in Server /\ renamed.id = kept.id
    BY <1>3 DEF Server
  <1>5. /\ DOMAIN servers = (DOMAIN b.servers \ merged) \cup {kept.id}
        /\ servers \in [DOMAIN servers -> Server]
        /\ DOMAIN servers \subseteq Servers \cup {NoId}
        /\ servers[kept.id] = renamed
        /\ \A s \in DOMAIN servers : s # kept.id => servers[s] = b.servers[s] /\ s \in DOMAIN b.servers
    <2> HIDE DEF merged, renamed, kept
    <2>1. QED
      BY <1>3, <1>4
  <1>6. \A s \in DOMAIN servers :
            servers[s].id = s \/ servers[s] = [id |-> NoId, endpoint |-> "none"]
    <2> HIDE DEF servers, merged, renamed, kept
    <2>1. QED
      BY <1>4, <1>5 DEF Sound, RecordsCarryIds
  <1>7. ASSUME NEW n \in DOMAIN b.nodes
        PROVE  nodes[n] \in Node /\ nodes[n].server \in DOMAIN servers
    <2> HIDE DEF servers, merged, renamed, kept
    <2>1. b.nodes[n] \in Node /\ b.nodes[n].server \in DOMAIN b.servers
      BY <1>3 DEF Sound, NodesHaveServers, Has
    <2>2. CASE b.nodes[n].server \in merged
      <3>1. nodes[n] = [b.nodes[n] EXCEPT !.server = kept.id]
        BY <2>2
      <3>2. QED
        BY <1>4, <1>5, <2>1, <3>1 DEF Node
    <2>3. CASE b.nodes[n].server \notin merged
      BY <1>5, <2>1, <2>3
    <2>4. QED
      BY <2>2, <2>3
  <1>8. DOMAIN nodes = DOMAIN b.nodes /\ nodes \in [DOMAIN nodes -> Node]
    BY <1>7
  <1> HIDE DEF kept, merged, renamed, servers, nodes, after
  <1>9. IsBook(after)
    BY <1>2, <1>5, <1>8 DEF Sound, IsBook
  <1>10. NodesHaveServers(after)
    BY <1>2, <1>7, <1>8 DEF NodesHaveServers, Has
  <1>11. RecordsCarryIds(after)
    BY <1>2, <1>6 DEF RecordsCarryIds
  <1>12. BindingsExist(after) /\ RelaysApart(after) /\ GrantlessAreBare(after)
    BY <1>2, <1>8 DEF Sound, BindingsExist, RelaysApart, GrantlessAreBare
  <1>13. QED
    BY <1>1, <1>2, <1>9, <1>10, <1>11, <1>12 DEF Sound

LEMMA EnsuredSound ==
    ASSUME NEW b, Sound(b), NEW after \in Ensured(b)
    PROVE  Sound(after)
  <1>1. CASE Candidates(b) = {}
    <2>1. PICK s \in Servers \ born : after = Seeded(b, s)
      BY <1>1 DEF Ensured
    <2>2. [id |-> s, endpoint |-> "local"] \in Server
      BY DEF Server
    <2>3. Seeded(b, s) = [b EXCEPT !.servers = Put(@, s, [id |-> s, endpoint |-> "local"])]
      BY DEF Seeded, Sound, IsBook
    <2>4. Sound([b EXCEPT !.servers = Put(@, s, [id |-> s, endpoint |-> "local"])])
      BY <2>2, PutServerSound
    <2>5. QED
      BY <2>1, <2>3, <2>4
  <1>2. CASE Candidates(b) # {}
    BY <1>2, MergedIntoSound DEF Ensured
  <1>3. QED
    BY <1>1, <1>2

-----------------------------------------------------------------------------
(* Every action keeps the invariant.                                       *)

\* A save that fails leaves on disk what was there, or the merged servers.
LEMMA KeepSound ==
    ASSUME InventoryInv, NEW merged, Sound(merged), NEW b, Sound(b), Keep(merged, b)
    PROVE  InventoryInv'
  <1>1. Ids(b) \subseteq Servers \cup Nodes \cup Relays \cup Clients
    BY DEF Ids, Sound, IsBook
  <1>2. Sound(book') /\ Sound(disk')
    BY DEF InventoryInv, Keep
  <1>3. QED
    BY <1>1, <1>2 DEF InventoryInv, Keep, Bear, Sound, IsBook, RecordsCarryIds,
       NodesHaveServers, BindingsExist, RelaysApart, GrantlessAreBare

LEMMA ResolvedSound ==
    ASSUME InventoryInv, NEW named, NEW b \in Resolved(named)
    PROVE  Sound(b)
  BY EnsuredSound DEF InventoryInv, Resolved

LEMMA ServerRequestSound ==
    ASSUME InventoryInv, ServerRequest
    PROVE  InventoryInv'
  <1>1. CASE List
    <2>1. PICK b \in Ensured(book) : book' = b /\ (disk' = b \/ disk' = disk)
                                     /\ Bear(b) /\ checked' = checked
      BY <1>1 DEF List
    <2>2. Sound(b)
      BY <2>1, EnsuredSound DEF InventoryInv
    <2>3. Ids(b) \subseteq Servers \cup Nodes \cup Relays \cup Clients
      BY <2>2 DEF Ids, Sound, IsBook
    <2>4. Sound(book') /\ Sound(disk')
      BY <2>1, <2>2 DEF InventoryInv
    <2>5. QED
      BY <2>1, <2>3, <2>4 DEF InventoryInv, Bear
  <1>2. ASSUME NEW s \in Servers, NEW e \in Endpoints,
               CreateServer(s, e) \/ UpdateServer(s, e)
        PROVE  InventoryInv'
    <2>1. [id |-> s, endpoint |-> e] \in Server /\ [id |-> s, endpoint |-> e].id = s
      BY InventoryAssumption DEF Server
    <2>2. Sound([book EXCEPT !.servers = Put(@, s, [id |-> s, endpoint |-> e])])
      BY <2>1, PutServerSound DEF InventoryInv
    <2>3. QED
      BY <1>2, <2>2, KeepSound DEF CreateServer, UpdateServer, InventoryInv
  <1>3. ASSUME NEW s \in Servers, DeleteServer(s)
        PROVE  InventoryInv'
    <2>1. Sound([book EXCEPT !.servers = Drop(@, s)])
      BY <1>3, DropServerSound DEF DeleteServer, InventoryInv
    <2>2. QED
      BY <1>3, <2>1, KeepSound DEF DeleteServer, InventoryInv
  <1>4. QED
    BY <1>1, <1>2, <1>3 DEF ServerRequest

LEMMA NodeRequestSound ==
    ASSUME InventoryInv, NodeRequest
    PROVE  InventoryInv'
  <1>1. ASSUME NEW n \in Nodes, NEW named \in Named, NEW body \in NodeBodies,
               CreateNode(n, named, body) \/ UpdateNode(n, named, body)
        PROVE  InventoryInv'
    <2>1. PICK b \in Resolved(named) : \E s \in ServersFor(named, b),
                                          on \in {TRUE, body.enabled} :
            /\ Has(b.servers, s)
            /\ Keep(b, [b EXCEPT !.nodes =
                           Put(@, n, [[body EXCEPT !.server = s] EXCEPT !.enabled = on])])
      <3>1. CASE CreateNode(n, named, body)
        BY <3>1 DEF CreateNode, NodeAccepted, NodeBodies
      <3>2. CASE UpdateNode(n, named, body)
        BY <3>2 DEF UpdateNode, NodeAccepted, NodeBodies
      <3>3. QED
        BY <1>1, <3>1, <3>2
    <2>2. Sound(b)
      BY <2>1, ResolvedSound
    <2>3. PICK s \in ServersFor(named, b), on \in {TRUE, body.enabled} :
            /\ Has(b.servers, s)
            /\ Keep(b, [b EXCEPT !.nodes =
                           Put(@, n, [[body EXCEPT !.server = s] EXCEPT !.enabled = on])])
      BY <2>1
    <2>4. s \in Servers \cup {NoId} /\ on \in BOOLEAN
      BY <2>2, <2>3, InventoryAssumption DEF Sound, IsBook, Has, NodeBodies
    <2> DEFINE node == [[body EXCEPT !.server = s] EXCEPT !.enabled = on]
    <2>5. node \in Node /\ node.server = s
      BY <2>4, InventoryAssumption DEF Node, NodeBodies
    <2> HIDE DEF node
    <2>6. Sound([b EXCEPT !.nodes = Put(@, n, node)])
      BY <2>2, <2>3, <2>5, PutNodeSound
    <2>7. Keep(b, [b EXCEPT !.nodes = Put(@, n, node)])
      BY <2>3 DEF node
    <2>8. QED
      BY <2>2, <2>6, <2>7, KeepSound
  <1>2. ASSUME NEW n \in Nodes, DeleteNode(n)
        PROVE  InventoryInv'
    <2>1. Sound([book EXCEPT !.nodes = Drop(@, n),
                     !.clients = [c \in DOMAIN @ |-> Ungranted(@[c], n, NoId)]])
      BY DropNodeSound DEF InventoryInv
    <2>2. QED
      BY <1>2, <2>1, KeepSound DEF DeleteNode, InventoryInv
  <1>3. QED
    BY <1>1, <1>2 DEF NodeRequest

LEMMA RelayRequestSound ==
    ASSUME InventoryInv, RelayRequest
    PROVE  InventoryInv'
  <1>1. ASSUME NEW r \in Relays, NEW named \in Named, NEW body \in RelayBodies,
               CreateRelay(r, named, body) \/ UpdateRelay(r, named, body)
        PROVE  InventoryInv'
    <2> DEFINE Sent(s) == Landed([body EXCEPT !.server = s])
    <2>1. PICK b \in Resolved(named) : \E s \in ServersFor(named, b), self \in {r, NoId} :
                                       \E on \in {TRUE, Sent(s).enabled} :
            /\ RelayAccepted(b, Sent(s), self)
            /\ Keep(b, [b EXCEPT !.relays = Put(@, r, [Sent(s) EXCEPT !.enabled = on])])
      <3>1. CASE CreateRelay(r, named, body)
        BY <3>1 DEF CreateRelay
      <3>2. CASE UpdateRelay(r, named, body)
        <4>1. PICK b \in Resolved(named) : \E s \in ServersFor(named, b) :
                /\ RelayAccepted(b, Sent(s), r)
                /\ Keep(b, [b EXCEPT !.relays = Put(@, r, Sent(s))])
          BY <3>2 DEF UpdateRelay
        <4>2. \A s : [Sent(s) EXCEPT !.enabled = Sent(s).enabled] = Sent(s)
          BY DEF Landed, RelayBodies
        <4>3. QED
          BY <4>1, <4>2
      <3>3. QED
        BY <1>1, <3>1, <3>2
    <2>2. Sound(b)
      BY <2>1, ResolvedSound
    <2>3. PICK s \in ServersFor(named, b), self \in {r, NoId} :
                                       \E on \in {TRUE, Sent(s).enabled} :
            /\ RelayAccepted(b, Sent(s), self)
            /\ Keep(b, [b EXCEPT !.relays = Put(@, r, [Sent(s) EXCEPT !.enabled = on])])
      BY <2>1
    <2> DEFINE sent == Sent(s)
    <2>4. PICK on \in {TRUE, sent.enabled} :
            /\ RelayAccepted(b, sent, self)
            /\ Keep(b, [b EXCEPT !.relays = Put(@, r, [sent EXCEPT !.enabled = on])])
      BY <2>3
    <2> DEFINE relay == [sent EXCEPT !.enabled = on]
    <2>5. sent \in Relay
      <3>1. s \in Servers \cup {NoId}
        BY <2>2, <2>3 DEF ServersFor, Named, Sound, IsBook
      <3>2. QED
        BY <3>1, InventoryAssumption DEF Landed, Relay, RelayBodies
    <2>6. on \in BOOLEAN
      BY <2>5, <2>4 DEF Relay
    <2>7. Keep(b, [b EXCEPT !.relays = Put(@, r, relay)])
      BY <2>4
    <2>8. ~PortTaken(Drop(b.relays, self), sent)
      BY <2>4 DEF RelayAccepted
    <2> HIDE DEF sent
    <2>9. relay \in Relay /\ relay.server = sent.server /\ relay.port = sent.port
      BY <2>5, <2>6 DEF Relay
    <2> HIDE DEF relay
    <2>10. ~PortTaken(Drop(b.relays, self), relay)
      BY <2>8, <2>9 DEF PortTaken
    <2>11. Sound([b EXCEPT !.relays = Put(@, r, relay)])
      BY <2>2, <2>9, <2>10, PutRelaySound
    <2>12. QED
      BY <2>2, <2>7, <2>11, KeepSound
  <1>2. ASSUME NEW r \in Relays, DeleteRelay(r)
        PROVE  InventoryInv'
    <2>1. Sound([book EXCEPT !.relays = Drop(@, r),
                     !.clients = [c \in DOMAIN @ |-> Ungranted(@[c], NoId, r)]])
      BY DropRelaySound DEF InventoryInv
    <2>2. QED
      BY <1>2, <2>1, KeepSound DEF DeleteRelay, InventoryInv
  <1>3. QED
    BY <1>1, <1>2 DEF RelayRequest

LEMMA ClientRequestSound ==
    ASSUME InventoryInv, ClientRequest
    PROVE  InventoryInv'
  <1>1. ASSUME NEW c \in Clients, NEW body \in ClientBodies(book),
               ClientAccepted(book, body), NEW on \in BOOLEAN
        PROVE  Sound([book EXCEPT !.clients =
                          Put(@, c, [Submitted(body) EXCEPT !.enabled = on])])
    <2> DEFINE client == [Submitted(body) EXCEPT !.enabled = on]
    <2>1. DOMAIN book.nodes \subseteq Nodes /\ DOMAIN book.relays \subseteq Relays
      BY DEF InventoryInv, Sound, IsBook
    <2>2. /\ client \in Client
          /\ client.nodes = body.nodes /\ client.relays = body.relays
          /\ client.nodes = {} /\ client.relays = {} => client.bare
      BY <2>1 DEF Submitted, ClientBodies, Client
    <2> HIDE DEF client
    <2>3. /\ client.nodes \subseteq DOMAIN book.nodes
          /\ client.relays \subseteq DOMAIN book.relays
          /\ Cardinality(client.relays) <= 1
      BY <1>1, <2>2 DEF ClientAccepted
    <2>4. Sound([book EXCEPT !.clients = Put(@, c, client)])
      BY <2>2, <2>3, PutClientSound DEF InventoryInv
    <2>5. QED
      BY <2>4 DEF client
  <1>2. ASSUME NEW c \in Clients, NEW body \in ClientBodies(book), CreateClient(c, body)
        PROVE  InventoryInv'
    <2>1. Sound([book EXCEPT !.clients = Put(@, c, [Submitted(body) EXCEPT !.enabled = TRUE])])
      BY <1>1, <1>2 DEF CreateClient
    <2>2. QED
      BY <1>2, <2>1, KeepSound DEF CreateClient, InventoryInv
  <1>3. ASSUME NEW c \in Clients, NEW body \in ClientBodies(book), UpdateClient(c, body)
        PROVE  InventoryInv'
    <2>1. PICK renewed \in BOOLEAN :
            book' = [book EXCEPT !.clients =
                        Put(@, c, [Submitted(body) EXCEPT !.enabled = @ \/ renewed])]
      BY <1>3 DEF UpdateClient
    <2>2. PICK on \in BOOLEAN :
            book' = [book EXCEPT !.clients =
                        Put(@, c, [Submitted(body) EXCEPT !.enabled = on])]
      BY <2>1, InventoryAssumption DEF Submitted, ClientBodies
    <2>3. Sound(book')
      BY <1>1, <1>3, <2>2 DEF UpdateClient
    <2>4. QED
      BY <1>3, <2>3 DEF InventoryInv, UpdateClient
  <1>4. ASSUME NEW c \in Clients, DeleteClient(c)
        PROVE  InventoryInv'
    <2>1. Sound([book EXCEPT !.clients = Drop(@, c)])
      BY DropClientSound DEF InventoryInv
    <2>2. QED
      BY <1>4, <2>1, KeepSound DEF DeleteClient, InventoryInv
  <1>5. ASSUME NEW c \in Clients, NEW r \in Relays, NEW named \in Named, NEW port \in Ports,
               CreateClientWithRelay(c, r, named, port)
        PROVE  InventoryInv'
    <2> DEFINE relay(s) == [server |-> s, port |-> port, mode |-> "manual_socks5",
                            landing |-> NoId, enabled |-> TRUE]
               client == [enabled |-> TRUE, nodes |-> {}, relays |-> {r}, bare |-> FALSE]
    <2>1. PICK b \in Resolved(named) : \E s \in ServersFor(named, b) :
            /\ RelayAccepted(b, relay(s), NoId)
            /\ Keep(b, [b EXCEPT !.relays = Put(@, r, relay(s)),
                                 !.clients = Put(@, c, client)])
      BY <1>5 DEF CreateClientWithRelay
    <2>2. Sound(b)
      BY <2>1, ResolvedSound
    <2>3. PICK s \in ServersFor(named, b) :
            /\ RelayAccepted(b, relay(s), NoId)
            /\ Keep(b, [b EXCEPT !.relays = Put(@, r, relay(s)),
                                 !.clients = Put(@, c, client)])
      BY <2>1
    <2> DEFINE routed == [b EXCEPT !.relays = Put(@, r, relay(s))]
    <2>4. relay(s) \in Relay
      BY <2>2, <2>3 DEF ServersFor, Named, Sound, IsBook, Relay
    <2>5. Sound(routed)
      BY <2>2, <2>3, <2>4, PutRelaySound DEF RelayAccepted
    <2>6. r \in DOMAIN routed.relays /\ client \in Client
      BY <2>2 DEF Sound, IsBook, Put, Client
    <2>7. Cardinality({r}) <= 1
      BY FS_Singleton
    <2>8. Sound([routed EXCEPT !.clients = Put(@, c, client)])
      <3> HIDE DEF routed
      <3>1. /\ client.nodes \subseteq DOMAIN routed.nodes
            /\ client.relays \subseteq DOMAIN routed.relays
            /\ Cardinality(client.relays) <= 1
            /\ client.relays # {}
        BY <2>6, <2>7
      <3> HIDE DEF client
      <3>2. QED
        BY <2>5, <2>6, <3>1, PutClientSound
    <2>9. [routed EXCEPT !.clients = Put(@, c, client)]
            = [b EXCEPT !.relays = Put(@, r, relay(s)), !.clients = Put(@, c, client)]
      BY <2>2 DEF Sound, IsBook
    <2>10. QED
      BY <2>2, <2>3, <2>8, <2>9, KeepSound
  <1>6. QED
    BY <1>2, <1>3, <1>4, <1>5 DEF ClientRequest

\* Writing back a record that is there, or the zero record.
LEMMA WrittenSound ==
    ASSUME NEW b, Sound(b), NEW due, NEW record \in Server,
           NEW after, after = Written(Swept(b, due), record)
    PROVE  Sound(after)
  <1>1. Sound(Swept(b, due))
    BY SweptSound
  <1>2. record.id \in Servers \cup {NoId}
    BY DEF Server
  <1>3. QED
    BY <1>1, <1>2, PutServerSound DEF Written

LEMMA FoundFacts ==
    ASSUME InventoryInv, NEW s \in Servers
    PROVE  /\ Found(s) \in Server
           /\ Found(s).id = s \/ Found(s) = [id |-> NoId, endpoint |-> "none"]
  <1>1. [id |-> NoId, endpoint |-> "none"] \in Server
    BY DEF Server
  <1>2. QED
    BY <1>1 DEF Found, Has, InventoryInv, Sound, IsBook, RecordsCarryIds

LEMMA AgentRequestSound ==
    ASSUME InventoryInv, AgentRequest
    PROVE  InventoryInv'
  <1>1. PICK s \in Servers : AgentSync(s) \/ TokenChecked(s) \/ Heartbeat(s) \/ HeartbeatSaveFails(s)
    BY DEF AgentRequest
  <1>2. CASE AgentSync(s)
    <2>1. PICK due \in SUBSET DOMAIN book.clients :
            Keep(book, Written(Swept(book, due), book.servers[s]))
      BY <1>2 DEF AgentSync
    <2>2. book.servers[s] \in Server
      BY <1>2 DEF AgentSync, Has, InventoryInv, Sound, IsBook
    <2>3. Sound(Written(Swept(book, due), book.servers[s]))
      BY <2>2, WrittenSound DEF InventoryInv
    <2>4. QED
      BY <2>1, <2>3, KeepSound DEF InventoryInv
  <1>3. CASE TokenChecked(s)
    BY <1>3 DEF TokenChecked, InventoryInv
  <1>4. CASE Heartbeat(s)
    <2>1. PICK due \in SUBSET DOMAIN book.clients :
            book' = Written(Swept(book, due), Found(s))
      BY <1>4 DEF Heartbeat
    <2>2. Sound(book')
      BY <2>1, FoundFacts, WrittenSound DEF InventoryInv
    <2>3. QED
      BY <1>4, <2>2 DEF Heartbeat, InventoryInv
  <1>5. CASE HeartbeatSaveFails(s)
    <2>1. Found(s).id \in Servers \cup {NoId}
      BY FoundFacts DEF Server
    <2>2. Sound(Written(book, Found(s)))
      BY <2>1, FoundFacts, PutServerSound DEF InventoryInv, Written
    <2>3. Sound(book')
      BY <1>5, <2>2, FoundFacts, PutServerSound DEF HeartbeatSaveFails
    <2>4. QED
      BY <1>5, <2>3 DEF HeartbeatSaveFails, InventoryInv
  <1>6. QED
    BY <1>1, <1>2, <1>3, <1>4, <1>5

LEMMA RestartSound ==
    ASSUME InventoryInv, RestartPanel
    PROVE  InventoryInv'
  <1>1. PICK b \in Ensured(disk) : book' = b /\ disk' = b /\ Bear(b)
    BY DEF RestartPanel
  <1>2. Sound(b)
    BY <1>1, EnsuredSound DEF InventoryInv
  <1>3. Ids(b) \subseteq Servers \cup Nodes \cup Relays \cup Clients
    BY <1>2 DEF Ids, Sound, IsBook
  <1>4. QED
    BY <1>1, <1>2, <1>3 DEF InventoryInv, Bear, RestartPanel

LEMMA InitSound == Init => InventoryInv
  <1>1. SUFFICES ASSUME Init PROVE InventoryInv
    OBVIOUS
  <1>2. PICK s \in Servers :
          book = [servers |-> Put(<<>>, s, [id |-> s, endpoint |-> "local"]),
                  nodes |-> <<>>, relays |-> <<>>, clients |-> <<>>]
    BY <1>1 DEF Init
  <1>3. DOMAIN <<>> = {}
    OBVIOUS
  <1>4. /\ DOMAIN book = {"servers", "nodes", "relays", "clients"}
        /\ DOMAIN book.servers = {s}
        /\ book.servers \in [DOMAIN book.servers -> Server]
        /\ book.servers[s].id = s
        /\ DOMAIN book.nodes = {} /\ DOMAIN book.relays = {} /\ DOMAIN book.clients = {}
        /\ book.nodes \in [DOMAIN book.nodes -> Node]
        /\ book.relays \in [DOMAIN book.relays -> Relay]
        /\ book.clients \in [DOMAIN book.clients -> Client]
    BY <1>2, <1>3 DEF Put, Server
  <1>5. Sound(book)
    BY <1>4, FS_EmptySet DEF Sound, IsBook, RecordsCarryIds, NodesHaveServers,
       BindingsExist, RelaysApart, GrantlessAreBare
  <1>6. QED
    BY <1>1, <1>4, <1>5 DEF Init, Ids, InventoryInv

-----------------------------------------------------------------------------
(* In every reachable state, memory and disk hold sound books, whatever    *)
(* saves failed and wherever the panel was restarted.  (every handler of   *)
(* servers.go, nodes.go, relays.go and clients.go, heartbeats, store.Open) *)
THEOREM InventoryCorrect == Spec => []InventoryInv
  <1>1. InventoryInv /\ [Next]_vars => InventoryInv'
    <2>1. SUFFICES ASSUME InventoryInv, [Next]_vars PROVE InventoryInv'
      OBVIOUS
    <2>2. CASE Next
      BY <2>1, <2>2, ServerRequestSound, NodeRequestSound, RelayRequestSound,
         ClientRequestSound, AgentRequestSound, RestartSound DEF Next
    <2>3. CASE UNCHANGED vars
      BY <2>1, <2>3 DEF vars, InventoryInv
    <2>4. QED
      BY <2>1, <2>2, <2>3
  <1>2. QED
    BY InitSound, <1>1, PTL DEF Spec

(* Memory and disk always have the shape of the store: every id names a    *)
(* record of its kind, and no record is out of its range.                  *)
THEOREM InventoryTypes == Spec => []TypeOK
  <1>1. InventoryInv => TypeOK
    BY DEF InventoryInv, Sound, TypeOK
  <1>2. QED
    BY <1>1, InventoryCorrect, PTL

(* A node's server and a client's nodes and relay always exist, in memory  *)
(* and on disk.  (nodeByID, relayByID, serverByID, validateClientLocked,   *)
(* ensureSingleModeLocalServer)                                            *)
THEOREM BooksSound == Spec => []BooksAreSound
  <1>1. InventoryInv => BooksAreSound
    BY DEF InventoryInv, Sound, BooksAreSound
  <1>2. QED
    BY <1>1, InventoryCorrect, PTL

(* A client whose last grant was deleted is disabled.  (nodeByID,          *)
(* relayByID)                                                              *)
THEOREM LastGrant == Spec => []LastGrantDisables
  <1>1. InventoryInv => LastGrantDisables
    BY DEF InventoryInv, Sound, GrantlessAreBare, LastGrantDisables
  <1>2. QED
    BY <1>1, InventoryCorrect, PTL

-----------------------------------------------------------------------------
(* What the readers of a sound book see.                                   *)

(* The nodes of a subscription are the nodes that serve it, but for those  *)
(* on the server without an id.  (subscriptionSnapshot,                    *)
(* GenerateServerConfig)                                                   *)
THEOREM NodeLinkService == Spec => []NodeLinksServed
  <1>1. ASSUME InventoryInv, NEW c \in DOMAIN book.clients
        PROVE  Served(book, c) \subseteq NodeLinks(book, c) \cup RelayLinks(book, c)
    BY DEF Served, AcceptedAt, NodeInbounds, RelayInbounds, NodeLinks, RelayLinks
  <1>2. ASSUME InventoryInv, NEW c \in DOMAIN book.clients,
               NEW n \in NodeLinks(book, c), book.nodes[n].server # NoId
        PROVE  n \in Served(book, c)
    <2> DEFINE s == book.nodes[n].server
    <2>1. /\ n \in DOMAIN book.nodes /\ n \in book.clients[c].nodes
          /\ book.nodes[n].enabled /\ book.nodes[n].kind # "socks"
          /\ book.clients[c].enabled
      BY <1>2 DEF NodeLinks
    <2>2. s \in Agents(book)
      BY <1>2, <2>1 DEF InventoryInv, Sound, NodesHaveServers, Has, Agents
    <2>3. n \in AcceptedAt(book, s, c)
      BY <2>1 DEF AcceptedAt, NodeInbounds
    <2>4. QED
      BY <2>2, <2>3 DEF Served
  <1>3. InventoryInv => NodeLinksServed
    BY <1>1, <1>2 DEF NodeLinksServed
  <1>4. QED
    BY <1>3, InventoryCorrect, PTL

(* A relay that a client is offered and no server accepts it at is named   *)
(* on the system page, for its server or for its landing: so of every book.*)
(* (buildSystemChecks, socks5RouteBindingProblems)                         *)
THEOREM DeadRelays == Spec => []DeadRelaysReported
  <1>1. ASSUME NEW c \in DOMAIN book.clients, NEW r \in RelayLinks(book, c),
               book.relays[r].server # NoId, r \notin ReportedRelays(book)
        PROVE  r \in Served(book, c)
    <2> DEFINE s == book.relays[r].server
    <2>1. /\ r \in DOMAIN book.relays /\ r \in book.clients[c].relays
          /\ book.relays[r].enabled /\ book.relays[r].mode # "tcp_forward"
          /\ book.clients[c].enabled
      BY DEF RelayLinks
    <2>2. s \in Agents(book) /\ Lands(book, book.relays[r])
      BY <1>1, <2>1 DEF ReportedRelays, RelaysOffline, BindingProblems, EnabledRelays,
         Agents, Has
    <2>3. r \in AcceptedAt(book, s, c)
      BY <2>1, <2>2 DEF AcceptedAt, RelayInbounds
    <2>4. QED
      BY <2>2, <2>3 DEF Served
  <1>2. DeadRelaysReported
    BY <1>1 DEF DeadRelaysReported
  <1>3. QED
    BY <1>2, PTL

(* Two relays of a server never share a port; any other pair of inbounds   *)
(* of a server on one port is warned about.  (normalizeRelayLocked,        *)
(* relays, buildSystemChecks)                                              *)
THEOREM Clashes == Spec => []ClashesReported
  <1>1. ASSUME InventoryInv, NEW s, NEW r \in RelayInbounds(book, s),
               NEW q \in RelayInbounds(book, s), r # q
        PROVE  book.relays[r].port # book.relays[q].port
    BY <1>1 DEF InventoryInv, Sound, RelaysApart, RelayInbounds
  <1>2. ASSUME ~PortsConflict(book), NEW s, NEW n \in NodeInbounds(book, s)
        PROVE  /\ \A m \in NodeInbounds(book, s) :
                      n # m => book.nodes[n].port # book.nodes[m].port
               /\ \A r \in RelayInbounds(book, s) :
                      book.nodes[n].port # book.relays[r].port
    BY <1>2 DEF PortsConflict, NodeInbounds, RelayInbounds, EnabledNodes, EnabledRelays,
       TakenByNode, TakenByRelay
  <1>3. InventoryInv => ClashesReported
    BY <1>1, <1>2 DEF ClashesReported
  <1>4. QED
    BY <1>3, InventoryCorrect, PTL

\* The candidates have become one: only the zero record carries another's id,
\* and it is not local.
LEMMA OneLocalLeft ==
    ASSUME NEW b, Sound(b), NEW after \in Ensured(b)
    PROVE  \E x : {s \in DOMAIN after.servers : after.servers[s].endpoint = "local"}
                    \subseteq {x}
  <1>1. CASE Candidates(b) = {}
    <2>1. PICK s \in Servers \ born : after = Seeded(b, s)
      BY <1>1 DEF Ensured
    <2>2. after.servers = Put(b.servers, s, [id |-> s, endpoint |-> "local"])
      BY <2>1 DEF Seeded, Sound, IsBook
    <2>3. \A x \in DOMAIN b.servers : b.servers[x].endpoint # "local"
      BY <1>1 DEF Candidates
    <2>4. QED
      BY <2>2, <2>3 DEF Put
  <1>2. CASE Candidates(b) # {}
    <2>1. PICK keep \in Candidates(b) : after = MergedInto(b, keep)
      BY <1>2 DEF Ensured
    <2> DEFINE kept == b.servers[keep]
               merged == {b.servers[s].id : s \in Candidates(b)} \ {kept.id}
    <2>2. /\ DOMAIN after.servers = (DOMAIN b.servers \ merged) \cup {kept.id}
          /\ \A s \in DOMAIN after.servers : s # kept.id => after.servers[s] = b.servers[s]
      BY <2>1 DEF MergedInto, Sound, IsBook
    <2>3. ASSUME NEW s \in DOMAIN after.servers, after.servers[s].endpoint = "local"
          PROVE  s = kept.id
      <3>1. SUFFICES ASSUME s # kept.id PROVE FALSE
        OBVIOUS
      <3>2. s \in DOMAIN b.servers /\ s \notin merged /\ b.servers[s].endpoint = "local"
        BY <2>2, <2>3, <3>1
      <3>3. b.servers[s].id = s /\ s \in Candidates(b)
        BY <3>2 DEF Sound, RecordsCarryIds, Candidates
      <3>4. QED
        BY <3>1, <3>2, <3>3
    <2>4. QED
      BY <2>3
  <1>3. QED
    BY <1>1, <1>2

(* After the panel listed its servers, one record at most stands for its   *)
(* own machine, whatever records there were before.                        *)
(* (ensureSingleModeLocalServer)                                           *)
THEOREM Listing == Spec => ListingMerges
  <1>1. ASSUME InventoryInv, List
        PROVE  Cardinality({s \in DOMAIN book'.servers :
                                book'.servers[s].endpoint = "local"}) <= 1
    <2> DEFINE locals == {s \in DOMAIN book'.servers : book'.servers[s].endpoint = "local"}
    <2>1. PICK x : locals \subseteq {x}
      BY <1>1, OneLocalLeft DEF List, InventoryInv
    <2>2. locals = {} \/ locals = {x}
      BY <2>1
    <2> HIDE DEF locals
    <2>3. Cardinality(locals) <= 1
      BY <2>2, FS_EmptySet, FS_Singleton
    <2>4. QED
      BY <2>3 DEF locals
  <1>2. QED
    BY <1>1, InventoryCorrect, PTL DEF ListingMerges

-----------------------------------------------------------------------------
(* The exit of a client stands.                                            *)

\* Relays and clients, in memory or on disk, were given out.
Known(b) == DOMAIN b.relays \subseteq born /\ DOMAIN b.clients \subseteq born

KnownInv == Known(book) /\ Known(disk)

\* A merge is of servers and nodes.
LEMMA EnsuredKeeps ==
    ASSUME NEW b, Sound(b), NEW after \in Ensured(b)
    PROVE  after.relays = b.relays /\ after.clients = b.clients
  BY DEF Ensured, Seeded, MergedInto, Sound, IsBook

LEMMA ResolvedKeeps ==
    ASSUME InventoryInv, NEW named, NEW b \in Resolved(named)
    PROVE  b.relays = book.relays /\ b.clients = book.clients
  BY EnsuredKeeps DEF InventoryInv, Resolved

LEMMA KeepKnown ==
    ASSUME KnownInv, NEW merged, NEW b, Keep(merged, b),
           merged.relays = book.relays, merged.clients = book.clients
    PROVE  KnownInv'
  <1>1. Known(book)' /\ Known(merged)'
    BY DEF Keep, Bear, Ids, KnownInv, Known
  <1>2. Known(disk)'
    BY <1>1 DEF Keep, Bear, KnownInv, Known
  <1>3. QED
    BY <1>1, <1>2 DEF KnownInv


\* The sweep disables clients and does nothing else to them.
LEMMA SweptKeeps ==
    ASSUME NEW b, Sound(b), NEW due, NEW record,
           NEW after, after = Written(Swept(b, due), record)
    PROVE  /\ after.relays = b.relays /\ DOMAIN after.clients = DOMAIN b.clients
           /\ \A c \in DOMAIN b.clients : after.clients[c].relays = b.clients[c].relays
  <1>1. b.clients \in [DOMAIN b.clients -> Client]
    BY DEF Sound, IsBook
  <1>2. \A c \in DOMAIN b.clients :
          [b.clients[c] EXCEPT !.enabled = FALSE].relays = b.clients[c].relays
    BY <1>1 DEF Client
  <1>3. QED
    BY <1>2 DEF Written, Swept, Sound, IsBook

LEMMA KnownStep ==
    ASSUME InventoryInv, KnownInv, Next
    PROVE  KnownInv'
  <1>1. CASE ServerRequest
    <2>1. CASE List
      <3>1. PICK b \in Ensured(book) : book' = b /\ (disk' = b \/ disk' = disk) /\ Bear(b)
        BY <2>1 DEF List
      <3>2. Known(book)' /\ Known(disk)'
        BY <3>1 DEF Bear, Ids, KnownInv, Known
      <3>3. QED
        BY <3>2 DEF KnownInv
    <2>2. ASSUME NEW s \in Servers, NEW e \in Endpoints,
                 CreateServer(s, e) \/ UpdateServer(s, e)
          PROVE  KnownInv'
      BY <2>2, KeepKnown DEF CreateServer, UpdateServer
    <2>3. ASSUME NEW s \in Servers, DeleteServer(s)
          PROVE  KnownInv'
      BY <2>3, KeepKnown DEF DeleteServer
    <2>4. QED
      BY <1>1, <2>1, <2>2, <2>3 DEF ServerRequest
  <1>2. CASE NodeRequest
    <2>1. ASSUME NEW n \in Nodes, NEW named \in Named, NEW body \in NodeBodies,
                 CreateNode(n, named, body) \/ UpdateNode(n, named, body)
          PROVE  KnownInv'
      <3>1. PICK b, node : b \in Resolved(named) /\ Keep(b, [b EXCEPT !.nodes = Put(@, n, node)])
        BY <2>1 DEF CreateNode, UpdateNode
      <3>2. QED
        BY <3>1, KeepKnown, ResolvedKeeps
    <2>2. ASSUME NEW n \in Nodes, DeleteNode(n)
          PROVE  KnownInv'
      BY <2>2, KeepKnown DEF DeleteNode
    <2>3. QED
      BY <1>2, <2>1, <2>2 DEF NodeRequest
  <1>3. CASE RelayRequest
    <2>1. ASSUME NEW r \in Relays, NEW named \in Named, NEW body \in RelayBodies,
                 CreateRelay(r, named, body) \/ UpdateRelay(r, named, body)
          PROVE  KnownInv'
      <3>1. PICK b, relay : b \in Resolved(named) /\ Keep(b, [b EXCEPT !.relays = Put(@, r, relay)])
        BY <2>1 DEF CreateRelay, UpdateRelay
      <3>2. QED
        BY <3>1, KeepKnown, ResolvedKeeps
    <2>2. ASSUME NEW r \in Relays, DeleteRelay(r)
          PROVE  KnownInv'
      BY <2>2, KeepKnown DEF DeleteRelay
    <2>3. QED
      BY <1>3, <2>1, <2>2 DEF RelayRequest
  <1>4. CASE ClientRequest
    <2>1. ASSUME NEW c \in Clients, NEW body \in ClientBodies(book), CreateClient(c, body)
          PROVE  KnownInv'
      BY <2>1, KeepKnown DEF CreateClient
    <2>2. ASSUME NEW c \in Clients, NEW body \in ClientBodies(book), UpdateClient(c, body)
          PROVE  KnownInv'
      <3>1. PICK client : book' = [book EXCEPT !.clients = Put(@, c, client)]
        BY <2>2 DEF UpdateClient
      <3>2. /\ DOMAIN book'.clients = DOMAIN book.clients /\ book'.relays = book.relays
            /\ disk' = book' /\ born' = born
        BY <2>2, <3>1 DEF UpdateClient, Has, Put, InventoryInv, Sound, IsBook
      <3>3. QED
        BY <3>2 DEF KnownInv, Known
    <2>3. ASSUME NEW c \in Clients, DeleteClient(c)
          PROVE  KnownInv'
      BY <2>3, KeepKnown DEF DeleteClient
    <2>4. ASSUME NEW c \in Clients, NEW r \in Relays, NEW named \in Named, NEW port \in Ports,
                 CreateClientWithRelay(c, r, named, port)
          PROVE  KnownInv'
      <3>1. PICK b, relay, client :
              /\ b \in Resolved(named)
              /\ Keep(b, [b EXCEPT !.relays = Put(@, r, relay), !.clients = Put(@, c, client)])
        BY <2>4 DEF CreateClientWithRelay
      <3>2. QED
        BY <3>1, KeepKnown, ResolvedKeeps
    <2>5. QED
      BY <1>4, <2>1, <2>2, <2>3, <2>4 DEF ClientRequest
  <1>5. CASE AgentRequest
    <2>1. PICK s \in Servers :
            AgentSync(s) \/ TokenChecked(s) \/ Heartbeat(s) \/ HeartbeatSaveFails(s)
      BY <1>5 DEF AgentRequest
    <2>2. CASE AgentSync(s)
      BY <2>2, KeepKnown DEF AgentSync
    <2>3. CASE ~AgentSync(s)
      <3>1. /\ DOMAIN book'.clients = DOMAIN book.clients /\ book'.relays = book.relays
            /\ disk' \in {book', disk} /\ born' = born
        <4>1. CASE TokenChecked(s)
          BY <4>1 DEF TokenChecked
        <4>2. CASE Heartbeat(s)
          <5>1. PICK due \in SUBSET DOMAIN book.clients :
                  book' = Written(Swept(book, due), Found(s))
            BY <4>2 DEF Heartbeat
          <5>2. /\ DOMAIN book'.clients = DOMAIN book.clients
                /\ book'.relays = book.relays
            BY <5>1, SweptKeeps DEF InventoryInv
          <5>3. QED
            BY <4>2, <5>2 DEF Heartbeat
        <4>3. CASE HeartbeatSaveFails(s)
          BY <4>3 DEF HeartbeatSaveFails, Written, InventoryInv, Sound, IsBook
        <4>4. QED
          BY <2>1, <2>3, <4>1, <4>2, <4>3
      <3>2. QED
        BY <3>1 DEF KnownInv, Known
    <2>4. QED
      BY <2>2, <2>3
  <1>6. CASE RestartPanel
    <2>1. PICK b \in Ensured(disk) : book' = b /\ disk' = b /\ Bear(b)
      BY <1>6 DEF RestartPanel
    <2>2. QED
      BY <2>1 DEF Bear, Ids, KnownInv, Known
  <1>7. QED
    BY <1>1, <1>2, <1>3, <1>4, <1>5, <1>6 DEF Next


LEMMA ExitsKnown == Spec => [](InventoryInv /\ KnownInv)
  <1>1. Init => KnownInv
    <2>1. DOMAIN <<>> = {}
      OBVIOUS
    <2>2. QED
      BY <2>1 DEF Init, KnownInv, Known
  <1>2. InventoryInv /\ KnownInv /\ [Next]_vars => KnownInv'
    <2>1. ASSUME KnownInv, UNCHANGED vars PROVE KnownInv'
      BY <2>1 DEF vars, KnownInv, Known
    <2>2. QED
      BY <2>1, KnownStep
  <1>3. QED
    BY <1>1, <1>2, InventoryCorrect, PTL DEF Spec

\* What accepts a client at a relay.
LEMMA ServedFacts ==
    ASSUME InventoryInv, NEW c \in DOMAIN book.clients,
           NEW r \in Served(book, c) \cap Relays
    PROVE  /\ book.clients[c].enabled /\ r \in book.clients[c].relays
           /\ r \in DOMAIN book.relays /\ book.relays[r].server # NoId
           /\ book.relays[r].enabled /\ book.relays[r].mode # "tcp_forward"
  <1>1. r \notin Nodes /\ DOMAIN book.nodes \subseteq Nodes
    BY InventoryAssumption DEF InventoryInv, Sound, IsBook
  <1>2. PICK s \in Agents(book) : r \in AcceptedAt(book, s, c)
    BY DEF Served
  <1>3. QED
    BY <1>1, <1>2 DEF AcceptedAt, NodeInbounds, RelayInbounds, Agents

\* A relay that is left alone still accepts a client that is left bound to it,
\* or the system page names it.
LEMMA LeftAlone ==
    ASSUME InventoryInv, NEW c \in DOMAIN book.clients,
           NEW r \in Served(book, c) \cap Relays,
           book'.clients[c].enabled, r \in book'.clients[c].relays,
           r \in DOMAIN book'.relays, book'.relays[r] = book.relays[r]
    PROVE  \/ r \in Served(book', c) /\ ExitSame(r)
           \/ r \in RelayLinks(book', c) \cap ReportedRelays(book')
  <1> DEFINE s == book.relays[r].server
  <1>1. /\ s # NoId /\ book.relays[r].enabled /\ book.relays[r].mode # "tcp_forward"
    BY ServedFacts
  <1>2. r \in RelayLinks(book', c)
    BY <1>1 DEF RelayLinks
  <1>3. CASE ~Has(book'.servers, s) \/ ~Lands(book', book'.relays[r])
    BY <1>1, <1>2, <1>3 DEF ReportedRelays, RelaysOffline, BindingProblems, EnabledRelays
  <1>4. CASE Has(book'.servers, s) /\ Lands(book', book'.relays[r])
    <2>1. s \in Agents(book') /\ r \in AcceptedAt(book', s, c)
      BY <1>1, <1>4 DEF AcceptedAt, RelayInbounds, Agents, Has
    <2>2. QED
      BY <2>1 DEF Served, ExitSame
  <1>5. QED
    BY <1>3, <1>4


Stands(c, r) ==
    \/ ExitLost(c, r)
    \/ r \in Served(book', c) /\ ExitSame(r)
    \/ r \in RelayLinks(book', c) \cap ReportedRelays(book')
    \/ ExitEdited(c, r)

\* No relay and no client is written to, or only others.
LEMMA OthersWritten ==
    ASSUME InventoryInv, NEW c \in DOMAIN book.clients,
           NEW r \in Served(book, c) \cap Relays,
           r \in DOMAIN book'.relays, book'.relays[r] = book.relays[r],
           book'.clients[c] = book.clients[c]
    PROVE  Stands(c, r)
  BY ServedFacts, LeftAlone DEF Stands

\* A client that loses another grant keeps this one.
LEMMA OtherUngranted ==
    ASSUME InventoryInv, NEW c \in DOMAIN book.clients,
           NEW r \in Served(book, c) \cap Relays, NEW n, NEW q, q # r,
           r \in DOMAIN book'.relays, book'.relays[r] = book.relays[r],
           book'.clients[c] = Ungranted(book.clients[c], n, q)
    PROVE  Stands(c, r)
  <1>1. book.clients[c] \in Client
    BY DEF InventoryInv, Sound, IsBook
  <1>2. book.clients[c].enabled /\ r \in book.clients[c].relays
    BY ServedFacts
  <1>3. book'.clients[c].enabled /\ r \in book'.clients[c].relays
    BY <1>1, <1>2 DEF Ungranted, Client
  <1>4. QED
    BY <1>3, LeftAlone DEF Stands

LEMMA ServerRequestStands ==
    ASSUME InventoryInv, ServerRequest, NEW c \in DOMAIN book.clients,
           NEW r \in Served(book, c) \cap Relays
    PROVE  Stands(c, r)
  <1>1. book'.relays = book.relays /\ book'.clients = book.clients
    <2>1. CASE List
      BY <2>1, EnsuredKeeps DEF List, InventoryInv
    <2>2. CASE ~List
      BY <2>2 DEF ServerRequest, CreateServer, UpdateServer, DeleteServer, Keep,
         InventoryInv, Sound, IsBook
    <2>3. QED
      BY <2>1, <2>2
  <1>2. QED
    BY <1>1, ServedFacts, OthersWritten

LEMMA NodeRequestStands ==
    ASSUME InventoryInv, NodeRequest, NEW c \in DOMAIN book.clients,
           NEW r \in Served(book, c) \cap Relays
    PROVE  Stands(c, r)
  <1>1. r \in DOMAIN book.relays /\ r # NoId
    BY ServedFacts, InventoryAssumption
  <1>2. ASSUME NEW n \in Nodes, NEW named \in Named, NEW body \in NodeBodies,
               CreateNode(n, named, body) \/ UpdateNode(n, named, body)
        PROVE  Stands(c, r)
    <2>1. PICK b, node : b \in Resolved(named) /\ Keep(b, [b EXCEPT !.nodes = Put(@, n, node)])
      BY <1>2 DEF CreateNode, UpdateNode
    <2>2. book'.relays = book.relays /\ book'.clients = book.clients
      BY <2>1, ResolvedKeeps DEF Keep
    <2>3. QED
      BY <1>1, <2>2, OthersWritten
  <1>3. ASSUME NEW n \in Nodes, DeleteNode(n)
        PROVE  Stands(c, r)
    <2>1. /\ book'.relays = book.relays
          /\ book'.clients[c] = Ungranted(book.clients[c], n, NoId)
      BY <1>3 DEF DeleteNode, Keep, InventoryInv, Sound, IsBook
    <2>2. QED
      BY <1>1, <2>1, OtherUngranted
  <1>4. QED
    BY <1>2, <1>3 DEF NodeRequest


\* An accepted relay accepts its clients, if it is meant to.
LEMMA UpdateStands ==
    ASSUME InventoryInv, NEW c \in DOMAIN book.clients,
           NEW r \in Served(book, c) \cap Relays,
           NEW named \in Named, NEW body \in RelayBodies, UpdateRelay(r, named, body)
    PROVE  Stands(c, r)
  <1>1. PICK b \in Resolved(named) : \E s \in ServersFor(named, b) :
          LET relay == Landed([body EXCEPT !.server = s])
          IN  /\ RelayAccepted(b, relay, r)
              /\ Keep(b, [b EXCEPT !.relays = Put(@, r, relay)])
    BY DEF UpdateRelay
  <1>2. PICK relay : RelayAccepted(b, relay, r) /\ Keep(b, [b EXCEPT !.relays = Put(@, r, relay)])
    BY <1>1
  <1>3. Sound(b) /\ b.relays = book.relays /\ b.clients = book.clients
    BY <1>1, ResolvedSound, ResolvedKeeps
  <1>4. /\ book'.relays = Put(b.relays, r, relay) /\ book'.clients = book.clients
        /\ book'.servers = b.servers /\ book'.nodes = b.nodes
    BY <1>2, <1>3 DEF Keep, Sound, IsBook
  <1>5. r \in DOMAIN book'.relays /\ book'.relays[r] = relay
    BY <1>4 DEF Put
  <1>6. CASE ~relay.enabled \/ relay.mode = "tcp_forward" \/ relay.server = NoId
    BY <1>5, <1>6 DEF Stands, ExitEdited
  <1>7. CASE relay.enabled /\ relay.mode # "tcp_forward" /\ relay.server # NoId
    <2>1. relay.server \in Agents(book')
      BY <1>2, <1>4, <1>7 DEF RelayAccepted, Has, Agents
    <2>2. Lands(book', relay)
      BY <1>2, <1>4, <1>7 DEF RelayAccepted, LandingFits, Lands, Has
    <2>3. book'.clients[c].enabled /\ r \in book'.clients[c].relays
      BY <1>4, ServedFacts
    <2>4. r \in AcceptedAt(book', relay.server, c)
      BY <1>5, <1>7, <2>2, <2>3 DEF AcceptedAt, RelayInbounds
    <2>5. r \in Served(book', c)
      BY <2>1, <2>4 DEF Served
    <2>6. QED
      BY <2>5 DEF Stands, ExitEdited
  <1>8. QED
    BY <1>6, <1>7

LEMMA RelayRequestStands ==
    ASSUME InventoryInv, KnownInv, RelayRequest, NEW c \in DOMAIN book.clients,
           NEW r \in Served(book, c) \cap Relays
    PROVE  Stands(c, r)
  <1>1. r \in DOMAIN book.relays /\ r \in born
    BY ServedFacts DEF KnownInv, Known
  <1>2. ASSUME NEW q \in Relays, NEW named \in Named, NEW body \in RelayBodies,
               CreateRelay(q, named, body) \/ UpdateRelay(q, named, body), q # r
        PROVE  Stands(c, r)
    <2>1. PICK b, relay : b \in Resolved(named) /\ Keep(b, [b EXCEPT !.relays = Put(@, q, relay)])
      BY <1>2 DEF CreateRelay, UpdateRelay
    <2>2. Sound(b) /\ b.relays = book.relays /\ b.clients = book.clients
      BY <2>1, ResolvedSound, ResolvedKeeps
    <2>3. book'.relays = Put(b.relays, q, relay) /\ book'.clients = book.clients
      BY <2>1, <2>2 DEF Keep, Sound, IsBook
    <2>4. r \in DOMAIN book'.relays /\ book'.relays[r] = book.relays[r]
      BY <1>1, <1>2, <2>2, <2>3 DEF Put
    <2>5. QED
      BY <2>3, <2>4, OthersWritten
  <1>3. ASSUME NEW named, NEW body, CreateRelay(r, named, body)
        PROVE  FALSE
    BY <1>1, <1>3 DEF CreateRelay
  <1>4. ASSUME NEW q \in Relays, DeleteRelay(q)
        PROVE  Stands(c, r)
    <2>1. CASE q = r
      BY <1>4, <2>1 DEF Stands, ExitLost
    <2>2. CASE q # r
      <3>1. /\ book'.relays = Drop(book.relays, q)
            /\ book'.clients[c] = Ungranted(book.clients[c], NoId, q)
        BY <1>4 DEF DeleteRelay, Keep, InventoryInv, Sound, IsBook
      <3>2. r \in DOMAIN book'.relays /\ book'.relays[r] = book.relays[r]
        BY <1>1, <2>2, <3>1 DEF Drop
      <3>3. QED
        BY <2>2, <3>1, <3>2, OtherUngranted
    <2>3. QED
      BY <2>1, <2>2
  <1>5. QED
    BY <1>2, <1>3, <1>4, UpdateStands DEF RelayRequest

LEMMA ClientRequestStands ==
    ASSUME InventoryInv, KnownInv, ClientRequest, NEW c \in DOMAIN book.clients,
           NEW r \in Served(book, c) \cap Relays
    PROVE  Stands(c, r)
  <1>1. r \in DOMAIN book.relays /\ r \in born /\ c \in born
    BY ServedFacts DEF KnownInv, Known
  <1>2. ASSUME NEW d \in Clients, NEW body \in ClientBodies(book),
               CreateClient(d, body) \/ UpdateClient(d, body)
        PROVE  Stands(c, r)
    <2>1. CASE d = c
      BY <1>1, <1>2, <2>1 DEF CreateClient, Stands, ExitLost
    <2>2. CASE d # c
      <3>1. PICK client : book' = [book EXCEPT !.clients = Put(@, d, client)]
        BY <1>2 DEF CreateClient, UpdateClient, Keep
      <3>2. book'.relays = book.relays /\ book'.clients[c] = book.clients[c]
        BY <2>2, <3>1 DEF Put, InventoryInv, Sound, IsBook
      <3>3. QED
        BY <1>1, <3>2, OthersWritten
    <2>3. QED
      BY <2>1, <2>2
  <1>3. ASSUME NEW d \in Clients, DeleteClient(d)
        PROVE  Stands(c, r)
    <2>1. CASE d = c
      BY <1>3, <2>1 DEF Stands, ExitLost
    <2>2. CASE d # c
      <3>1. book'.relays = book.relays /\ book'.clients[c] = book.clients[c]
        BY <1>3, <2>2 DEF DeleteClient, Keep, Drop, InventoryInv, Sound, IsBook
      <3>2. QED
        BY <1>1, <3>1, OthersWritten
    <2>3. QED
      BY <2>1, <2>2
  <1>4. ASSUME NEW d \in Clients, NEW q \in Relays, NEW named \in Named, NEW port \in Ports,
               CreateClientWithRelay(d, q, named, port)
        PROVE  Stands(c, r)
    <2>1. PICK b, relay, client :
            /\ b \in Resolved(named)
            /\ Keep(b, [b EXCEPT !.relays = Put(@, q, relay), !.clients = Put(@, d, client)])
      BY <1>4 DEF CreateClientWithRelay
    <2>2. Sound(b) /\ b.relays = book.relays /\ b.clients = book.clients
      BY <2>1, ResolvedSound, ResolvedKeeps
    <2>3. book'.relays = Put(b.relays, q, relay) /\ book'.clients = Put(b.clients, d, client)
      BY <2>1, <2>2 DEF Keep, Sound, IsBook
    <2>4. d # c /\ q # r
      BY <1>1, <1>4 DEF CreateClientWithRelay
    <2>5. /\ r \in DOMAIN book'.relays /\ book'.relays[r] = book.relays[r]
          /\ book'.clients[c] = book.clients[c]
      BY <1>1, <2>2, <2>3, <2>4 DEF Put
    <2>6. QED
      BY <2>5, OthersWritten
  <1>5. QED
    BY <1>2, <1>3, <1>4 DEF ClientRequest

LEMMA AgentRequestStands ==
    ASSUME InventoryInv, AgentRequest, NEW c \in DOMAIN book.clients,
           NEW r \in Served(book, c) \cap Relays
    PROVE  Stands(c, r)
  <1>1. /\ book'.relays = book.relays
        /\ book'.clients[c].relays = book.clients[c].relays
    <2>1. PICK s \in Servers :
            AgentSync(s) \/ TokenChecked(s) \/ Heartbeat(s) \/ HeartbeatSaveFails(s)
      BY DEF AgentRequest
    <2>2. CASE AgentSync(s) \/ Heartbeat(s)
      <3>1. PICK due, record : book' = Written(Swept(book, due), record)
        BY <2>2 DEF AgentSync, Heartbeat, Keep
      <3>2. QED
        BY <3>1, SweptKeeps DEF InventoryInv
    <2>3. CASE TokenChecked(s)
      BY <2>3 DEF TokenChecked
    <2>4. CASE HeartbeatSaveFails(s)
      BY <2>4 DEF HeartbeatSaveFails, Written, InventoryInv, Sound, IsBook
    <2>5. QED
      BY <2>1, <2>2, <2>3, <2>4
  <1>2. CASE ~book'.clients[c].enabled
    BY <1>2 DEF Stands, ExitLost
  <1>3. CASE book'.clients[c].enabled
    BY <1>1, <1>3, ServedFacts, LeftAlone DEF Stands
  <1>4. QED
    BY <1>2, <1>3

LEMMA RestartStands ==
    ASSUME InventoryInv, RestartPanel, NEW c \in DOMAIN book.clients,
           NEW r \in Served(book, c) \cap Relays
    PROVE  Stands(c, r)
  <1>1. CASE disk # book
    BY <1>1 DEF Stands, ExitLost
  <1>2. CASE disk = book
    <2>1. book'.relays = book.relays /\ book'.clients = book.clients
      BY <1>2, EnsuredKeeps DEF RestartPanel, InventoryInv
    <2>2. QED
      BY <2>1, ServedFacts, OthersWritten
  <1>3. QED
    BY <1>1, <1>2

(* A client's exit changes or goes unnoticed only by a request about the   *)
(* client or its relay, by the end of its billing, or by a restart after a *)
(* lost save, whatever becomes of all other records.  (relayByID,          *)
(* nodeByID, clientByID, ensureSingleModeLocalServer,                      *)
(* GenerateServerConfig, buildSystemChecks)                                *)
THEOREM ExitsStand == Spec => FixedExitStands
  <1>1. ASSUME InventoryInv, KnownInv, Next
        PROVE  \A c \in DOMAIN book.clients : \A r \in Served(book, c) \cap Relays :
                   Stands(c, r)
    BY <1>1, ServerRequestStands, NodeRequestStands, RelayRequestStands,
       ClientRequestStands, AgentRequestStands, RestartStands DEF Next
  <1>2. InventoryInv /\ KnownInv /\ [Next]_vars =>
          [\A c \in DOMAIN book.clients : \A r \in Served(book, c) \cap Relays :
               \/ ExitLost(c, r)
               \/ r \in Served(book', c) /\ ExitSame(r)
               \/ r \in RelayLinks(book', c) \cap ReportedRelays(book')
               \/ ExitEdited(c, r)]_vars
    BY <1>1 DEF Stands
  <1>3. QED
    BY <1>2, ExitsKnown, PTL DEF Spec, FixedExitStands
=============================================================================
