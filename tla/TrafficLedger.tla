---------------------------- MODULE TrafficLedger ----------------------------
(***************************************************************************)
(* The traffic ledger end to end: real use, the Xray counters of each      *)
(* server, the heartbeats that carry them, and the panel's client records  *)
(* in memory and in panel.json.                                            *)
(*                                                                         *)
(* The panel's handlers run under store.Mu, so each is one action.  The    *)
(* agent abandons a heartbeat after 20 seconds and sends the next while    *)
(* the panel may still hold the first: heartbeats are delivered in any     *)
(* order, any number of times, or never.                                   *)
(***************************************************************************)
EXTENDS Billing, FiniteSets, Functions

CONSTANTS
    Clients,
    Skew,           \* Skew[s]: how far server s's clock is from the panel's
    ExpireChoices,  \* expiry times an administrator picks (0: none)
    LimitChoices,   \* traffic limits an administrator picks (0: none)
    EnabledChoices, \* values of the enabled switch an administrator submits
    GrantChoices,   \* sets of servers an administrator grants
    MaxTime, MaxReal, MaxEpoch, MaxInFlight,    \* bounds of the model
    CountersReset   \* may an operator reset Xray's counters in place?

ASSUME LedgerAssumption ==
    /\ IsFiniteSet(Servers)
    /\ Skew \in [Servers -> Int]
    /\ ExpireChoices \subseteq Nat
    /\ LimitChoices \subseteq Nat
    /\ EnabledChoices \subseteq BOOLEAN
    /\ GrantChoices \subseteq SUBSET Servers
    /\ MaxTime \in Nat /\ MaxReal \in Nat /\ MaxEpoch \in Nat /\ MaxInFlight \in Nat
    /\ CountersReset \in BOOLEAN

VARIABLES
    now,        \* the panel's clock
    real,       \* history: real[s][c], traffic c has used through s
    xray,       \* xray[s]: epoch (process identity) and counters of Xray on s
    inflight,   \* heartbeats sent and not yet lost
    clients,    \* store.Data.Clients
    disk        \* the client records in panel.json

vars == <<now, real, xray, inflight, clients, disk>>

Counter == [up : Nat, down : Nat]
Heartbeats == [server : Servers, traffic : [Clients -> Sample]]

ZeroCounters == [c \in Clients |-> [up |-> 0, down |-> 0]]

AgentClock(s) == now + Skew[s]

TypeOK ==
    /\ now \in Nat
    /\ real \in [Servers -> [Clients -> Nat]]
    /\ xray \in [Servers -> [epoch : Nat \ {0}, counters : [Clients -> Counter]]]
    /\ inflight \subseteq Heartbeats
    /\ clients \in [Clients -> Client]
    /\ disk \in [Clients -> Client]

Init ==
    /\ now = 1
    /\ real = [s \in Servers |-> [c \in Clients |-> 0]]
    /\ xray = [s \in Servers |-> [epoch |-> 1, counters |-> ZeroCounters]]
    /\ inflight = {}
    /\ clients = [c \in Clients |-> UnbornClient]
    /\ disk = clients

-----------------------------------------------------------------------------
(* The world outside the panel: time, traffic, Xray processes.             *)

Tick ==
    /\ now < MaxTime
    /\ now' = now + 1
    /\ UNCHANGED <<real, xray, inflight, clients, disk>>

\* Traffic stops with the clock's bound, so that a last sample can follow it.
Use(s, c) ==
    /\ now < MaxTime
    /\ real[s][c] < MaxReal
    /\ clients[c].status # "unborn"
    /\ real' = [real EXCEPT ![s][c] = @ + 1]
    /\ \/ xray' = [xray EXCEPT ![s].counters[c].up = @ + 1]
       \/ xray' = [xray EXCEPT ![s].counters[c].down = @ + 1]
    /\ UNCHANGED <<now, inflight, clients, disk>>

RestartXray(s) ==
    /\ xray[s].epoch < MaxEpoch
    /\ xray' = [xray EXCEPT ![s] = [epoch |-> @.epoch + 1, counters |-> ZeroCounters]]
    /\ UNCHANGED <<now, real, inflight, clients, disk>>

ResetCounters(s) ==
    /\ CountersReset
    /\ xray' = [xray EXCEPT ![s].counters = ZeroCounters]
    /\ UNCHANGED <<now, real, inflight, clients, disk>>

-----------------------------------------------------------------------------
(* The agent.                                                              *)

\* parseTraffic refuses a whole reply in which one client's total overflows.
Parses(counters) ==
    \A c \in Clients : counters[c].up + counters[c].down <= MaxInt

SampleOf(s, c) ==
    [ epoch |-> xray[s].epoch,
      up |-> xray[s].counters[c].up,
      down |-> xray[s].counters[c].down,
      at |-> AgentClock(s),
      real |-> real[s][c] ]

\* Xray only ever counts clients the panel has created.
Known == {c \in Clients : clients[c].status # "unborn"}

\* reported: the clients both of whose counters Xray lists; none of them when
\* the statistics could not be read.
SendHeartbeat(s, reported) ==
    /\ Cardinality(inflight) < MaxInFlight
    /\ AgentClock(s) > 0
    /\ reported # {} => Parses(xray[s].counters)
    /\ inflight' = inflight \cup
          {[ server |-> s,
             traffic |-> [c \in Clients |->
                            IF c \in reported THEN SampleOf(s, c) ELSE NoSample] ]}
    /\ UNCHANGED <<now, real, xray, clients, disk>>

LoseHeartbeat(hb) ==
    /\ inflight' = inflight \ {hb}
    /\ UNCHANGED <<now, real, xray, clients, disk>>

-----------------------------------------------------------------------------
(* The panel.                                                              *)

Sweep(book) ==
    [c \in Clients |-> IF book[c].status = "live" THEN EnforceBilling(book[c], now)
                                                  ELSE book[c]]

\* SaveLocked writes the whole store to a temporary file and renames it.
Save(book) == disk' = book

\* Faulty variant: Accounted without the sweep that follows.
AccountedUnswept(hb) ==
    [c \in Clients |-> AccountTraffic(clients[c], hb.server, hb.traffic[c])]

Accounted(hb) ==
    Sweep([c \in Clients |-> AccountTraffic(clients[c], hb.server, hb.traffic[c])])

\* agentHeartbeat: a sample is kept only if it was saved.
Heartbeat(hb) ==
    /\ hb \in inflight
    /\ clients' = Accounted(hb)
    /\ Save(clients')
    /\ UNCHANGED <<now, real, xray, inflight>>

\* Faulty variant: HeartbeatSaveFails without the rollback.
HeartbeatKeepsUnsaved(hb) ==
    /\ hb \in inflight
    /\ clients' = Accounted(hb)
    /\ UNCHANGED <<now, real, xray, inflight, disk>>

HeartbeatSaveFails(hb) ==
    /\ hb \in inflight
    /\ UNCHANGED vars

\* agentSync sweeps too, and ignores a failing save.
AgentSync ==
    /\ clients' = Sweep(clients)
    /\ Save(clients') \/ UNCHANGED disk
    /\ UNCHANGED <<now, real, xray, inflight>>

CreateClient(c, body) ==
    /\ clients[c].status = "unborn"
    /\ clients' = [clients EXCEPT ![c] = NewClient(body)]
    /\ Save(clients') \/ UNCHANGED disk
    /\ UNCHANGED <<now, real, xray, inflight>>

\* Faulty variant: UpdateClient without the rollback of a failed save.
UpdateClientUnsaved(c, body) ==
    /\ clients[c].status = "live"
    /\ clients' = [clients EXCEPT ![c] = PreserveAndRenewBilling(body, clients[c], now)]
    /\ Save(clients') \/ UNCHANGED disk
    /\ UNCHANGED <<now, real, xray, inflight>>

\* PUT restores the old record when the save fails.
UpdateClient(c, body) ==
    /\ clients[c].status = "live"
    /\ clients' = [clients EXCEPT ![c] = PreserveAndRenewBilling(body, clients[c], now)]
    /\ Save(clients')
    /\ UNCHANGED <<now, real, xray, inflight>>

DeleteClient(c) ==
    /\ clients[c].status = "live"
    /\ clients' = [clients EXCEPT ![c].status = "deleted"]
    /\ Save(clients') \/ UNCHANGED disk
    /\ UNCHANGED <<now, real, xray, inflight>>

\* A panel process that stops or is killed comes back with panel.json.  A
\* client that never reached it is gone; NewID never gives its id out again.
RestartPanel ==
    /\ clients' = [c \in Clients |->
                     IF disk[c].status = "unborn" /\ clients[c].status # "unborn"
                     THEN [UnbornClient EXCEPT !.status = "deleted"]
                     ELSE disk[c]]
    /\ UNCHANGED <<now, real, xray, inflight, disk>>

-----------------------------------------------------------------------------
Bodies == [enabled : EnabledChoices, expireAt : ExpireChoices,
           limit : LimitChoices, grants : GrantChoices]

World ==
    \/ Tick
    \/ \E s \in Servers : RestartXray(s) \/ ResetCounters(s)
    \/ \E s \in Servers, c \in Clients : Use(s, c)

Agents ==
    \/ \E s \in Servers, reported \in SUBSET Known : SendHeartbeat(s, reported)
    \/ \E hb \in inflight : LoseHeartbeat(hb)

Accounting ==
    \/ \E hb \in inflight : Heartbeat(hb) \/ HeartbeatSaveFails(hb)
    \/ AgentSync

Administration ==
    \/ \E c \in Clients, body \in Bodies : CreateClient(c, body) \/ UpdateClient(c, body)
    \/ \E c \in Clients : DeleteClient(c)

Next == World \/ Agents \/ Accounting \/ Administration \/ RestartPanel

Spec == Init /\ [][Next]_vars

(***************************************************************************)
(* Fairness.  Time passes; the agent's loop comes round every interval; a  *)
(* request is abandoned after its timeout; the network is not broken for   *)
(* ever, so heartbeats that carry news get through again and again; and    *)
(* the agents keep asking for their configuration.                         *)
(***************************************************************************)
News(s) ==
    \E hb \in inflight :
        /\ hb.server = s
        /\ \E c \in Clients : Acceptable(clients[c], s, hb.traffic[c])
        /\ Heartbeat(hb)

Fairness ==
    /\ WF_vars(Tick)
    /\ WF_vars(AgentSync)
    /\ WF_vars(\E hb \in inflight : LoseHeartbeat(hb))
    /\ \A s \in Servers : SF_vars(SendHeartbeat(s, Known)) /\ SF_vars(News(s))

FairSpec == Spec /\ Fairness

-----------------------------------------------------------------------------
(* Properties.                                                             *)

(* What a client is charged in the current billing cycle for a source      *)
(* never exceeds what it really used there since the last sample counted   *)
(* before the cycle opened: no delay, reordering or repetition of          *)
(* heartbeats, restart of Xray or of the panel, failed save or renewal     *)
(* charges a byte twice.  (applyTrafficSample, preserveAndRenewBilling)    *)
NeverOverbills ==
    \A c \in Clients, s \in Servers :
        clients[c].base[s] + clients[c].cycle[s] <= real[s][c]

(* The inductive invariant behind NeverOverbills.  A mark is a sample the  *)
(* panel may still charge from or charge up to: a cursor, in memory or on  *)
(* disk, or a sample in flight.  Every mark is backed by real traffic, now *)
(* and against the present counters; of two marks the later one exceeds    *)
(* the earlier by at least what the panel would charge between them; and   *)
(* no record has charged past its cursor.                                  *)
Marks(s, c) ==
    {NoSample, clients[c].cursors[s], disk[c].cursors[s]}
        \cup {hb.traffic[c] : hb \in {h \in inflight : h.server = s}}

\* Charge without the cap.
Owed(x, y) ==
    IF x.epoch = y.epoch THEN Growth(x.up, y.up) + Growth(x.down, y.down)
                         ELSE y.up + y.down

Covers(x, y) == x.real + Owed(x, y) <= y.real

Backed(x, s, c) ==
    /\ x.up + x.down <= x.real
    /\ x.real <= real[s][c]
    /\ x.at # 0 => x.at <= AgentClock(s)
    /\ Covers(x, SampleOf(s, c))

Solid(client, s) == client.base[s] + client.cycle[s] <= client.cursors[s].real

LedgerInv ==
    \A s \in Servers, c \in Clients :
        /\ xray[s].counters[c].up + xray[s].counters[c].down <= real[s][c]
        /\ \A x \in Marks(s, c) : Backed(x, s, c)
        /\ \A x, y \in Marks(s, c) : x.at < y.at => Covers(x, y)
        /\ Solid(clients[c], s)
        /\ Solid(disk[c], s)

(* The accounting in memory is the accounting on disk: every handler that  *)
(* charges or renews either saves or restores what it found, so a panel    *)
(* restart can neither forget nor repeat a charge.  (agentHeartbeat, the   *)
(* PUT of clientByID, SaveLocked)                                          *)
LedgerIsDurable ==
    \A c \in Clients :
        /\ clients[c].used = disk[c].used
        /\ clients[c].cursors = disk[c].cursors
        /\ clients[c].resetAt = disk[c].resetAt

(* A client over its limit is enabled only between an administrator's edit *)
(* and the next heartbeat or sync: charging and enforcing happen under one *)
(* lock, and both are undone together.  (accountTrafficLocked)             *)
OverLimitOnlyAfterEdit ==
    \A c \in Clients :
        clients[c].status = "live" /\ clients[c].enabled /\ Limited(clients[c])
            => ~clients[c].swept

(* What a client is shown and limited by is the sum of what its sources    *)
(* were charged in this cycle, capped where int64 saturates: the amounts   *)
(* of several servers add up whatever order they arrive in.  (addTraffic)  *)
UsageIsSumOfCharges ==
    \A c \in Clients :
        LET total == SumFunction(clients[c].cycle)
        IN  clients[c].used = IF total > MaxInt THEN MaxInt ELSE total

(* A billed amount changes in two ways only: a renewal empties it, or one  *)
(* source adds what its cursor moved by.  (accountTrafficLocked,           *)
(* preserveAndRenewBilling: submitted accounting is ignored)               *)
ChargedToOneSource ==
    [][ \A c \in Clients : clients'[c].used # clients[c].used =>
            \/ clients'[c].used = 0
            \/ \E s \in Servers :
                  /\ clients'[c].cursors[s] # clients[c].cursors[s]
                  /\ clients'[c].used =
                        AddTraffic(clients[c].used,
                                   Charge(clients[c].cursors[s], clients'[c].cursors[s]))
                  /\ \A t \in Servers \ {s} :
                        clients'[c].cursors[t] = clients[c].cursors[t] ]_vars

(* Samples of one source are accounted in the order they were taken: no    *)
(* step moves a cursor back in the agent's time, whatever the network did. *)
CursorsOnlyAdvance ==
    [][ \A c \in Clients, s \in Servers :
            clients'[c].cursors[s] # clients[c].cursors[s]
                => clients'[c].cursors[s].at > clients[c].cursors[s].at ]_vars

(* Once administrators stop editing and the panel stays up, every client   *)
(* that is expired or over its limit ends up disabled and stays so.        *)
EditsStop == <>[][~Administration /\ ~RestartPanel]_vars

EventuallyEnforced ==
    EditsStop => <>[](\A c \in Clients :
        clients[c].status = "live" /\ clients[c].enabled
            => ~Expired(clients[c], now) /\ ~Limited(clients[c]))

(* Where Xray keeps running and nothing is renewed, every unit a granted   *)
(* client used is billed in the end, however many heartbeats were lost.    *)
EventuallyBilled ==
    <>[](\A c \in Clients : \A s \in clients[c].grants :
            clients[c].status = "live" => clients[c].cycle[s] = real[s][c])

(* traffic.go, applyTrafficSample: without a baseline taken after the      *)
(* renewal, the first sample of a source is a baseline "rather than        *)
(* charging the previous cycle again".                                     *)
FirstSampleAfterRenewalIsBaseline ==
    [][ \A c \in Clients, s \in Servers :
            /\ clients[c].resetAt # 0
            /\ clients'[c].resetAt = clients[c].resetAt
            /\ clients[c].cursors[s].at <= clients[c].resetAt
            /\ clients'[c].cursors[s].epoch # clients[c].cursors[s].epoch
            => clients'[c].cycle[s] = clients[c].cycle[s] ]_vars
=============================================================================
