------------------------- MODULE TrafficLedgerProofs -------------------------
(***************************************************************************)
(* Proofs about TrafficLedger, for every set of servers and clients, every *)
(* clock skew, every limit, and every bound.                               *)
(***************************************************************************)
EXTENDS TrafficLedger, DataLemmas, TLAPS

-----------------------------------------------------------------------------
(* The billing operators.                                                  *)

\* addTraffic stays in range and never exceeds the sum.
LEMMA AddTrafficBounds ==
    ASSUME NEW a \in 0..MaxInt, NEW b \in Nat
    PROVE  /\ AddTraffic(a, b) \in 0..MaxInt
           /\ AddTraffic(a, b) <= a + b
  BY MaxIntAssumption DEF AddTraffic

\* The growth of a counter is at most the counter.
LEMMA GrowthBounds ==
    ASSUME NEW a \in Nat, NEW b \in Nat
    PROVE  Growth(a, b) \in Nat /\ Growth(a, b) <= b
  BY DEF Growth

(* The panel never charges more between two samples than the counters      *)
(* account for. *)
LEMMA ChargeAtMostOwed ==
    ASSUME NEW x \in Sample, NEW y \in Sample
    PROVE  /\ Charge(x, y) \in Nat
           /\ Owed(x, y) \in Nat
           /\ Charge(x, y) <= Owed(x, y)
  <1>1. /\ x.epoch \in Nat /\ x.up \in Nat /\ x.down \in Nat
        /\ y.epoch \in Nat /\ y.up \in Nat /\ y.down \in Nat
    BY DEF Sample
  <1>2. ASSUME NEW a \in Nat, NEW b \in Nat
        PROVE  AddTraffic(a, b) \in Nat /\ AddTraffic(a, b) <= a + b
    BY MaxIntAssumption DEF AddTraffic
  <1>3. /\ Growth(x.up, y.up) \in Nat
        /\ Growth(x.down, y.down) \in Nat
    BY <1>1, GrowthBounds
  <1>4. CASE x.epoch = y.epoch
    <2>1. /\ Charge(x, y) = AddTraffic(Growth(x.up, y.up), Growth(x.down, y.down))
          /\ Owed(x, y) = Growth(x.up, y.up) + Growth(x.down, y.down)
      BY <1>4 DEF Charge, Owed
    <2>2. /\ AddTraffic(Growth(x.up, y.up), Growth(x.down, y.down)) \in Nat
          /\ AddTraffic(Growth(x.up, y.up), Growth(x.down, y.down))
                <= Growth(x.up, y.up) + Growth(x.down, y.down)
      BY <1>2, <1>3
    <2>3. QED
      BY <1>3, <2>1, <2>2
  <1>5. CASE x.epoch # y.epoch
    <2>1. Charge(x, y) = AddTraffic(y.up, y.down) /\ Owed(x, y) = y.up + y.down
      BY <1>5 DEF Charge, Owed
    <2>2. AddTraffic(y.up, y.down) \in Nat /\ AddTraffic(y.up, y.down) <= y.up + y.down
      BY <1>1, <1>2
    <2>3. QED
      BY <1>1, <2>1, <2>2
  <1>6. QED
    BY <1>4, <1>5

\* The missing sample is a sample.
LEMMA NoSampleIsSample == NoSample \in Sample
  BY DEF NoSample, Sample

\* The record of a client not yet created is a client record.
LEMMA UnbornClientIsClient ==
    /\ UnbornClient \in Client
    /\ [UnbornClient EXCEPT !.status = "deleted"] \in Client
  <1> USE MaxIntAssumption, NoSampleIsSample
  <1>1. /\ [s \in Servers |-> NoSample] \in [Servers -> Sample]
        /\ [s \in Servers |-> 0] \in [Servers -> Nat]
        /\ {} \in SUBSET Servers
        /\ 0 \in 0..MaxInt
    OBVIOUS
  <1>2. UnbornClient \in Client
    BY <1>1 DEF UnbornClient, Client
  <1>3. QED
    BY <1>2 DEF Client

(* Accounting one sample keeps a record well-formed, moves no other        *)
(* source's cursor, and keeps the record solid for every source whose      *)
(* cursor the sample covers. *)
LEMMA AccountTrafficFacts ==
    ASSUME NEW client \in Client, NEW source \in Servers, NEW sample \in Sample,
           NEW after, after = AccountTraffic(client, source, sample)
    PROVE  /\ after \in Client
           /\ after.status = client.status
           /\ \A s \in Servers :
                 after.cursors[s] = client.cursors[s]
                   \/ (s = source /\ after.cursors[s] = sample)
           /\ \A s \in Servers :
                 /\ Solid(client, s)
                 /\ client.cursors[source].at < sample.at
                       => Covers(client.cursors[source], sample)
                 => Solid(after, s)
  <1> DEFINE old == client.cursors[source]
             baseline == SetsBaseline(client, source)
             due == IF baseline THEN 0 ELSE Charge(old, sample)
  <1>1. CASE ~(client.status = "live" /\ TrafficSourceAllowed(client, source)
               /\ Acceptable(client, source, sample))
    <2>1. after = client
      BY <1>1 DEF AccountTraffic, ApplyTrafficSample
    <2>2. QED
      BY <2>1 DEF Solid
  <1>2. CASE client.status = "live" /\ TrafficSourceAllowed(client, source)
               /\ Acceptable(client, source, sample)
    <2>1. after = [client EXCEPT !.used = AddTraffic(@, due),
                                 !.cursors[source] = sample,
                                 !.cycle[source] = @ + due,
                                 !.base[source] = IF baseline THEN sample.real ELSE @]
      BY <1>2 DEF AccountTraffic, ApplyTrafficSample
    <2>2. old \in Sample /\ due \in Nat
      BY ChargeAtMostOwed DEF Client
    <2>3. /\ client.used \in 0..MaxInt
          /\ client.cursors \in [Servers -> Sample]
          /\ client.cycle \in [Servers -> Nat]
          /\ client.base \in [Servers -> Nat]
      BY DEF Client
    <2>4. /\ AddTraffic(client.used, due) \in 0..MaxInt
          /\ sample.real \in Nat
      BY <2>2, <2>3, AddTrafficBounds DEF Sample
    <2>5. after \in Client
      <3> DEFINE used == AddTraffic(client.used, due)
                 cursors == [client.cursors EXCEPT ![source] = sample]
                 cycle == [client.cycle EXCEPT ![source] = @ + due]
                 base == [client.base EXCEPT
                            ![source] = IF baseline THEN sample.real ELSE @]
      <3>1. /\ used \in 0..MaxInt
            /\ cursors \in [Servers -> Sample]
            /\ cycle \in [Servers -> Nat]
            /\ base \in [Servers -> Nat]
        BY <2>2, <2>3, <2>4
      <3>2. after = [client EXCEPT !.used = used, !.cursors = cursors,
                                   !.cycle = cycle, !.base = base]
        BY <2>1 DEF Client
      <3> HIDE DEF used, cursors, cycle, base
      <3>3. QED
        BY <3>1, <3>2 DEF Client
    <2>6. /\ after.status = client.status
          /\ after.cursors = [client.cursors EXCEPT ![source] = sample]
          /\ after.cycle = [client.cycle EXCEPT ![source] = @ + due]
          /\ after.base = [client.base EXCEPT
                             ![source] = IF baseline THEN sample.real ELSE @]
      BY <2>1 DEF Client
    <2>7. ASSUME NEW s \in Servers, Solid(client, s),
                 old.at < sample.at => Covers(old, sample)
          PROVE  Solid(after, s)
      <3>1. CASE s # source
        BY <2>3, <2>6, <2>7, <3>1 DEF Solid
      <3>2. CASE s = source
        <4>1. Covers(old, sample)
          BY <1>2, <2>7 DEF Acceptable
        <4>2. /\ client.base[s] + client.cycle[s] <= old.real
              /\ client.base[s] \in Nat /\ client.cycle[s] \in Nat
              /\ old.real \in Nat
          BY <2>2, <2>3, <2>7, <3>2 DEF Solid, Sample
        <4>3. /\ after.cursors[s] = sample
              /\ after.cycle[s] = client.cycle[s] + due
              /\ after.base[s] = IF baseline THEN sample.real ELSE client.base[s]
          BY <2>3, <2>6, <3>2
        <4>4. CASE baseline
          <5>1. old.real = 0 /\ due = 0
            BY <4>4 DEF SetsBaseline, NoSample
          <5>2. QED
            BY <2>4, <4>2, <4>3, <4>4, <5>1 DEF Solid
        <4>5. CASE ~baseline
          <5>1. due <= Owed(old, sample) /\ Owed(old, sample) \in Nat
            BY <2>2, <4>5, ChargeAtMostOwed
          <5>2. old.real + Owed(old, sample) <= sample.real
            BY <4>1 DEF Covers
          <5>3. QED
            BY <2>2, <2>4, <4>2, <4>3, <4>5, <5>1, <5>2 DEF Solid
        <4>6. QED
          BY <4>4, <4>5
      <3>3. QED
        BY <3>1, <3>2
    <2>8. \A s \in Servers :
             after.cursors[s] = client.cursors[s]
               \/ (s = source /\ after.cursors[s] = sample)
      BY <2>3, <2>6
    <2>9. QED
      BY <2>5, <2>6, <2>7, <2>8
  <1>3. QED
    BY <1>1, <1>2

\* Enforcement touches the enabled switch only.
LEMMA EnforceBillingFacts ==
    ASSUME NEW client \in Client, NEW time \in Nat,
           NEW after, after = EnforceBilling(client, time)
    PROVE  /\ after \in Client
           /\ after.cursors = client.cursors
           /\ \A s \in Servers : Solid(client, s) => Solid(after, s)
  <1>1. (client.enabled /\ ~Expired(client, time) /\ ~Limited(client)) \in BOOLEAN
    BY DEF Client
  <1>2. /\ after \in Client
        /\ after.cursors = client.cursors
        /\ after.cycle = client.cycle
        /\ after.base = client.base
    BY <1>1 DEF EnforceBilling, Client
  <1>3. QED
    BY <1>2 DEF Solid

\* An edit or a renewal keeps the record well-formed, solid and its cursors.
LEMMA UpdateFacts ==
    ASSUME NEW client \in Client, NEW body \in Bodies, NEW time \in Nat,
           NEW after, after = PreserveAndRenewBilling(body, client, time)
    PROVE  /\ after \in Client
           /\ after.cursors = client.cursors
           /\ \A s \in Servers : Solid(client, s) => Solid(after, s)
  <1> DEFINE edited == [client EXCEPT !.enabled = body.enabled,
                                      !.expireAt = body.expireAt,
                                      !.limit = body.limit,
                                      !.grants = body.grants,
                                      !.swept = FALSE]
             zero == [s \in Servers |-> 0]
             counted == [s \in Servers |-> client.cursors[s].real]
  <1>1. /\ body.enabled \in BOOLEAN /\ body.expireAt \in Nat
        /\ body.limit \in Nat /\ body.grants \in SUBSET Servers
    BY LedgerAssumption DEF Bodies
  <1>2. /\ edited \in Client
        /\ edited.cursors = client.cursors
        /\ edited.cycle = client.cycle
        /\ edited.base = client.base
    BY <1>1 DEF Client
  <1>3. /\ zero \in [Servers -> Nat]
        /\ counted \in [Servers -> Nat]
        /\ 0 \in 0..MaxInt
    BY MaxIntAssumption DEF Client, Sample
  <1>4. CASE ~Renews(body, client)
    <2>1. after = edited
      BY <1>4 DEF PreserveAndRenewBilling
    <2> HIDE DEF edited
    <2>2. QED
      BY <1>2, <2>1 DEF Solid
  <1>5. CASE Renews(body, client)
    <2>1. after = [edited EXCEPT !.enabled = TRUE, !.used = 0, !.resetAt = time,
                                 !.cycle = zero, !.base = counted]
      BY <1>5 DEF PreserveAndRenewBilling
    <2> HIDE DEF edited, zero, counted
    <2>2. /\ after \in Client
          /\ after.cursors = client.cursors
          /\ after.cycle = zero
          /\ after.base = counted
      BY <1>2, <1>3, <2>1 DEF Client
    <2>3. ASSUME NEW s \in Servers
          PROVE  Solid(after, s)
      <3>1. zero[s] = 0 /\ counted[s] = client.cursors[s].real /\ counted[s] \in Nat
        BY <1>3 DEF zero, counted
      <3>2. QED
        BY <2>2, <3>1 DEF Solid
    <2>4. QED
      BY <2>2, <2>3
  <1>6. QED
    BY <1>4, <1>5

\* A new client has charged nothing.
LEMMA NewClientFacts ==
    ASSUME NEW body \in Bodies
    PROVE  /\ NewClient(body) \in Client
           /\ \A s \in Servers : NewClient(body).cursors[s] = NoSample
           /\ \A s \in Servers : Solid(NewClient(body), s)
  <1>1. /\ body.expireAt \in Nat /\ body.limit \in Nat
        /\ body.grants \in SUBSET Servers
    BY LedgerAssumption DEF Bodies
  <1>2. NewClient(body) \in Client
    BY <1>1, UnbornClientIsClient DEF NewClient, Client
  <1>3. ASSUME NEW s \in Servers
        PROVE  /\ NewClient(body).cursors[s] = NoSample
               /\ NewClient(body).cycle[s] = 0
               /\ NewClient(body).base[s] = 0
    BY DEF NewClient, UnbornClient
  <1>4. QED
    BY <1>2, <1>3 DEF Solid, NoSample

\* A client not yet created has charged nothing.
LEMMA UnbornClientSolid ==
    ASSUME NEW s \in Servers
    PROVE  /\ UnbornClient.cursors[s] = NoSample
           /\ [UnbornClient EXCEPT !.status = "deleted"].cursors[s] = NoSample
           /\ Solid(UnbornClient, s)
           /\ Solid([UnbornClient EXCEPT !.status = "deleted"], s)
  BY DEF UnbornClient, Solid, NoSample

(* A sweep of the whole book. *)
LEMMA SweepFacts ==
    ASSUME NEW book \in [Clients -> Client], NEW after,
           now \in Nat, after = Sweep(book)
    PROVE  /\ after \in [Clients -> Client]
           /\ \A c \in Clients : after[c].cursors = book[c].cursors
           /\ \A c \in Clients, s \in Servers :
                 Solid(book[c], s) => Solid(after[c], s)
  <1>1. ASSUME NEW c \in Clients
        PROVE  /\ after[c] \in Client
               /\ after[c].cursors = book[c].cursors
               /\ \A s \in Servers : Solid(book[c], s) => Solid(after[c], s)
    <2>1. after[c] = IF book[c].status = "live" THEN EnforceBilling(book[c], now)
                                                ELSE book[c]
      BY DEF Sweep
    <2>2. book[c] \in Client
      OBVIOUS
    <2>3. CASE book[c].status = "live"
      BY <2>1, <2>2, <2>3, EnforceBillingFacts
    <2>4. CASE book[c].status # "live"
      <3>1. after[c] = book[c]
        BY <2>1, <2>4
      <3>2. QED
        BY <2>2, <3>1
    <2>5. QED
      BY <2>3, <2>4
  <1>2. after = [c \in Clients |-> after[c]]
    BY DEF Sweep
  <1>3. QED
    BY <1>1, <1>2

-----------------------------------------------------------------------------
(* Type correctness.                                                       *)

\* What an agent reads is a sample.
LEMMA SampleOfType ==
    ASSUME TypeOK, NEW s \in Servers, NEW c \in Clients
    PROVE  /\ SampleOf(s, c).epoch \in Nat
           /\ SampleOf(s, c).up \in Nat
           /\ SampleOf(s, c).down \in Nat
           /\ SampleOf(s, c).real \in Nat
           /\ SampleOf(s, c).at \in Int
           /\ AgentClock(s) \in Int
           /\ AgentClock(s) > 0 => SampleOf(s, c) \in Sample
  BY LedgerAssumption DEF TypeOK, SampleOf, AgentClock, Sample, Counter

\* Accounting a heartbeat keeps the book well-formed.
LEMMA AccountedType ==
    ASSUME TypeOK, NEW hb \in inflight
    PROVE  Accounted(hb) \in [Clients -> Client]
  <1>1. hb.server \in Servers /\ \A c \in Clients : hb.traffic[c] \in Sample
    BY DEF TypeOK, Heartbeats
  <1>2. [c \in Clients |-> AccountTraffic(clients[c], hb.server, hb.traffic[c])]
            \in [Clients -> Client]
    BY <1>1, AccountTrafficFacts DEF TypeOK
  <1>3. QED
    BY <1>2, SweepFacts DEF Accounted, TypeOK

\* The initial states are well-formed.
LEMMA TypeInit == Init => TypeOK
  <1>1. ZeroCounters \in [Clients -> Counter]
    BY DEF ZeroCounters, Counter
  <1>2. QED
    BY <1>1, UnbornClientIsClient DEF Init, TypeOK

\* Every step keeps the state well-formed.
LEMMA TypeStep ==
    ASSUME TypeOK, [Next]_vars
    PROVE  TypeOK'
  <1>1. CASE UNCHANGED vars
    BY <1>1 DEF TypeOK, vars
  <1>2. CASE Tick
    BY <1>2 DEF Tick, TypeOK
  <1>3. ASSUME NEW s \in Servers, NEW c \in Clients, Use(s, c)
        PROVE  TypeOK'
    <2>1. real' \in [Servers -> [Clients -> Nat]]
      BY <1>3 DEF Use, TypeOK
    <2>2. ASSUME NEW bumped \in Counter,
                 xray' = [xray EXCEPT ![s].counters[c] = bumped]
          PROVE  xray' \in [Servers -> [epoch : Nat \ {0},
                                       counters : [Clients -> Counter]]]
      BY <2>2 DEF TypeOK
    <2>3. /\ [xray[s].counters[c] EXCEPT !.up = @ + 1] \in Counter
          /\ [xray[s].counters[c] EXCEPT !.down = @ + 1] \in Counter
      <3>1. xray[s].counters[c] \in Counter
        BY DEF TypeOK
      <3>2. QED
        BY ONLY <3>1 DEF Counter
    <2>4. \/ xray' = [xray EXCEPT ![s].counters[c] =
                         [xray[s].counters[c] EXCEPT !.up = @ + 1]]
          \/ xray' = [xray EXCEPT ![s].counters[c] =
                         [xray[s].counters[c] EXCEPT !.down = @ + 1]]
      BY <1>3 DEF Use, TypeOK
    <2>5. QED
      BY <1>3, <2>1, <2>2, <2>3, <2>4 DEF Use, TypeOK
  <1>4. ASSUME NEW s \in Servers, RestartXray(s)
        PROVE  TypeOK'
    <2>1. xray'[s] = [epoch |-> xray[s].epoch + 1, counters |-> ZeroCounters]
            /\ xray' = [xray EXCEPT ![s] = xray'[s]]
      BY <1>4 DEF RestartXray, TypeOK
    <2>2. ZeroCounters \in [Clients -> Counter]
      BY DEF ZeroCounters, Counter
    <2>3. xray' \in [Servers -> [epoch : Nat \ {0}, counters : [Clients -> Counter]]]
      BY <2>1, <2>2 DEF TypeOK
    <2>4. QED
      BY <1>4, <2>3 DEF RestartXray, TypeOK
  <1>5. ASSUME NEW s \in Servers, ResetCounters(s)
        PROVE  TypeOK'
    <2>1. ZeroCounters \in [Clients -> Counter]
      BY DEF ZeroCounters, Counter
    <2>2. QED
      BY <1>5, <2>1 DEF ResetCounters, TypeOK
  <1>6. ASSUME NEW s \in Servers, NEW reported \in SUBSET Known,
               SendHeartbeat(s, reported)
        PROVE  TypeOK'
    <2> DEFINE hb == [ server |-> s,
                       traffic |-> [c \in Clients |->
                          IF c \in reported THEN SampleOf(s, c) ELSE NoSample] ]
    <2>1. hb \in Heartbeats
      BY <1>6, SampleOfType, NoSampleIsSample DEF SendHeartbeat, Heartbeats
    <2>2. /\ inflight' = inflight \cup {hb}
          /\ UNCHANGED <<now, real, xray, clients, disk>>
      BY <1>6 DEF SendHeartbeat
    <2> HIDE DEF hb
    <2>3. QED
      BY <2>1, <2>2 DEF TypeOK
  <1>7. ASSUME NEW hb \in inflight, LoseHeartbeat(hb)
        PROVE  TypeOK'
    BY <1>7 DEF LoseHeartbeat, TypeOK
  <1>8. ASSUME NEW hb \in inflight, Heartbeat(hb)
        PROVE  TypeOK'
    BY <1>8, AccountedType DEF Heartbeat, Save, TypeOK
  <1>9. ASSUME NEW hb \in inflight, HeartbeatSaveFails(hb)
        PROVE  TypeOK'
    BY <1>9 DEF HeartbeatSaveFails, TypeOK, vars
  <1>10. CASE AgentSync
    BY <1>10, SweepFacts DEF AgentSync, Save, TypeOK
  <1>11. ASSUME NEW c \in Clients, NEW body \in Bodies, CreateClient(c, body)
         PROVE  TypeOK'
    BY <1>11, NewClientFacts DEF CreateClient, Save, TypeOK
  <1>12. ASSUME NEW c \in Clients, NEW body \in Bodies, UpdateClient(c, body)
         PROVE  TypeOK'
    BY <1>12, UpdateFacts DEF UpdateClient, Save, TypeOK
  <1>13. ASSUME NEW c \in Clients, DeleteClient(c)
         PROVE  TypeOK'
    <2>1. clients[c] \in Client
      BY DEF TypeOK
    <2>2. [clients[c] EXCEPT !.status = "deleted"] \in Client
      BY <2>1 DEF Client
    <2>3. QED
      BY <1>13, <2>2 DEF DeleteClient, Save, TypeOK
  <1>14. CASE RestartPanel
    BY <1>14, UnbornClientIsClient DEF RestartPanel, TypeOK
  <1>15. QED
    BY <1>1, <1>2, <1>3, <1>4, <1>5, <1>6, <1>7, <1>8, <1>9, <1>10, <1>11,
       <1>12, <1>13, <1>14
       DEF Next, World, Agents, Accounting, Administration

(* Every reachable state is well-formed, whatever the bounds. *)
THEOREM TypeCorrect == Spec => []TypeOK
  <1>1. TypeOK /\ [Next]_vars => TypeOK'
    BY TypeStep
  <1>2. QED
    BY TypeInit, <1>1, PTL DEF Spec

-----------------------------------------------------------------------------
(* The inductive invariant.                                                *)

\* All marks are samples.
LEMMA MarksAreSamples ==
    ASSUME TypeOK, NEW s \in Servers, NEW c \in Clients, NEW x \in Marks(s, c)
    PROVE  /\ x \in Sample
           /\ x.epoch \in Nat /\ x.up \in Nat /\ x.down \in Nat
           /\ x.at \in Nat /\ x.real \in Nat
  <1>1. x \in Sample
    BY NoSampleIsSample DEF TypeOK, Marks, Client, Heartbeats
  <1>2. QED
    BY <1>1 DEF Sample

(* What the panel owes a mark follows the live counters: a unit used adds  *)
(* at most one, and a restart or a reset of the counters adds nothing. *)
LEMMA GrowthFollowsUse ==
    ASSUME NEW a \in Nat, NEW b \in Nat
    PROVE  /\ Growth(a, b) \in Nat
           /\ Growth(a, b + 1) \in Nat
           /\ Growth(a, b + 1) <= Growth(a, b) + 1
           /\ Growth(a, 0) = 0
           /\ Growth(b, b) = 0
  BY DEF Growth

(* A step that only moves samples among the places they are kept leaves    *)
(* every mark as it was. *)
LEMMA MarksMove ==
    ASSUME TypeOK, LedgerInv,
           UNCHANGED <<now, real, xray>>,
           \A s \in Servers, c \in Clients : Marks(s, c)' \subseteq Marks(s, c),
           \A s \in Servers, c \in Clients :
              Solid(clients[c], s)' /\ Solid(disk[c], s)'
    PROVE  LedgerInv'
  <1> SUFFICES ASSUME NEW s \in Servers, NEW c \in Clients
               PROVE  /\ (xray[s].counters[c].up + xray[s].counters[c].down
                            <= real[s][c])'
                      /\ \A x \in Marks(s, c)' : Backed(x, s, c)'
                      /\ \A x, y \in Marks(s, c)' : x.at < y.at => Covers(x, y)
    BY DEF LedgerInv, Covers, Owed, Growth, Solid
  <1>1. (xray[s].counters[c].up + xray[s].counters[c].down <= real[s][c])'
    BY DEF LedgerInv
  <1>2. SampleOf(s, c)' = SampleOf(s, c) /\ AgentClock(s)' = AgentClock(s)
    BY DEF SampleOf, AgentClock
  <1>3. ASSUME NEW x
        PROVE  Backed(x, s, c)' <=> Backed(x, s, c)
    BY <1>2 DEF Backed, Covers, Owed, Growth
  <1>4. \A x \in Marks(s, c)' : Backed(x, s, c)'
    BY <1>3 DEF LedgerInv
  <1>5. \A x, y \in Marks(s, c)' : x.at < y.at => Covers(x, y)
    BY DEF LedgerInv
  <1>6. QED
    BY <1>1, <1>4, <1>5

\* The initial states satisfy the ledger invariant.
LEMMA LedgerInit == Init => LedgerInv
  <1> SUFFICES ASSUME Init, NEW s \in Servers, NEW c \in Clients
               PROVE  /\ xray[s].counters[c].up + xray[s].counters[c].down
                            <= real[s][c]
                      /\ \A x \in Marks(s, c) : Backed(x, s, c)
                      /\ \A x, y \in Marks(s, c) : x.at < y.at => Covers(x, y)
                      /\ Solid(clients[c], s)
                      /\ Solid(disk[c], s)
    BY DEF LedgerInv
  <1>1. /\ real[s][c] = 0
        /\ xray[s].counters[c].up = 0
        /\ xray[s].counters[c].down = 0
        /\ clients[c] = UnbornClient
        /\ disk[c] = UnbornClient
    BY DEF Init, ZeroCounters
  <1>2. Marks(s, c) = {NoSample}
    BY <1>1, UnbornClientSolid DEF Marks, Init
  <1>3. Backed(NoSample, s, c)
    BY <1>1 DEF Backed, Covers, Owed, Growth, SampleOf, NoSample
  <1>4. ~(NoSample.at < NoSample.at)
    BY DEF NoSample
  <1>5. QED
    BY <1>1, <1>2, <1>3, <1>4, UnbornClientSolid

\* Time only makes later samples possible.
LEMMA TickKeepsLedger ==
    ASSUME TypeOK, LedgerInv, Tick
    PROVE  LedgerInv'
  <1> SUFFICES ASSUME NEW s \in Servers, NEW c \in Clients, NEW x \in Marks(s, c)
               PROVE  Backed(x, s, c)'
    BY DEF LedgerInv, Tick, Marks, Solid, Covers, Owed, Growth
  <1>1. Backed(x, s, c)
    BY DEF LedgerInv
  <1>2. /\ AgentClock(s) \in Int /\ AgentClock(s)' = AgentClock(s) + 1
        /\ x.at \in Nat
    BY MarksAreSamples, LedgerAssumption DEF Tick, AgentClock, TypeOK
  <1>3. Covers(x, SampleOf(s, c))' <=> Covers(x, SampleOf(s, c))
    BY DEF Covers, Owed, Growth, SampleOf, Tick
  <1>4. QED
    BY <1>1, <1>2, <1>3 DEF Backed, Tick

(* Steps of the world that leave every mark in place keep the invariant if *)
(* every mark stays backed. *)
LEMMA WorldStep ==
    ASSUME TypeOK, LedgerInv,
           UNCHANGED <<inflight, clients, disk>>,
           \A s \in Servers, c \in Clients :
              (xray[s].counters[c].up + xray[s].counters[c].down <= real[s][c])',
           \A s \in Servers, c \in Clients : \A x \in Marks(s, c) : Backed(x, s, c)'
    PROVE  LedgerInv'
  BY DEF LedgerInv, Marks, Solid, Covers, Owed, Growth

\* Real use backs one more unit of every mark.
LEMMA UseKeepsLedger ==
    ASSUME TypeOK, LedgerInv, NEW s0 \in Servers, NEW c0 \in Clients, Use(s0, c0)
    PROVE  LedgerInv'
  <1>1. ASSUME NEW s \in Servers, NEW c \in Clients, NEW x \in Marks(s, c)
        PROVE  /\ (xray[s].counters[c].up + xray[s].counters[c].down <= real[s][c])'
               /\ Backed(x, s, c)'
    <2>1. Backed(x, s, c) /\ xray[s].counters[c].up + xray[s].counters[c].down
                               <= real[s][c]
      BY DEF LedgerInv
    <2>2. /\ x.epoch \in Nat /\ x.up \in Nat /\ x.down \in Nat
          /\ x.at \in Nat /\ x.real \in Nat
      BY MarksAreSamples
    <2> DEFINE up == xray[s].counters[c].up
               down == xray[s].counters[c].down
    <2>3. /\ up \in Nat /\ down \in Nat /\ real[s][c] \in Nat
          /\ xray[s].epoch \in Nat
      BY DEF TypeOK, Counter
    <2>4. xray'[s].epoch = xray[s].epoch /\ AgentClock(s)' = AgentClock(s)
      <3>1. AgentClock(s)' = AgentClock(s)
        BY DEF Use, AgentClock
      <3>2. PICK f :
              xray' = [xray EXCEPT ![s0] = [xray[s0] EXCEPT !.counters = f]]
        <4>1. CASE xray' = [xray EXCEPT ![s0].counters[c0].up = @ + 1]
          BY ONLY <4>1
        <4>2. CASE xray' = [xray EXCEPT ![s0].counters[c0].down = @ + 1]
          BY ONLY <4>2
        <4>3. QED
          BY <4>1, <4>2 DEF Use
      <3>3. DOMAIN xray = Servers /\ xray[s] \in [epoch : Nat \ {0}, counters : [Clients -> Counter]]
        BY DEF TypeOK
      <3>4. xray'[s].epoch = xray[s].epoch
        BY ONLY <3>2, <3>3, s \in Servers
      <3>5. QED
        BY <3>1, <3>4
    <2>5. \/ /\ real'[s][c] = real[s][c]
             /\ xray'[s].counters[c].up = up
             /\ xray'[s].counters[c].down = down
          \/ /\ real'[s][c] = real[s][c] + 1
             /\ xray'[s].counters[c].up = up + 1
             /\ xray'[s].counters[c].down = down
          \/ /\ real'[s][c] = real[s][c] + 1
             /\ xray'[s].counters[c].up = up
             /\ xray'[s].counters[c].down = down + 1
      <3>1. xray[s].counters[c] \in Counter
        BY DEF TypeOK
      <3>2. CASE s # s0 \/ c # c0
        BY <3>1, <3>2 DEF Use, TypeOK, Counter
      <3>3. CASE s = s0 /\ c = c0
        <4>1. real'[s][c] = real[s][c] + 1
          BY <3>3 DEF Use, TypeOK
        <4>2. CASE xray' = [xray EXCEPT ![s].counters[c].up = @ + 1]
          <5>1. xray'[s].counters[c] = [xray[s].counters[c] EXCEPT !.up = @ + 1]
            BY <4>2 DEF TypeOK
          <5>2. QED
            BY <3>1, <4>1, <5>1 DEF Counter
        <4>3. CASE xray' = [xray EXCEPT ![s].counters[c].down = @ + 1]
          <5>1. xray'[s].counters[c] = [xray[s].counters[c] EXCEPT !.down = @ + 1]
            BY <4>3 DEF TypeOK
          <5>2. QED
            BY <3>1, <4>1, <5>1 DEF Counter
        <4>4. QED
          BY <3>3, <4>2, <4>3 DEF Use
      <3>4. QED
        BY <3>2, <3>3
    <2>6. /\ Growth(x.up, up) \in Nat /\ Growth(x.down, down) \in Nat
          /\ Growth(x.up, up + 1) \in Nat /\ Growth(x.up, up + 1) <= Growth(x.up, up) + 1
          /\ Growth(x.down, down + 1) \in Nat
          /\ Growth(x.down, down + 1) <= Growth(x.down, down) + 1
      BY <2>2, <2>3, GrowthFollowsUse
    <2>7. Covers(x, SampleOf(s, c)) <=>
            x.real + (IF x.epoch = xray[s].epoch
                      THEN Growth(x.up, up) + Growth(x.down, down)
                      ELSE up + down) <= real[s][c]
      BY DEF Covers, Owed, SampleOf
    <2>8. Covers(x, SampleOf(s, c))' <=>
            x.real + (IF x.epoch = xray[s].epoch
                      THEN Growth(x.up, xray'[s].counters[c].up)
                             + Growth(x.down, xray'[s].counters[c].down)
                      ELSE xray'[s].counters[c].up + xray'[s].counters[c].down)
              <= real'[s][c]
      BY <2>4 DEF Covers, Owed, SampleOf, Growth
    <2> HIDE DEF up, down
    <2>9. Covers(x, SampleOf(s, c))'
      <3>1. Covers(x, SampleOf(s, c))
        BY <2>1 DEF Backed
      <3>2. CASE x.epoch = xray[s].epoch
        BY <2>2, <2>3, <2>5, <2>6, <2>7, <2>8, <3>1, <3>2
      <3>3. CASE x.epoch # xray[s].epoch
        BY <2>2, <2>3, <2>5, <2>7, <2>8, <3>1, <3>3
      <3>4. QED
        BY <3>2, <3>3
    <2>10. x.real <= real'[s][c]
      BY <2>1, <2>2, <2>3, <2>5 DEF Backed
    <2>11. xray'[s].counters[c].up + xray'[s].counters[c].down <= real'[s][c]
      <3>1. up + down <= real[s][c]
        BY <2>1 DEF up, down
      <3>2. QED
        BY <2>3, <2>5, <3>1
    <2>12. QED
      BY <2>1, <2>4, <2>9, <2>10, <2>11 DEF Backed
  <1>2. \A s \in Servers, c \in Clients : NoSample \in Marks(s, c)
    BY DEF Marks
  <1>3. QED
    BY <1>1, <1>2, WorldStep DEF Use

(* Counters that start again from zero, in a new process or in place.      *)
LEMMA ZeroedCountersKeepLedger ==
    ASSUME TypeOK, LedgerInv, NEW s0 \in Servers,
           RestartXray(s0) \/ ResetCounters(s0)
    PROVE  LedgerInv'
  <1>1. ASSUME NEW s \in Servers, NEW c \in Clients, NEW x \in Marks(s, c)
        PROVE  /\ (xray[s].counters[c].up + xray[s].counters[c].down <= real[s][c])'
               /\ Backed(x, s, c)'
    <2>1. Backed(x, s, c) /\ xray[s].counters[c].up + xray[s].counters[c].down
                               <= real[s][c]
      BY DEF LedgerInv
    <2>2. /\ x.epoch \in Nat /\ x.up \in Nat /\ x.down \in Nat
          /\ x.at \in Nat /\ x.real \in Nat /\ real[s][c] \in Nat
      BY MarksAreSamples DEF TypeOK
    <2>3. real'[s][c] = real[s][c] /\ AgentClock(s)' = AgentClock(s)
      BY DEF RestartXray, ResetCounters, AgentClock
    <2>4. CASE s # s0
      <3>1. xray'[s] = xray[s]
        BY <2>4 DEF RestartXray, ResetCounters, TypeOK
      <3>2. Covers(x, SampleOf(s, c))' <=> Covers(x, SampleOf(s, c))
        BY <2>3, <3>1 DEF Covers, Owed, Growth, SampleOf
      <3>3. QED
        BY <2>1, <2>3, <3>1, <3>2 DEF Backed
    <2>5. CASE s = s0
      <3>1. xray'[s].counters[c].up = 0 /\ xray'[s].counters[c].down = 0
        BY <2>5 DEF RestartXray, ResetCounters, TypeOK, ZeroCounters
      <3>2. Growth(x.up, 0) = 0 /\ Growth(x.down, 0) = 0
        BY <2>2, GrowthFollowsUse
      <3>3. Covers(x, SampleOf(s, c))' <=>
              x.real + (IF x.epoch = xray'[s].epoch
                        THEN Growth(x.up, 0) + Growth(x.down, 0)
                        ELSE 0 + 0) <= real'[s][c]
        BY <3>1 DEF Covers, Owed, SampleOf, Growth
      <3>4. x.real <= real[s][c]
        BY <2>1 DEF Backed
      <3>5. Covers(x, SampleOf(s, c))'
        BY <2>2, <2>3, <3>2, <3>3, <3>4
      <3>6. QED
        BY <2>1, <2>2, <2>3, <3>1, <3>4, <3>5 DEF Backed
    <2>6. QED
      BY <2>4, <2>5
  <1>2. \A s \in Servers, c \in Clients : NoSample \in Marks(s, c)
    BY DEF Marks
  <1>3. QED
    BY <1>1, <1>2, WorldStep DEF RestartXray, ResetCounters

(* A fresh sample covers every mark there is, and no mark is later.        *)
LEMMA SendKeepsLedger ==
    ASSUME TypeOK, LedgerInv, NEW s0 \in Servers, NEW reported \in SUBSET Known,
           SendHeartbeat(s0, reported)
    PROVE  LedgerInv'
  <1> SUFFICES ASSUME NEW s \in Servers, NEW c \in Clients
               PROVE  /\ \A x \in Marks(s, c)' : Backed(x, s, c)
                      /\ \A x, y \in Marks(s, c)' : x.at < y.at => Covers(x, y)
    BY DEF LedgerInv, SendHeartbeat, Backed, Covers, Owed, Growth, Solid,
           SampleOf, AgentClock
  <1> DEFINE fresh == SampleOf(s, c)
  <1>1. /\ \A x \in Marks(s, c) : Backed(x, s, c)
        /\ \A x, y \in Marks(s, c) : x.at < y.at => Covers(x, y)
    BY DEF LedgerInv
  <1>2. CASE s # s0 \/ c \notin reported
    <2>1. Marks(s, c)' \subseteq Marks(s, c)
      BY <1>2 DEF SendHeartbeat, Marks
    <2>2. QED
      BY <1>1, <2>1
  <1>3. CASE s = s0 /\ c \in reported
    <2>1. Marks(s, c)' \subseteq Marks(s, c) \cup {fresh}
      BY <1>3 DEF SendHeartbeat, Marks
    <2>2. AgentClock(s) > 0 /\ AgentClock(s) \in Int
      BY <1>3, SampleOfType DEF SendHeartbeat
    <2>3. /\ fresh.up \in Nat /\ fresh.down \in Nat /\ fresh.real \in Nat
          /\ fresh.at = AgentClock(s) /\ fresh.real = real[s][c]
          /\ fresh.up = xray[s].counters[c].up
          /\ fresh.down = xray[s].counters[c].down
      <3>1. /\ fresh.at = AgentClock(s) /\ fresh.real = real[s][c]
            /\ fresh.up = xray[s].counters[c].up
            /\ fresh.down = xray[s].counters[c].down
        BY DEF SampleOf
      <3>2. QED
        BY <3>1, SampleOfType
    <2>4. Owed(fresh, fresh) = 0
      BY <2>3, GrowthFollowsUse DEF Owed
    <2>5. fresh.up + fresh.down <= fresh.real
      BY <2>3 DEF LedgerInv
    <2> HIDE DEF fresh
    <2>6. Backed(fresh, s, c)
      BY <2>2, <2>3, <2>4, <2>5 DEF Backed, Covers, fresh
    <2>7. ASSUME NEW x \in Marks(s, c)
          PROVE  Covers(x, fresh) /\ ~(fresh.at < x.at)
      <3>1. Covers(x, fresh)
        BY <1>1 DEF Backed, fresh
      <3>2. x.at \in Nat /\ (x.at # 0 => x.at <= AgentClock(s))
        BY <1>1, MarksAreSamples DEF Backed
      <3>3. QED
        BY <2>2, <2>3, <3>1, <3>2
    <2>8. ~(fresh.at < fresh.at)
      BY <2>2, <2>3
    <2>9. QED
      BY <1>1, <2>1, <2>6, <2>7, <2>8
  <1>4. QED
    BY <1>2, <1>3

(* Accounting a heartbeat turns samples in flight into cursors and leaves  *)
(* every record solid. *)
LEMMA AccountedFacts ==
    ASSUME TypeOK, LedgerInv, NEW hb \in inflight,
           NEW s \in Servers, NEW c \in Clients
    PROVE  /\ Accounted(hb)[c].cursors[s] \in Marks(s, c)
           /\ Solid(Accounted(hb)[c], s)
  <1> DEFINE book == [d \in Clients |-> AccountTraffic(clients[d], hb.server,
                                                       hb.traffic[d])]
  <1>1. hb.server \in Servers /\ \A d \in Clients : hb.traffic[d] \in Sample
    BY DEF TypeOK, Heartbeats
  <1>2. book \in [Clients -> Client]
    BY <1>1, AccountTrafficFacts DEF TypeOK
  <1>3. /\ Accounted(hb)[c].cursors = book[c].cursors
        /\ Solid(book[c], s) => Solid(Accounted(hb)[c], s)
    BY <1>2, SweepFacts DEF Accounted, TypeOK
  <1>4. clients[c] \in Client /\ book[c] = AccountTraffic(clients[c], hb.server,
                                                          hb.traffic[c])
    BY DEF TypeOK
  <1>5. /\ book[c].cursors[s] = clients[c].cursors[s]
             \/ (s = hb.server /\ book[c].cursors[s] = hb.traffic[c])
        /\ /\ Solid(clients[c], s)
           /\ clients[c].cursors[hb.server].at < hb.traffic[c].at
                => Covers(clients[c].cursors[hb.server], hb.traffic[c])
           => Solid(book[c], s)
    BY <1>1, <1>4, AccountTrafficFacts
  <1>6. /\ clients[c].cursors[s] \in Marks(s, c)
        /\ clients[c].cursors[hb.server] \in Marks(hb.server, c)
        /\ hb.traffic[c] \in Marks(hb.server, c)
    BY <1>1 DEF Marks
  <1>7. book[c].cursors[s] \in Marks(s, c)
    BY <1>5, <1>6
  <1>8. Solid(book[c], s)
    BY <1>1, <1>5, <1>6 DEF LedgerInv
  <1>9. QED
    BY <1>3, <1>7, <1>8

(* Every step of the panel, of an administrator, or of the network.        *)
LEMMA PanelKeepsLedger ==
    ASSUME TypeOK, LedgerInv,
           \/ \E hb \in inflight : LoseHeartbeat(hb)
           \/ Accounting
           \/ Administration
           \/ RestartPanel
    PROVE  LedgerInv'
  <1>1. UNCHANGED <<now, real, xray>>
    BY DEF LoseHeartbeat, Accounting, Heartbeat, HeartbeatSaveFails, AgentSync,
           Administration, CreateClient, UpdateClient, DeleteClient, RestartPanel, vars
  <1>2. /\ inflight' \subseteq inflight
        /\ disk' = disk \/ disk' = clients'
    BY DEF LoseHeartbeat, Accounting, Heartbeat, HeartbeatSaveFails, AgentSync, Save,
           Administration, CreateClient, UpdateClient, DeleteClient, RestartPanel, vars
  <1>3. ASSUME NEW s \in Servers, NEW c \in Clients
        PROVE  clients'[c].cursors[s] \in Marks(s, c) /\ Solid(clients'[c], s)
    <2>1. /\ clients[c] \in Client /\ disk[c] \in Client
          /\ Solid(clients[c], s) /\ Solid(disk[c], s)
          /\ clients[c].cursors[s] \in Marks(s, c)
          /\ disk[c].cursors[s] \in Marks(s, c)
          /\ NoSample \in Marks(s, c)
      BY DEF TypeOK, LedgerInv, Marks
    <2>2. CASE clients'[c] = clients[c]
      BY <2>1, <2>2
    <2>3. ASSUME NEW hb \in inflight, Heartbeat(hb)
          PROVE  clients'[c].cursors[s] \in Marks(s, c) /\ Solid(clients'[c], s)
      BY <2>3, AccountedFacts DEF Heartbeat
    <2>4. CASE AgentSync
      <3>1. clients \in [Clients -> Client] /\ now \in Nat /\ clients' = Sweep(clients)
        BY <2>4 DEF AgentSync, TypeOK
      <3>2. clients'[c].cursors = clients[c].cursors /\ Solid(clients'[c], s)
        BY <2>1, <3>1, SweepFacts
      <3>3. QED
        BY <2>1, <3>2
    <2>5. ASSUME NEW d \in Clients, NEW body \in Bodies, CreateClient(d, body)
          PROVE  clients'[c].cursors[s] \in Marks(s, c) /\ Solid(clients'[c], s)
      <3>1. clients'[c] = clients[c] \/ clients'[c] = NewClient(body)
        BY <2>5 DEF CreateClient, TypeOK
      <3>2. QED
        BY <2>1, <3>1, NewClientFacts
    <2>6. ASSUME NEW d \in Clients, NEW body \in Bodies, UpdateClient(d, body)
          PROVE  clients'[c].cursors[s] \in Marks(s, c) /\ Solid(clients'[c], s)
      <3>1. \/ clients'[c] = clients[c]
            \/ clients'[c] = PreserveAndRenewBilling(body, clients[c], now)
        BY <2>6 DEF UpdateClient, TypeOK
      <3>2. now \in Nat
        BY DEF TypeOK
      <3>3. QED
        BY <2>1, <3>1, <3>2, UpdateFacts
    <2>7. ASSUME NEW d \in Clients, DeleteClient(d)
          PROVE  clients'[c].cursors[s] \in Marks(s, c) /\ Solid(clients'[c], s)
      <3>1. /\ clients'[c].cursors = clients[c].cursors
            /\ clients'[c].cycle = clients[c].cycle
            /\ clients'[c].base = clients[c].base
        <4>1. \/ clients'[c] = clients[c]
              \/ clients'[c] = [clients[c] EXCEPT !.status = "deleted"]
          BY <2>7 DEF DeleteClient, TypeOK
        <4>2. QED
          BY <2>1, <4>1 DEF Client
      <3>2. QED
        BY <2>1, <3>1 DEF Solid
    <2>8. CASE RestartPanel
      <3>1. \/ clients'[c] = [UnbornClient EXCEPT !.status = "deleted"]
            \/ clients'[c] = disk[c]
        BY <2>8 DEF RestartPanel
      <3>2. QED
        BY <2>1, <3>1, UnbornClientSolid
    <2>9. CASE \E hb \in inflight : LoseHeartbeat(hb) \/ HeartbeatSaveFails(hb)
      BY <2>2, <2>9 DEF LoseHeartbeat, HeartbeatSaveFails, vars
    <2>10. QED
      BY <2>3, <2>4, <2>5, <2>6, <2>7, <2>8, <2>9 DEF Accounting, Administration
  <1>4. ASSUME NEW s \in Servers, NEW c \in Clients
        PROVE  /\ Marks(s, c)' \subseteq Marks(s, c)
               /\ Solid(clients[c], s)' /\ Solid(disk[c], s)'
    <2>1. Solid(disk[c], s) /\ disk[c].cursors[s] \in Marks(s, c)
      BY DEF LedgerInv, Marks
    <2>2. disk'[c].cursors[s] \in Marks(s, c) /\ Solid(disk'[c], s)
      BY <1>2, <1>3, <2>1
    <2>3. QED
      BY <1>2, <1>3, <2>2 DEF Marks, Solid
  <1>5. QED
    BY <1>1, <1>4, MarksMove

(* The ledger invariant, and with it the absence of overbilling, holds in  *)
(* every reachable state, for any number of servers, clients, heartbeats   *)
(* in flight and Xray restarts. *)
THEOREM LedgerCorrect == Spec => []LedgerInv
  <1>1. ASSUME TypeOK, LedgerInv, [Next]_vars
        PROVE  LedgerInv'
    <2>1. CASE UNCHANGED vars
      <3>1. \A s \in Servers, c \in Clients : Marks(s, c)' \subseteq Marks(s, c)
        BY <2>1 DEF vars, Marks
      <3>2. \A s \in Servers, c \in Clients :
               Solid(clients[c], s)' /\ Solid(disk[c], s)'
        BY <1>1, <2>1 DEF vars, LedgerInv, Solid
      <3>3. QED
        BY <1>1, <2>1, <3>1, <3>2, MarksMove DEF vars
    <2>2. CASE World
      BY <1>1, <2>2, TickKeepsLedger, UseKeepsLedger, ZeroedCountersKeepLedger DEF World
    <2>3. CASE Agents
      BY <1>1, <2>3, SendKeepsLedger, PanelKeepsLedger DEF Agents
    <2>4. CASE Accounting \/ Administration \/ RestartPanel
      BY <1>1, <2>4, PanelKeepsLedger
    <2>5. QED
      BY <1>1, <2>1, <2>2, <2>3, <2>4 DEF Next
  <1>2. TypeOK /\ TypeOK' /\ LedgerInv /\ [Next]_vars => LedgerInv'
    BY <1>1
  <1>3. QED
    BY LedgerInit, TypeCorrect, <1>2, PTL DEF Spec

(* No client is ever charged, in a billing cycle, for more traffic than it *)
(* used at that source since the cycle opened. *)
THEOREM NoOverbilling == Spec => []NeverOverbills
  <1>1. ASSUME TypeOK, LedgerInv
        PROVE  NeverOverbills
    <2>1. ASSUME NEW s \in Servers, NEW c \in Clients
          PROVE  clients[c].base[s] + clients[c].cycle[s] <= real[s][c]
      <3>1. /\ Solid(clients[c], s)
            /\ Backed(clients[c].cursors[s], s, c)
        BY <1>1 DEF LedgerInv, Marks
      <3>2. /\ clients[c].base[s] \in Nat /\ clients[c].cycle[s] \in Nat
            /\ clients[c].cursors[s].real \in Nat /\ real[s][c] \in Nat
        BY <1>1 DEF TypeOK, Client, Sample
      <3>3. QED
        BY <3>1, <3>2 DEF Solid, Backed
    <2>2. QED
      BY <2>1 DEF NeverOverbills
  <1>2. QED
    BY <1>1, TypeCorrect, LedgerCorrect, PTL

-----------------------------------------------------------------------------
(* Durability, enforcement and the order of samples.                       *)

\* No accounting yet.
Uncharged(client) ==
    /\ client.used = 0 /\ client.resetAt = 0
    /\ client.cursors = [s \in Servers |-> NoSample]

\* The amounts and cursors of two records are the same.
SameAccounting(client, other) ==
    /\ client.used = other.used /\ client.resetAt = other.resetAt
    /\ client.cursors = other.cursors

Enforced(client) ==
    client.status = "live" /\ client.enabled /\ client.swept => ~Limited(client)

\* What is on disk besides LedgerIsDurable: a client that never reached the
\* file has no accounting there, so that losing it loses none.
DurableInv ==
    \A c \in Clients :
        /\ SameAccounting(clients[c], disk[c])
        /\ clients[c].status = "unborn" => Uncharged(clients[c])
        /\ disk[c].status = "unborn" => Uncharged(disk[c])
        /\ Enforced(clients[c]) /\ Enforced(disk[c])

(* What the accounting of one sample changes: a later cursor of one        *)
(* source, and an amount by what that cursor moved.  (applyTrafficSample)  *)
LEMMA OneSampleMoves ==
    ASSUME NEW client \in Client, NEW source \in Servers, NEW sample \in Sample,
           NEW after, after = AccountTraffic(client, source, sample)
    PROVE  /\ after.status = client.status /\ after.resetAt = client.resetAt
           /\ client.status # "live" => after = client
           /\ \A s \in Servers :
                 after.cursors[s] # client.cursors[s] =>
                    s = source /\ after.cursors[s].at > client.cursors[s].at
           /\ after.used # client.used =>
                 /\ after.cursors[source] # client.cursors[source]
                 /\ after.used = AddTraffic(client.used,
                                    Charge(client.cursors[source], after.cursors[source]))
<1>. DEFINE old == client.cursors[source]
            baseline == SetsBaseline(client, source)
            due == IF baseline THEN 0 ELSE Charge(old, sample)
<1>1. CASE ~(client.status = "live" /\ TrafficSourceAllowed(client, source)
             /\ Acceptable(client, source, sample))
  BY <1>1 DEF AccountTraffic, ApplyTrafficSample
<1>2. CASE client.status = "live" /\ TrafficSourceAllowed(client, source)
             /\ Acceptable(client, source, sample)
  <2>1. after = [client EXCEPT !.used = AddTraffic(@, due),
                               !.cursors[source] = sample,
                               !.cycle[source] = @ + due,
                               !.base[source] = IF baseline THEN sample.real ELSE @]
    BY <1>2 DEF AccountTraffic, ApplyTrafficSample
  <2>2. /\ after.status = client.status /\ after.resetAt = client.resetAt
        /\ after.used = AddTraffic(client.used, due)
        /\ after.cursors = [client.cursors EXCEPT ![source] = sample]
    BY <2>1 DEF Client
  <2>3. client.cursors \in [Servers -> Sample] /\ client.used \in 0..MaxInt
    BY DEF Client
  <2>4. sample.at > old.at /\ sample.at \in Nat /\ old.at \in Nat
    BY <1>2, <2>3 DEF Acceptable, Sample
  <2>5. sample # old
    BY <2>4
  <2>6. baseline => after.used = client.used
    BY <2>2, <2>3, MaxIntAssumption DEF AddTraffic
  <2>7. ~baseline => after.used = AddTraffic(client.used, Charge(old, sample))
    BY <2>2
  <2>8. /\ after.cursors[source] = sample
        /\ \A s \in Servers : s # source => after.cursors[s] = client.cursors[s]
    BY <2>2, <2>3
  <2>. HIDE DEF baseline, due
  <2>. QED
    BY <1>2, <2>2, <2>4, <2>5, <2>6, <2>7, <2>8
<1>. QED
  BY <1>1, <1>2

\* A sweep enforces, and touches no accounting.
LEMMA SweepEnforces ==
    ASSUME NEW book \in [Clients -> Client], NEW c \in Clients, now \in Nat
    PROVE  LET after == Sweep(book)[c]
           IN  /\ Enforced(after) /\ SameAccounting(after, book[c])
               /\ after.status = book[c].status
<1>1. Sweep(book)[c] = IF book[c].status = "live" THEN EnforceBilling(book[c], now)
                                                  ELSE book[c]
  BY DEF Sweep
<1>2. book[c] \in Client
  OBVIOUS
<1>. DEFINE enabled == book[c].enabled /\ ~Expired(book[c], now) /\ ~Limited(book[c])
<1>3. CASE book[c].status = "live"
  <2>1. Sweep(book)[c] = [book[c] EXCEPT !.enabled = enabled, !.swept = TRUE]
    BY <1>1, <1>2, <1>3 DEF EnforceBilling, Client
  <2>. HIDE DEF enabled
  <2>2. /\ Sweep(book)[c].enabled = enabled /\ Sweep(book)[c].limit = book[c].limit
        /\ SameAccounting(Sweep(book)[c], book[c])
        /\ Sweep(book)[c].status = book[c].status
    BY <1>2, <2>1 DEF SameAccounting, Client
  <2>3. Limited(Sweep(book)[c]) <=> Limited(book[c])
    BY <2>2 DEF Limited, SameAccounting
  <2>. QED
    BY <2>2, <2>3 DEF Enforced, enabled
<1>4. CASE book[c].status # "live"
  BY <1>1, <1>4 DEF Enforced, SameAccounting
<1>. QED
  BY <1>3, <1>4

(* What a heartbeat does to one record.  (accountTrafficLocked)            *)
LEMMA HeartbeatMoves ==
    ASSUME TypeOK, NEW hb \in inflight, NEW c \in Clients,
           NEW after, after = Accounted(hb)[c]
    PROVE  /\ Enforced(after)
           /\ after.status = clients[c].status /\ after.resetAt = clients[c].resetAt
           /\ clients[c].status # "live" => SameAccounting(after, clients[c])
           /\ \A s \in Servers :
                 after.cursors[s] # clients[c].cursors[s] =>
                    s = hb.server /\ after.cursors[s].at > clients[c].cursors[s].at
           /\ after.used # clients[c].used =>
                 /\ after.cursors[hb.server] # clients[c].cursors[hb.server]
                 /\ after.used = AddTraffic(clients[c].used,
                        Charge(clients[c].cursors[hb.server], after.cursors[hb.server]))
<1>. DEFINE book == [d \in Clients |-> AccountTraffic(clients[d], hb.server,
                                                      hb.traffic[d])]
<1>1. /\ hb.server \in Servers /\ \A d \in Clients : hb.traffic[d] \in Sample
      /\ clients \in [Clients -> Client] /\ now \in Nat
  BY DEF TypeOK, Heartbeats
<1>2. book \in [Clients -> Client]
  BY <1>1, AccountTrafficFacts
<1>3. after = Sweep(book)[c]
  BY DEF Accounted
<1>4. book[c] = AccountTraffic(clients[c], hb.server, hb.traffic[c])
  OBVIOUS
<1>. HIDE DEF book
<1>5. /\ Enforced(after) /\ SameAccounting(after, book[c])
      /\ after.status = book[c].status
  BY <1>1, <1>2, <1>3, SweepEnforces
<1>6. /\ after.used = book[c].used /\ after.resetAt = book[c].resetAt
      /\ after.cursors = book[c].cursors
  BY <1>5 DEF SameAccounting
<1>7. /\ book[c].status = clients[c].status /\ book[c].resetAt = clients[c].resetAt
      /\ clients[c].status # "live" => book[c] = clients[c]
      /\ \A s \in Servers :
            book[c].cursors[s] # clients[c].cursors[s] =>
               s = hb.server /\ book[c].cursors[s].at > clients[c].cursors[s].at
      /\ book[c].used # clients[c].used =>
            /\ book[c].cursors[hb.server] # clients[c].cursors[hb.server]
            /\ book[c].used = AddTraffic(clients[c].used,
                   Charge(clients[c].cursors[hb.server], book[c].cursors[hb.server]))
  BY <1>1, <1>4, OneSampleMoves
<1>. QED
  BY <1>5, <1>6, <1>7 DEF SameAccounting

\* An edit keeps the cursors; it keeps the amount, or empties it.
LEMMA UpdateMoves ==
    ASSUME NEW client \in Client, NEW body \in Bodies, NEW time \in Nat,
           NEW after, after = PreserveAndRenewBilling(body, client, time)
    PROVE  /\ Enforced(after)
           /\ after.status = client.status /\ after.cursors = client.cursors
           /\ after.used \in {0, client.used}
<1>. DEFINE edited == [client EXCEPT !.enabled = body.enabled,
                                     !.expireAt = body.expireAt,
                                     !.limit = body.limit,
                                     !.grants = body.grants,
                                     !.swept = FALSE]
<1>1. /\ edited.swept = FALSE /\ edited.status = client.status
      /\ edited.cursors = client.cursors /\ edited.used = client.used
      /\ DOMAIN edited = DOMAIN client
  BY DEF Client
<1>2. \/ after = edited
      \/ after = [edited EXCEPT !.enabled = TRUE, !.used = 0, !.resetAt = time,
                                !.cycle = [s \in Servers |-> 0],
                                !.base = [s \in Servers |-> client.cursors[s].real]]
  BY DEF PreserveAndRenewBilling
<1>. HIDE DEF edited
<1>3. /\ after.swept = FALSE /\ after.status = edited.status
      /\ after.cursors = edited.cursors /\ after.used \in {0, edited.used}
  BY <1>1, <1>2 DEF Client
<1>. QED
  BY <1>1, <1>3 DEF Enforced

(* What a step may do to the accounting of one client: nothing; one sample *)
(* of a heartbeat; or an edit, that keeps the cursors.                     *)
LEMMA AccountingMoves ==
    ASSUME TypeOK, DurableInv, Next, NEW c \in Clients
    PROVE  \/ /\ clients'[c].used = clients[c].used
              /\ clients'[c].cursors = clients[c].cursors
           \/ \E hb \in inflight : clients' = Accounted(hb)
           \/ /\ clients'[c].cursors = clients[c].cursors
              /\ clients'[c].used \in {0, clients[c].used}
<1>0. /\ clients \in [Clients -> Client] /\ disk \in [Clients -> Client] /\ now \in Nat
      /\ SameAccounting(clients[c], disk[c])
      /\ clients[c].status = "unborn" => Uncharged(clients[c])
      /\ disk[c].status = "unborn" => Uncharged(disk[c])
  BY DEF TypeOK, DurableInv
<1>1. CASE World \/ Agents
  BY <1>1 DEF World, Agents, Tick, RestartXray, ResetCounters, Use, SendHeartbeat,
              LoseHeartbeat
<1>2. CASE Accounting
  <2>1. CASE AgentSync
    BY <1>0, <2>1, SweepEnforces DEF AgentSync, SameAccounting
  <2>. QED
    BY <1>2, <2>1 DEF Accounting, Heartbeat, HeartbeatSaveFails, vars
<1>3. CASE Administration
  <2>1. ASSUME NEW d \in Clients, NEW body \in Bodies, CreateClient(d, body)
        PROVE  clients'[c].used = clients[c].used /\ clients'[c].cursors = clients[c].cursors
    <3>1. CASE c = d
      BY <1>0, <2>1, <3>1 DEF CreateClient, NewClient, UnbornClient, Uncharged
    <3>2. CASE c # d
      BY <1>0, <2>1, <3>2 DEF CreateClient
    <3>. QED
      BY <3>1, <3>2
  <2>2. ASSUME NEW d \in Clients, NEW body \in Bodies, UpdateClient(d, body)
        PROVE  /\ clients'[c].cursors = clients[c].cursors
               /\ clients'[c].used \in {0, clients[c].used}
    BY <1>0, <2>2, UpdateMoves DEF UpdateClient
  <2>3. ASSUME NEW d \in Clients, DeleteClient(d)
        PROVE  clients'[c].used = clients[c].used /\ clients'[c].cursors = clients[c].cursors
    BY <1>0, <2>3 DEF DeleteClient, Client
  <2>. QED
    BY <1>3, <2>1, <2>2, <2>3 DEF Administration
<1>4. CASE RestartPanel
  <2>1. \/ clients'[c] = disk[c]
        \/ /\ disk[c].status = "unborn"
           /\ clients'[c] = [UnbornClient EXCEPT !.status = "deleted"]
    BY <1>4 DEF RestartPanel
  <2>. QED
    BY <1>0, <2>1 DEF UnbornClient, SameAccounting, Uncharged
<1>. QED
  BY <1>1, <1>2, <1>3, <1>4 DEF Next

(* Every handler saves what it charges, or restores it; a panel that comes *)
(* back finds the same amounts.  (agentHeartbeat, clientByID, SaveLocked)  *)
LEMMA DurableStep ==
    ASSUME TypeOK, DurableInv, [Next]_vars
    PROVE  DurableInv'
<1>0. /\ clients \in [Clients -> Client] /\ disk \in [Clients -> Client] /\ now \in Nat
      /\ \A c \in Clients :
            /\ SameAccounting(clients[c], disk[c])
            /\ clients[c].status = "unborn" => Uncharged(clients[c])
            /\ disk[c].status = "unborn" => Uncharged(disk[c])
            /\ Enforced(clients[c]) /\ Enforced(disk[c])
  BY DEF TypeOK, DurableInv
<1>1. ASSUME \A c \in Clients :
                /\ clients'[c].status = "unborn" => Uncharged(clients'[c])
                /\ Enforced(clients'[c]),
             \/ disk' = clients'
             \/ disk' = disk /\ \A c \in Clients : SameAccounting(clients'[c], clients[c])
      PROVE  DurableInv'
  BY <1>0, <1>1 DEF DurableInv, SameAccounting, Uncharged, Enforced, Limited
<1>2. ASSUME UNCHANGED <<clients, disk>> PROVE DurableInv'
  BY <1>0, <1>2 DEF DurableInv, SameAccounting, Uncharged, Enforced, Limited
<1>3. CASE UNCHANGED vars \/ World \/ Agents
  BY <1>2, <1>3 DEF vars, World, Agents, Tick, RestartXray, ResetCounters, Use,
                    SendHeartbeat, LoseHeartbeat
<1>4. ASSUME NEW hb \in inflight, Heartbeat(hb) PROVE DurableInv'
  <2>1. clients' = Accounted(hb) /\ disk' = clients'
    BY <1>4 DEF Heartbeat, Save
  <2>2. ASSUME NEW c \in Clients
        PROVE  /\ Enforced(clients'[c])
               /\ clients'[c].status = "unborn" => Uncharged(clients'[c])
    <3>1. /\ Enforced(clients'[c]) /\ clients'[c].status = clients[c].status
          /\ clients[c].status # "live" => SameAccounting(clients'[c], clients[c])
      BY <2>1, HeartbeatMoves
    <3>. QED
      BY <1>0, <3>1 DEF SameAccounting, Uncharged
  <2>. QED
    BY <1>1, <2>1, <2>2
<1>5. ASSUME NEW hb \in inflight, HeartbeatSaveFails(hb) PROVE DurableInv'
  BY <1>2, <1>5 DEF HeartbeatSaveFails, vars
<1>6. CASE AgentSync
  <2>1. clients' = Sweep(clients) /\ (disk' = clients' \/ disk' = disk)
    BY <1>6 DEF AgentSync, Save
  <2>2. \A c \in Clients : /\ Enforced(clients'[c]) /\ SameAccounting(clients'[c], clients[c])
                           /\ clients'[c].status = clients[c].status
    BY <1>0, <2>1, SweepEnforces
  <2>. QED
    BY <1>0, <1>1, <2>1, <2>2 DEF SameAccounting, Uncharged
<1>7. ASSUME NEW d \in Clients, NEW body \in Bodies, CreateClient(d, body) PROVE DurableInv'
  <2>1. /\ clients' = [clients EXCEPT ![d] = NewClient(body)]
        /\ disk' = clients' \/ disk' = disk
        /\ clients[d].status = "unborn"
    BY <1>7 DEF CreateClient, Save
  <2>2. /\ NewClient(body).status = "live" /\ NewClient(body).swept = FALSE
        /\ NewClient(body).used = 0 /\ NewClient(body).resetAt = 0
        /\ NewClient(body).cursors = [s \in Servers |-> NoSample]
    BY DEF NewClient, UnbornClient
  <2>3. Enforced(NewClient(body)) /\ SameAccounting(NewClient(body), clients[d])
    BY <1>0, <2>1, <2>2 DEF Enforced, SameAccounting, Uncharged
  <2>4. \A c \in Clients : clients'[c] = IF c = d THEN NewClient(body) ELSE clients[c]
    BY <1>0, <2>1
  <2>. QED
    BY <1>0, <1>1, <2>1, <2>2, <2>3, <2>4 DEF SameAccounting
<1>8. ASSUME NEW d \in Clients, NEW body \in Bodies, UpdateClient(d, body) PROVE DurableInv'
  <2>. DEFINE after == PreserveAndRenewBilling(body, clients[d], now)
  <2>1. /\ clients' = [clients EXCEPT ![d] = after] /\ disk' = clients'
        /\ clients[d].status = "live"
    BY <1>8 DEF UpdateClient, Save
  <2>2. Enforced(after) /\ after.status = "live"
    BY <1>0, <2>1, UpdateMoves
  <2>3. \A c \in Clients : clients'[c] = IF c = d THEN after ELSE clients[c]
    BY <1>0, <2>1
  <2>. HIDE DEF after
  <2>. QED
    BY <1>0, <1>1, <2>1, <2>2, <2>3
<1>9. ASSUME NEW d \in Clients, DeleteClient(d) PROVE DurableInv'
  <2>. DEFINE after == [clients[d] EXCEPT !.status = "deleted"]
  <2>1. /\ clients' = [clients EXCEPT ![d] = after]
        /\ disk' = clients' \/ disk' = disk
    BY <1>0, <1>9 DEF DeleteClient, Save
  <2>2. after.status = "deleted" /\ SameAccounting(after, clients[d])
    BY <1>0 DEF SameAccounting, Client
  <2>3. \A c \in Clients : clients'[c] = IF c = d THEN after ELSE clients[c]
    BY <1>0, <2>1
  <2>. HIDE DEF after
  <2>. QED
    BY <1>0, <1>1, <2>1, <2>2, <2>3 DEF SameAccounting, Enforced
<1>10. CASE RestartPanel
  <2>1. \A c \in Clients :
           \/ clients'[c] = disk[c]
           \/ /\ disk[c].status = "unborn"
              /\ clients'[c] = [UnbornClient EXCEPT !.status = "deleted"]
    BY <1>10 DEF RestartPanel
  <2>2. \A c \in Clients :
           /\ SameAccounting(clients'[c], clients[c]) /\ Enforced(clients'[c])
           /\ clients'[c].status = "unborn" => Uncharged(clients'[c])
    BY <1>0, <2>1 DEF UnbornClient, SameAccounting, Uncharged, Enforced
  <2>3. disk' = disk
    BY <1>10 DEF RestartPanel
  <2>. QED
    BY <1>1, <2>2, <2>3
<1>. QED
  BY <1>3, <1>4, <1>5, <1>6, <1>7, <1>8, <1>9, <1>10 DEF Next, Accounting, Administration

(* In every reachable state the accounting on disk is the accounting in    *)
(* memory, and whoever was enforced since the last edit is within limits.  *)
THEOREM DurableCorrect == Spec => []DurableInv
<1>1. Init => DurableInv
  <2>1. ASSUME Init, NEW c \in Clients
        PROVE  clients[c] = UnbornClient /\ disk[c] = UnbornClient
    BY <2>1 DEF Init
  <2>2. Uncharged(UnbornClient) /\ Enforced(UnbornClient)
    BY DEF Uncharged, Enforced, UnbornClient
  <2>. QED
    BY <2>1, <2>2 DEF DurableInv, SameAccounting
<1>2. TypeOK /\ DurableInv /\ [Next]_vars => DurableInv'
  BY DurableStep
<1>. QED
  BY <1>1, <1>2, TypeCorrect, PTL DEF Spec

(* A restart of the panel, at any moment, neither forgets nor repeats a    *)
(* charge.  (agentHeartbeat, the PUT of clientByID, SaveLocked)            *)
THEOREM LedgerDurable == Spec => []LedgerIsDurable
<1>1. DurableInv => LedgerIsDurable
  BY DEF DurableInv, SameAccounting, LedgerIsDurable
<1>. QED
  BY <1>1, DurableCorrect, PTL

(* A client that is enabled and over its limit was edited since the last   *)
(* heartbeat or sync.  (accountTrafficLocked, enforceClientBilling)        *)
THEOREM LimitsEnforced == Spec => []OverLimitOnlyAfterEdit
<1>1. DurableInv /\ TypeOK => OverLimitOnlyAfterEdit
  BY DEF DurableInv, Enforced, OverLimitOnlyAfterEdit
<1>. QED
  BY <1>1, DurableCorrect, TypeCorrect, PTL

(* No step of anybody moves a cursor back: samples are accounted in the    *)
(* order in which the agent took them.  (applyTrafficSample)               *)
THEOREM CursorsAdvance == Spec => CursorsOnlyAdvance
<1>1. TypeOK /\ DurableInv /\ [Next]_vars
      => [\A c \in Clients, s \in Servers :
             clients'[c].cursors[s] # clients[c].cursors[s]
                => clients'[c].cursors[s].at > clients[c].cursors[s].at]_vars
  <2>1. SUFFICES ASSUME TypeOK, DurableInv, Next, NEW c \in Clients, NEW s \in Servers,
                        clients'[c].cursors[s] # clients[c].cursors[s]
                 PROVE  clients'[c].cursors[s].at > clients[c].cursors[s].at
    BY DEF vars
  <2>2. PICK hb \in inflight : clients' = Accounted(hb)
    BY <2>1, AccountingMoves
  <2>. QED
    BY <2>1, <2>2, HeartbeatMoves
<1>. QED
  BY <1>1, TypeCorrect, DurableCorrect, PTL DEF Spec, CursorsOnlyAdvance

(* An amount moves only by what one source's cursor moved, or to zero at a *)
(* renewal: no step charges two sources, and no edit sets an amount.       *)
(* (accountTrafficLocked, preserveAndRenewBilling)                         *)
THEOREM OneSourceCharged == Spec => ChargedToOneSource
<1>1. TypeOK /\ DurableInv /\ [Next]_vars
      => [\A c \in Clients : clients'[c].used # clients[c].used =>
            \/ clients'[c].used = 0
            \/ \E s \in Servers :
                  /\ clients'[c].cursors[s] # clients[c].cursors[s]
                  /\ clients'[c].used =
                        AddTraffic(clients[c].used,
                                   Charge(clients[c].cursors[s], clients'[c].cursors[s]))
                  /\ \A t \in Servers \ {s} :
                        clients'[c].cursors[t] = clients[c].cursors[t]]_vars
  <2>1. SUFFICES ASSUME TypeOK, DurableInv, Next, NEW c \in Clients,
                        clients'[c].used # clients[c].used, clients'[c].used # 0
                 PROVE  \E s \in Servers :
                          /\ clients'[c].cursors[s] # clients[c].cursors[s]
                          /\ clients'[c].used =
                                AddTraffic(clients[c].used,
                                    Charge(clients[c].cursors[s], clients'[c].cursors[s]))
                          /\ \A t \in Servers \ {s} :
                                clients'[c].cursors[t] = clients[c].cursors[t]
    BY DEF vars
  <2>2. PICK hb \in inflight : clients' = Accounted(hb)
    BY <2>1, AccountingMoves
  <2>3. hb.server \in Servers
    BY <2>1 DEF TypeOK, Heartbeats
  <2>4. /\ clients'[c].cursors[hb.server] # clients[c].cursors[hb.server]
        /\ clients'[c].used = AddTraffic(clients[c].used,
               Charge(clients[c].cursors[hb.server], clients'[c].cursors[hb.server]))
        /\ \A s \in Servers :
              clients'[c].cursors[s] # clients[c].cursors[s] => s = hb.server
    BY <2>1, <2>2, HeartbeatMoves
  <2>. QED
    BY <2>3, <2>4
<1>. QED
  BY <1>1, TypeCorrect, DurableCorrect, PTL DEF Spec, ChargedToOneSource


-----------------------------------------------------------------------------
(* What a client is shown is the sum of what its sources were charged.     *)
(* The amount is kept beside the charges and capped at each addition; that *)
(* it still is their capped sum is an invariant of memory and disk.        *)

Capped(n) == IF n > MaxInt THEN MaxInt ELSE n

Summed(client) == client.used = Capped(SumFunction(client.cycle))

SummedInv == \A c \in Clients : Summed(clients[c]) /\ Summed(disk[c])

\* An addition capped after a capped addition is the addition, capped.
LEMMA CapsCompose ==
    ASSUME NEW m \in Nat, NEW d \in Nat
    PROVE  AddTraffic(Capped(m), d) = Capped(m + d)
  BY MaxIntAssumption DEF AddTraffic, Capped

\* A client who was charged for nothing has used nothing.
LEMMA ZeroIsSummed ==
    ASSUME NEW client, client.used = 0, client.cycle = [s \in Servers |-> 0]
    PROVE  Summed(client)
<1>1. SumFunction(client.cycle) = 0
  BY SumOfZeros, LedgerAssumption
<1>. QED
  BY <1>1, MaxIntAssumption DEF Summed, Capped

\* One sample adds the same to the amount and to one source.
LEMMA SampleKeepsSum ==
    ASSUME NEW client \in Client, NEW source \in Servers, NEW sample \in Sample,
           Summed(client)
    PROVE  Summed(AccountTraffic(client, source, sample))
<1>. DEFINE due == IF SetsBaseline(client, source) THEN 0
                   ELSE Charge(client.cursors[source], sample)
            after == ApplyTrafficSample(client, source, sample)
<1>1. /\ due \in Nat /\ client.cycle \in [Servers -> Nat]
      /\ client.cursors[source] \in Sample
  BY ChargeAtMostOwed DEF Client
<1>2. CASE ~Acceptable(client, source, sample)
  BY <1>2 DEF AccountTraffic, ApplyTrafficSample
<1>3. CASE Acceptable(client, source, sample)
  <2>. DEFINE cycle == [client.cycle EXCEPT ![source] = @ + due]
  <2>1. after.used = AddTraffic(client.used, due) /\ after.cycle = cycle
    BY <1>3 DEF ApplyTrafficSample, Client
  <2>. HIDE DEF due
  <2>2. SumFunction(cycle) = SumFunction(client.cycle) + due
    BY <1>1, SumRaised, LedgerAssumption
  <2>3. SumFunction(client.cycle) \in Nat
    BY <1>1, SumIsNumber, LedgerAssumption
  <2>. HIDE DEF cycle, after
  <2>4. Summed(after)
    BY <1>1, <2>1, <2>2, <2>3, CapsCompose DEF Summed
  <2>. QED
    BY <2>4 DEF AccountTraffic, after
<1>. QED
  BY <1>2, <1>3

\* Enforcement touches neither.
LEMMA SweepKeepsSum ==
    ASSUME now \in Nat, NEW book \in [Clients -> Client],
           \A c \in Clients : Summed(book[c]), NEW c \in Clients
    PROVE  Summed(Sweep(book)[c])
<1>1. /\ EnforceBilling(book[c], now).used = book[c].used
      /\ EnforceBilling(book[c], now).cycle = book[c].cycle
  BY DEF EnforceBilling, Client
<1>. QED
  BY <1>1 DEF Sweep, Summed

\* A renewal empties both; any other edit touches neither.
LEMMA UpdateKeepsSum ==
    ASSUME NEW client \in Client, NEW body \in Bodies, NEW time \in Nat, Summed(client),
           NEW after, after = PreserveAndRenewBilling(body, client, time)
    PROVE  Summed(after)
<1>. DEFINE edited == [client EXCEPT !.enabled = body.enabled,
                                     !.expireAt = body.expireAt,
                                     !.limit = body.limit,
                                     !.grants = body.grants,
                                     !.swept = FALSE]
<1>1. /\ edited.used = client.used /\ edited.cycle = client.cycle
      /\ DOMAIN edited = DOMAIN client
  BY DEF Client
<1>2. \/ after = edited
      \/ after = [edited EXCEPT !.enabled = TRUE, !.used = 0, !.resetAt = time,
                                !.cycle = [s \in Servers |-> 0],
                                !.base = [s \in Servers |-> client.cursors[s].real]]
  BY DEF PreserveAndRenewBilling
<1>. HIDE DEF edited
<1>3. \/ after.used = client.used /\ after.cycle = client.cycle
      \/ after.used = 0 /\ after.cycle = [s \in Servers |-> 0]
  BY <1>1, <1>2 DEF Client
<1>. QED
  BY <1>3, ZeroIsSummed DEF Summed

LEMMA SummedStep ==
    ASSUME TypeOK, SummedInv, [Next]_vars
    PROVE  SummedInv'
<1>0. /\ clients \in [Clients -> Client] /\ disk \in [Clients -> Client] /\ now \in Nat
      /\ \A c \in Clients : Summed(clients[c]) /\ Summed(disk[c])
  BY DEF TypeOK, SummedInv
<1>1. ASSUME \A c \in Clients : Summed(clients'[c]), disk' = clients' \/ disk' = disk
      PROVE  SummedInv'
  BY <1>0, <1>1 DEF SummedInv, Summed, Capped
<1>2. ASSUME clients' = clients, disk' = disk PROVE SummedInv'
  BY <1>0, <1>1, <1>2
<1>3. CASE UNCHANGED vars \/ World \/ Agents
  BY <1>2, <1>3 DEF vars, World, Agents, Tick, RestartXray, ResetCounters, Use,
                    SendHeartbeat, LoseHeartbeat
<1>4. ASSUME NEW hb \in inflight, Heartbeat(hb) PROVE SummedInv'
  <2>. DEFINE book == [c \in Clients |-> AccountTraffic(clients[c], hb.server,
                                                        hb.traffic[c])]
  <2>1. hb.server \in Servers /\ \A c \in Clients : hb.traffic[c] \in Sample
    BY DEF TypeOK, Heartbeats
  <2>2. book \in [Clients -> Client] /\ \A c \in Clients : Summed(book[c])
    BY <1>0, <2>1, AccountTrafficFacts, SampleKeepsSum
  <2>3. clients' = Sweep(book) /\ disk' = clients'
    BY <1>4 DEF Heartbeat, Accounted, Save
  <2>. HIDE DEF book
  <2>. QED
    BY <1>0, <1>1, <2>2, <2>3, SweepKeepsSum
<1>5. ASSUME NEW hb \in inflight, HeartbeatSaveFails(hb) PROVE SummedInv'
  BY <1>2, <1>5 DEF HeartbeatSaveFails, vars
<1>6. CASE AgentSync
  <2>1. clients' = Sweep(clients) /\ (disk' = clients' \/ disk' = disk)
    BY <1>6 DEF AgentSync, Save
  <2>. QED
    BY <1>0, <1>1, <2>1, SweepKeepsSum
<1>7. ASSUME NEW d \in Clients, NEW after, Summed(after),
             clients' = [clients EXCEPT ![d] = after], disk' = clients' \/ disk' = disk
      PROVE  SummedInv'
  BY <1>0, <1>1, <1>7
<1>8. ASSUME NEW d \in Clients, NEW body \in Bodies, CreateClient(d, body) PROVE SummedInv'
  <2>1. Summed(NewClient(body))
    BY ZeroIsSummed DEF NewClient, UnbornClient
  <2>. QED
    BY <1>7, <1>8, <2>1 DEF CreateClient, Save
<1>9. ASSUME NEW d \in Clients, NEW body \in Bodies, UpdateClient(d, body) PROVE SummedInv'
  BY <1>0, <1>7, <1>9, UpdateKeepsSum DEF UpdateClient, Save
<1>10. ASSUME NEW d \in Clients, DeleteClient(d) PROVE SummedInv'
  <2>1. Summed([clients[d] EXCEPT !.status = "deleted"])
    BY <1>0 DEF Summed, Client
  <2>. QED
    BY <1>0, <1>7, <1>10, <2>1 DEF DeleteClient, Save
<1>11. CASE RestartPanel
  <2>1. Summed([UnbornClient EXCEPT !.status = "deleted"])
    BY ZeroIsSummed DEF UnbornClient
  <2>2. \A c \in Clients : \/ clients'[c] = disk[c]
                           \/ clients'[c] = [UnbornClient EXCEPT !.status = "deleted"]
    BY <1>11 DEF RestartPanel
  <2>3. disk' = disk
    BY <1>11 DEF RestartPanel
  <2>. QED
    BY <1>0, <1>1, <2>1, <2>2, <2>3
<1>. QED
  BY <1>3, <1>4, <1>5, <1>6, <1>8, <1>9, <1>10, <1>11 DEF Next, Accounting, Administration

(* What a client is shown and limited by is, for any number of servers and *)
(* in whatever order their samples come, the sum of what each was charged, *)
(* capped once where int64 saturates.  (applyTrafficSample, addTraffic,    *)
(* preserveAndRenewBilling)                                                *)
THEOREM UsageSummed == Spec => []UsageIsSumOfCharges
<1>1. Init => SummedInv
  <2>1. ASSUME Init, NEW c \in Clients
        PROVE  clients[c] = UnbornClient /\ disk[c] = UnbornClient
    BY <2>1 DEF Init
  <2>2. Summed(UnbornClient)
    BY ZeroIsSummed DEF UnbornClient
  <2>. QED
    BY <2>1, <2>2 DEF SummedInv
<1>2. TypeOK /\ SummedInv /\ [Next]_vars => SummedInv'
  BY SummedStep
<1>3. SummedInv => UsageIsSumOfCharges
  BY DEF SummedInv, Summed, Capped, UsageIsSumOfCharges
<1>. QED
  BY <1>1, <1>2, <1>3, TypeCorrect, PTL DEF Spec
=============================================================================
