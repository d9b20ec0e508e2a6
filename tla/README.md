# YuChen Panel: specifications and proofs

TLA+ modules, TLC configurations and TLAPS proofs for the panel's Go backend
and its agent. The panel is a single-machine control panel for Xray: one Go
process keeps all records in memory and in one JSON file, and an agent on each
server reports traffic and applies the Xray configuration it is sent.

## The system

| Component | Source | State | Operations |
|---|---|---|---|
| Panel store | `backend/internal/store/store.go` | `store.Data` in memory, `yuchen-panel.json` (below and in the modules: `panel.json`) | open (with the merge of local servers), `SaveLocked` |
| Traffic billing | `backend/internal/api/traffic.go` | used traffic, limit, expiry, one cursor per client and server | account a heartbeat, enforce, renew |
| Agent API | `backend/internal/api/agent.go` | the server's record | heartbeat, sync |
| Clients | `backend/internal/api/clients.go` | client records | create, update, delete, create with a relay |
| Inventory | `servers.go`, `nodes.go`, `relays.go` | servers, nodes, relays | create, update, delete, list (which merges servers) |
| Xray configuration | `backend/internal/xray/config.go` | none | from records to inbounds and their users |
| Subscription | `subscription.go`, `subscription_formats.go`, `singbox.go` | none | from records to links |
| Agent | `agent/cmd/agent/main.go`, `traffic.go` | configuration file, temporary file, marker file, memory of the last round | heartbeat, sync, test, install, reload |
| Upgrade tasks | `backend/internal/api/upgrade_tasks.go`, `scripts/yuchen-panel`, `deploy/install.sh` | `upgrade-task-latest.json`, the runner process | create, poll, clear, run, recover |
| Update checks | `backend/internal/api/updates.go`, `internal/version` | none | compare versions, offer a release |
| Network policy | `network_policy.go`, and its readers in `config.go`, the subscriptions, `system.go`, `node_diagnosis.go` | policy and its backup | save, preview, rollback |
| Landing exits | `landing_exits.go`, `tools.go` | SOCKS5 exits | create, bulk import, update, delete, test |
| Authentication | `auth.go`, `scripts/yuchen-panel` | the administrator's password | change, `reset-password` |
| System checks and diagnosis | `system.go`, `node_diagnosis.go` | none | read records, the policy and the host |
| Server entry point | `backend/cmd/server/main.go` | the process | open the store, serve |
| Dashboard, logs, health, web interface | the rest | almost none | reads |

How they interact. HTTP handlers run concurrently and take `store.Mu`; nearly
all hold it from their first read to their save. The agent calls the panel over
HTTP, a heartbeat and then a sync in every round, and gives a call up after
twenty seconds. The configuration and the subscription are both computed from
the records when they are asked for. An upgrade is started by the panel as a
transient systemd unit; the two share only the status file, and the upgrade
restarts the panel. The `reset-password` command shares `panel.json` with the
running panel, and the name of the temporary file both write before they rename
it.

What is hard. Heartbeats carry absolute counters and may be late, repeated,
reordered or lost, while Xray, the agent and the panel restart. Saves fail, and
some handlers undo their work then and others do not. The token check of the
agent API and the handler's work take the lock separately. The agent may die
between any two steps of an apply, and a reload may fail half-way. The status
file of an upgrade is checked and written later, without a lock, truncated
before it is written, by two kinds of process. `panel.json` is replaced by
renaming, and a command outside the panel does the same with the same temporary
name. Records refer to each other by id and only the checks of the handlers keep
the references in order. One policy is normalised by three functions and read
by five; versions are compared by two parsers and recognised by a third.
`PROJECT.json` lists these hazards at their lines.

What makes each part correct. Billing: no byte is charged twice, none of an
earlier cycle, and everything that can be is charged in the end; a client past
its limit does not stay enabled. Agent: Xray runs what the panel wants or the
agent knows that it does not; its reports are true. Upgrade: a success was
installed, nothing is downgraded, the lock opens again. Inventory: references
exist, what is offered is what is served or is named on the system page, a
client keeps its exit or the loss is shown, and loses access with its last
grant. Settings: what was acknowledged stands, the file can always be read, the
policy shown is the one served, a verdict on an exit is about that exit.

## The modules

### Traffic: `Billing`, `TrafficLedger`, `MCTrafficLedger`, `TrafficLedgerProofs`, `DataLemmas`

`Billing` holds `traffic.go` as operators on one client record:
`ApplyTrafficSample`, `AccountTraffic`, `EnforceBilling`,
`PreserveAndRenewBilling`, with the names of the Go functions. A sample is a
cursor of the code: process identity of Xray (`epoch`), the two counters and
the agent's time. It also carries the real traffic behind it, and a client
carries what each source was charged in this cycle (`cycle`) and what it had
used before (`base`): history, read by properties only.

`TrafficLedger` closes the loop. `Use`, `RestartXray`, `ResetCounters` and
`Tick` are the world; `SendHeartbeat` and `LoseHeartbeat` are the agent and the
network (a heartbeat stays in `inflight` until it is lost, so it is delivered in
any order, any number of times or never); `Heartbeat`, `HeartbeatSaveFails`,
`AgentSync`, `CreateClient`, `UpdateClient`, `DeleteClient` and `RestartPanel`
are the panel, one action per locked section. `clients` is memory and `disk`
the file.

| Run | Shows |
|---|---|
| `LedgerDelays` | two heartbeats in flight from an agent whose clock runs ahead, a renewal, a limit, restarts, counters reset in place: `NeverOverbills` and the inductive invariant `LedgerInv` behind it, memory equal to disk, cursors that only advance, no enabled client over its limit except between an edit and the next report |
| `LedgerSources` | two servers with clocks ahead, saturation at `MaxInt = 1`: the amount is the saturated sum of its sources, each step charges one |
| `LedgerLive` | enforcement and complete billing |
| `LedgerRenewalDoc` | a documented promise the code does not keep (below) |

Bounds. `MaxTime`, `MaxReal`, `MaxEpoch` and `MaxInFlight` stop the world, not
the panel. Two epochs make one restart, which is the only way an epoch matters
(same or different); two units of traffic distinguish a baseline from growth;
two heartbeats in flight give every reordering of a pair, and a cursor is
compared with one sample at a time; with the agent's clock one ahead, two ticks
give three sample times. `LedgerSources` needs one epoch only: its
subject is the sum. The theorems have no bounds.

Fairness. `Tick`: time passes. `AgentSync` (weak): agents poll. `LoseHeartbeat`
(weak): a call times out. `SendHeartbeat` and `News` (strong): the agent's loop
sends again whatever was lost, and a network that is not broken for ever lets
some heartbeat with news through. `LedgerLive` has one epoch and one expiry time,
hence no renewal: the counters of a process that ended unreported are really lost,
and a renewal drops what was not reported before it. Handlers never
block on each other for longer than a save.

### Agent: `ConfigDelivery`, `AgentApply`, `MCAgentApply`, `AgentApplyProofs`

`ConfigDelivery` is the promise: one of the published, accepted configurations
is installed, never an older one than before, and Xray runs the installed one
or one installed earlier. `AgentApply` is the loop of `main.go`, one action per
step that can fail or be cut off: `Collect`, `HeartbeatAccepted` or `Fails`,
`SyncAnswered` or `Fails`, then `Write`, `Test`, `MarkPending`, `Install`,
`Reload` and `Unmark` of `applyXrayConfig`, each with its failure. The log of
published configurations is the abstraction of the panel; hashes compare
contents (`SameHash`), so that A, B, A confuses a hash as it does in the code.
`AgentDies` and `XrayDies` may come anywhere; `AgentStarts` reads the marker.
The refinement mapping is `installed <- file`.

| Run | Shows |
|---|---|
| `AgentRounds` | the marker covers every divergence, reports are true, counters that were read are accepted by the panel before a configuration is applied (`FlushedBeforeApply`), the inductive invariant, `DeliverySpec`; once publications and crashes stop, Xray runs what is desired |

`counters` is history: what became of the counters of this round, unreadable,
read and held by the agent, or accepted by the panel.

Three publications of three contents, one of them refused by Xray, give A, B, A with
interruptions between them. Fairness: weak for the loop, for systemd restarting agent and Xray
(`Restart=always` in the installer), strong for each step that a later round
tries again. Nothing forces a step to succeed the first time or every time.

### Upgrade: `VersionOrder`, `UpgradeTask`, `MCUpgradeTask`, `VersionOrderProofs`, `UpgradeProofs`

`VersionOrder` is the order of versions as operators: a version is the numbers,
the identifiers after a dash and a tail that its text splits into;
`ComparePanelVersions` is what the panel compares with, `VersionMatchesTarget`
and `RunnerRecognises` are how the panel and the script tell that an upgrade
arrived. Four assumptions of `MCUpgradeTask`, which TLC evaluates, compare it
with an order over a sample of 44 versions and their pairs and triples: total
and transitive, but for two oddities named below; the theorems of
`VersionOrderProofs` say it of all versions. A fifth, `CandidatesFollow`, says that
the releases of each run are ones the theorems of `UpgradeProofs` speak of.

In `UpgradeTask` handlers are split where the code reads, waits and writes:
`Create` reads the status file, `Fetch` is the manifest request, `WritePending`,
`WriteScript`, `StartRunner` and `WriteQueued` follow; `Poll`, `ClearStale` and
`Recover` are the readers that may write. `Report`, `Install`, `Verify`,
`Succeed`, `Fail` and `RunnerDies` are the runner, whose stages are shortened to
those at which something changes: running, installing, restarting. `Readings`
lets a reader that meets a write under way see no task at all. `Install`
abandons every handler, because the upgrade restarts the API. The versions are
positions in the sequence `Releases`, compared by `VersionOrder`.

| Run | Shows |
|---|---|
| `UpgradeRaces` | a recorded success was installed and is not taken back by the late answer of the handler, while a recorded failure is, but by nothing else (`OutcomeStands`); no runner starts for a version that is not newer; the lock opens again whoever dies; an interrupted but installed upgrade is shown as a success |
| `UpgradeLockDoc` | two runners can be alive at once, against the text of the page |

Two create requests are a race; one poll and one clear are a reader and a writer
beside it. The releases 2.0-rc.9, 2.0-rc.10 and 2.0.0-stable allow an upgrade
between a check and its start, and need numerals compared as numbers, a release
after its pre-releases and the dropped tail. Fairness assumes served requests, a
page that polls, and a write that works some time; runners may hang.

### Inventory: `Inventory`, `MCInventory`, `InventoryProofs`

`book` is `store.Data` restricted to servers, nodes, relays and clients, `disk`
the file, one action per handler. `Ensured` is the merge of local servers that
`List` and every request without a server id run first. `Keep` is the ignored
result of `SaveLocked`: with `SavesFail` the file may stay as it was, or as the
merge left it. `TokenChecked` and `Heartbeat` are the two locked sections of a
heartbeat. `Served` reads the book as `GenerateServerConfig` does, `NodeLinks`
and `RelayLinks` as `subscriptionSnapshot` does.

| Run | Shows |
|---|---|
| `InventoryServers` | two servers, failing saves, restarts: nodes keep a server and bindings their node, in memory and on disk; a listing leaves one local record |
| `InventoryBindings` | two servers, one node, two relays of every mode, one client, one port: grants exist, offered nodes are served, access ends with the last grant; a step that takes a client's exit away or lands it elsewhere is a request about that relay or client, or is shown (`FixedExitStands`); a relay that is offered but not served, and inbounds that share a port, are reported by the system checks (`DeadRelaysReported`, `ClashesReported`) |
| `InventoryGhostDoc` | a disagreement (below) |

A record on the server without an id is offered and not served, and the checks
do not see it: `NodeLinksServed` and `DeadRelaysReported` except those records
and no others, and `InventoryGhostDoc` is about how that server comes to be.

Every property relates at most one client, two nodes or two relays and their
servers. With one port in `InventoryBindings` every two inbounds of a server
clash unless a handler refuses one, which is the interesting half; two *nodes*
on one port are not in that instance. Ids are never reused (`born`), so runs are
finite without counters. Permuting ids is sound for these runs: all of them
check safety.

### Settings: `NetworkPolicy`, `SocksProbe`, `PanelSettings`, `MCPanelSettings`, `PanelSettingsProofs`

`NetworkPolicy` holds the three normalisations as operators, `ForApi`, `ForStore`
and `ForXray`, and each reader of the policy: the status page (`Preview`), Xray
(`XrayConfig`), the subscriptions, the diagnosis, the system checks. A list of
resolvers is a set, each resolver usable or not. `SocksProbe` is the SOCKS5
client: a proxy is what it answers at each step, and `Works` the verdict.

`PanelSettings` is the one file these settings live in and its writers. A
handler changes memory and starts a save (`BeginSave`) with the lock held;
`OpenTmp`, `WritePart`, `WriteTmp`, `RenameTmp` and `Answer` are the steps of
`SaveLocked`, `SaveFails` any of them failing, `PanelDies` a death between any
two, `StartPanel` is `Open` with its seeds. `ChangePassword`,
`LogPasswordChange`, `SavePolicy`, `RollbackPolicy`, `CreateExits`, `UpdateExit`,
`DeleteExit`, `StartTest` and `FinishTest` are the handlers, `OtherSave` every
other one. `Reset...` are the steps of `reset-password`, which reads
`panel.json`, writes `panel.json.tmp`, renames it and restarts the panel, all
without the panel's lock: each writer keeps a handle on the file it opened,
which may be renamed under it (`at`), and two writers of one file may tear it.
`promised` is history: of each setting what was last acknowledged and, after
requests that failed or have no answer yet, what they tried; unsure once a save
met the command.

| Run | Shows |
|---|---|
| `SettingsFile` | an acknowledged password and policy stand, and after a failed request memory and file hold only it or what was tried since; a rollback returns to the policy before; the file can be read unless the command met a save, the policy is shown as served, blocking is switched on only by a request for it, a verdict fits its exit, memory and file agree in the end |
| `SettingsResetDoc` | a password reset that is announced and undone |

Bounds. `MaxEvents = 3` requests, deaths or uses of the command, beside any
number of saves by other handlers and of failures: a property needs a change, a
second one and a death. One exit, two routes, so that a test can overlap an edit
and a deletion; four policies, one of each mode that blocks and two with fields
out of range; nine proxies, one that works, one without login and one for each
way to fail. The theorems need none of these. Fairness: weak for what systemd
starts and for saves of other handlers (heartbeats come every half minute),
strong for each step of a save, as a full disk does not stay full for ever; a
panel that finds a torn file refuses to start, so the system may stop
(`CHECK_DEADLOCK FALSE`). `SettingsResetDoc` has one password and one event, so
that the command and the saves of other handlers suffice.

## What the code does otherwise than it says

Each of these is a run TLC refutes, quoted at its line in `PROJECT.json`.

- The first sample after a renewal may be charged in full when the source has
  an old cursor and Xray restarted (`LedgerRenewalDoc`).
- Two upgrade tasks can run at once (`UpgradeLockDoc`).
- A heartbeat of a server that is just deleted writes a server with an empty id;
  the last real server can be deleted then (`InventoryGhostDoc`).
- A password reset may be announced while the old password, or a newly seeded
  administrator, is what logs in (`SettingsResetDoc`).

More are visible in the definitions and have no run:

- A traffic limit disables clients although two documents say it is only shown
  (`Limited`).
- A comment says that counters are flushed before Xray is restarted; a round
  whose statistics cannot be read goes on without (`Collect`;
  `FlushedBeforeApply` says what does hold).
- A node may take a relay's port (`NodeAccepted`, against `RelayAccepted`), and a
  relay with clients bound to it may become a forwarding one (`UpdateRelay`,
  against `ClientAccepted`), which `FixedExitStands` counts among the edits of
  the exit (`ExitEdited`).
- A network policy whose save failed is answered with an error and is sent to
  the agents all the same, until the next save writes it or a restart drops it
  (`SaveFails`; `RollbackRestores` and `SettlesOnDisk` say what does hold).
- An upgrade that failed at once may be shown as running again, by the answer of
  the request that started it (`WriteQueued`; `OutcomeStands`).
- A subscription offers a relay whose landing is gone or disabled
  (`RelayLinks`); the system page names it (`DeadRelaysReported`).
- An unknown choice on IPv6 is stored as "keep" in modes that read "keep" as
  something stricter, so that it is shown otherwise after the next save
  (`IPv6ForApi`, `IsStored`).
- Before any policy was saved the diagnosis says that no resolver is configured
  while Xray is given the default ones (`DiagnosedResolvers`).
- A release of four numbers is offered and never recognised once it runs
  (`FourNumbersAreNot`); of "rc.1" and "rc.01" each is newer than the other
  (`PaddedNumeralsAreNot`).
- A finished test of an exit writes back the copy it took: it undoes edits made
  meanwhile and brings a deleted exit back (`FinishTest`).

## What is proved

Every safety property and every action property of the passing runs is a
theorem, for all values of the constants that the named assumptions allow. A
module EXTENDS the one it is about; its invariant was a TLC invariant of a run
before it was proved.

The assumptions name what the code gives. Servers are finitely many
(`LedgerAssumption`, for the sum over them); an id is of one kind, no node is a
relay (`InventoryAssumption`: `NewID` puts the kind into an id); a request is of one
route (`UpgradeAssumption`). The rest are types of the constants.

**`TrafficLedgerProofs`.** `NeverOverbills` is not inductive: a heartbeat in
flight or a record on disk may be charged from later. `LedgerInv` therefore
speaks of all *marks* (cursors in memory and on disk, samples in flight): each is
backed by real traffic, and of two marks the later exceeds the earlier by at
least what would be charged between them. The proof has a lemma per operator of
`Billing` and one per group of actions: the world, the agent, the panel. Steps of
the panel only move marks among themselves (`MarksMove`); steps of the world
leave marks alone and need the backing again. Hence `TypeCorrect`,
`LedgerCorrect` and `NoOverbilling`.

`DurableInv` is the second invariant: memory and disk hold the same accounting,
a record not yet created has charged nothing, and a record swept since its last
edit is enforced. The second part is why a client whose creation was never
saved may vanish at a restart without a charge being lost. `LedgerDurable` and
`LimitsEnforced` follow; `CursorsAdvance` and `OneSourceCharged` are about
steps, and rest on the one lemma that says what a step may do to one client's
accounting (`AccountingMoves`).

`UsageSummed` says that the amount is the capped sum of the charges of all
sources, for any number of them. Its invariant says so of memory and disk; the
work is in `DataLemmas`: the sum of a function over a finite set exists
(`SumsExist`), does not depend on the order in which it is taken as far as
raising one value goes (`SumRaised`), and capping at each addition is capping
once (`CapsCompose`). `DataLemmas` inducts by least counterexample, as the
library's induction rules cannot be instantiated here.

**`AgentApplyProofs`.** `AgentCorrect` (the invariant `AgentInv`, one conjunct
per fact a step of `applyXrayConfig` relies on), and from it
`DivergenceIsMarked`, `ReportsAreTrue`, `AppliedAfterFlush` and
`AgentImplementsDelivery`: initial states map to initial states and every step to
a step of `ConfigDelivery` or a stutter, for any set of configurations and any
number of publications.

**`VersionOrderProofs`, `UpgradeProofs`.** Of operators: the order the panel
compares with is antisymmetric (`NewerIsAsymmetric`) and transitive
(`NewerIsTransitive`) on semantic versions without padded numerals, of whatever
length, and the runner's own parser recognises a target in exactly the versions
the panel does (`ParsersAgree`). All three come from the first position at which
two versions differ; it exists by `LeastElement`.

The theorems about `UpgradeTask` have one hypothesis, `ReleasedInOrder`: every
release is newer than the one before. Then the three comparisons are comparisons
of places (`PlacesCompared`). `UpgradeInv` says, for each place of a handler or
runner, what the task in its hands may be: a target ahead of the version that
runs, as long as no installation has abandoned the handler; and of a task marked
"success" that its target ran and that nobody else may still write over it
(`Spent`). Every number of concurrent requests is covered: `SuccessIsTrue`,
`NoDowngradeStarts`, `OutcomesStand`.

**`InventoryProofs`.** `InventoryInv` says of memory and disk the same, as a
restart continues with the disk and a merge with either: references exist,
records carry their ids or are the zero record, enabled relays of a server have
ports of their own, a client without grants is enabled only if it was saved so.
There is a lemma for each way a handler changes a book (`ServersReplaced`,
`NodesReplaced`, ...) and one for the merge. The readers are then proved about a
sound book: `NodeLinkService`, `Clashes`. `ExitsStand` is about steps: what a
handler does to a book in which a relay serves a client, one lemma per group of
handlers, over a second invariant, `KnownInv`: every relay and client, in
memory or on disk, was given out, so that a new one replaces none. `DeadRelays` holds of any
book at all: what the subscription offers, the generator leaves out and the
checks do not name cannot exist by how the three read the same records.

**`PanelSettingsProofs`.** Of operators: `ApiIsIdempotent` (normalising twice is
normalising once, but for the IPv6 choice above), `StoreKeepsStored` (saves and
restarts change no stored policy), `ReadersAgree` (for every stored policy the
page, the subscriptions, the system checks and, once a policy was saved, the
diagnosis agree with what Xray is told) and `WorksIsCarried` (a test says "works" just when
a proxy it met carried the request). They hold together because what the API
stores is a fixed point of its own normalisation, `StoredPolicy`. `SettingsTypes`
proves that memory, both files, every save under way and the command's copy hold
such settings, and `ShownAsServed` follows.

`SettingsInv` has four parts. `Meetings`: when a save of the panel and the
command overlap, both know, and nothing stays promised. `SaveFits` and
`ResetFits`: a writer that met nobody has its handle on the temporary file, and
what is in it is what it means to rename. `Kept`: file and memory keep what is
promised. A save widens what is promised before it starts and narrows it to its
own promise when it is answered, so that one that dies or fails half-way leaves
either the old or the new. Hence
`PasswordKept`, `PoliciesKept` and `FileStaysReadable`. `VerdictsFit` needs an
invariant of its own, `Verdicts`, that also speaks of the copies tests hold;
`NoBlockingUnchosen` needs that the generator sees the same in a policy and in
what a save or a rollback makes of it.

Only model-checked. Liveness, as the provers have no rules for fairness and
ENABLED: `EventuallyEnforced`, `EventuallyBilled`, `EventuallyApplied`,
`LockReleased`, `InterruptedUpgradeRecovers`, `SettlesOnDisk`. The four runs that
TLC refutes. The two oddities of versions, which are single examples.

## What is not modelled

Formats (links, YAML, JSON, generated names and keys, the text of versions and
of the statistics output), tokens and cryptography, probes of the network and of
the host, the web interface, first installation and removal. They keep no state
whose steps interleave, or no state at all. `normalize`'s defaults other than
the policy's are left out: they fill empty fields of old files. Deaths are deaths
of a process: what a loss of power leaves of a file that was not synced is a
matter of the file system. The log, which only grows, is left out, and so is the
data race of the check of the installed Xray version, whose outcomes are a wrong
number on a page or the death of the panel. Where systemctl exists and
systemd-run does not, the panel starts the upgrade with setsid, and nothing
refuses a second runner of one name; `StartRunner` is the systemd way. The
address and the host name of a server are one endpoint in `Inventory`.
`restore_backup` of the script, which puts an old file under a running panel, is
not an action of `PanelSettings`. An agent's clock is ahead or behind by a
constant (`Skew`): one that is set back while it runs would make its heartbeats
look late. Integer width matters only in
`addTraffic`, where it is kept as saturation at `MaxInt`.

## Plan

In order of importance; the first nine are done.

1. `Billing`, `TrafficLedger` with proofs: money.
2. `ConfigDelivery`, `AgentApply` with proofs: every server depends on it.
3. `VersionOrder`, `UpgradeTask`: the lock-free protocol.
4. `Inventory`: the records and their two readers.
5. `NetworkPolicy`, `SocksProbe`, `PanelSettings` with first proofs: the file and
   what is kept in it.
6. `PanelSettingsProofs`: what is acknowledged stands, the file can be read.
7. `InventoryProofs`: sound books and what their readers see.
8. `VersionOrderProofs`, `UpgradeProofs`: the order of versions and the protocol.
9. `DataLemmas` and the rest of `TrafficLedgerProofs`: durability, limits, sums.
10. An abstract ledger (charge, renew, enforce) that `TrafficLedger` implements,
    and an abstract upgrade (requested, running, done) that `UpgradeTask`
    implements, with the refinements proved as that of `ConfigDelivery`.
11. The installers as state machines over what they leave behind when cut off.

## Running

    tlc -workers 2 -config LedgerDelays.cfg MCTrafficLedger
    tlapm TrafficLedgerProofs.tla

`PROJECT.json` names the module and configuration of every run, the faulty
variant that shows each property can fail, and the source lines of every
definition.
