---------------------------- MODULE PanelSettings ----------------------------
(***************************************************************************)
(* The settings of the panel and the file they are kept in: the            *)
(* administrator's password (auth.go), the network policy and its backup   *)
(* (network_policy.go), the landing exits (landing_exits.go), SaveLocked   *)
(* and the reading at start (store.go), and the reset-password command     *)
(* (scripts/yuchen-panel), which edits the file under a running panel.     *)
(*                                                                         *)
(* A handler changes memory and then saves it, holding store.Mu: to a      *)
(* temporary file, truncated, written and renamed.  It is one action for   *)
(* memory and one for each step of the save, as the panel may die between  *)
(* any two.  A save that fails leaves memory changed; the next save, of    *)
(* whatever handler, writes it.  The command has no lock and uses the same *)
(* temporary file.                                                         *)
(*                                                                         *)
(* Abstracted: all other records, and the handlers that save them          *)
(* (OtherSave); a file is complete, empty, or torn; an exit is its address *)
(* and login (a route) and its last test.                                  *)
(***************************************************************************)
EXTENDS Naturals, NetworkPolicy, SocksProbe

CONSTANTS
    Passwords,      \* passwords an administrator chooses
    Installed,      \* the password the installer configured
    Generated,      \* the password the command makes up
    Requested,      \* policies an administrator submits
    Exits,          \* ids store.NewID may give out
    Routes,         \* addresses and logins of landing exits
    Relayed,        \* routes some relay uses
    Proxies,        \* what is met at a route
    MaxEvents       \* bound: requests, uses of the command, deaths and kills

ASSUME SettingsAssumption ==
    /\ Installed \in Passwords /\ Generated \notin Passwords
    /\ Requested \subseteq Policy
    /\ Relayed \subseteq Routes
    /\ Proxies \subseteq Proxy
    /\ MaxEvents \in Nat

CONSTANTS None, Unsure, Empty, Torn

VARIABLES
    mem,        \* store.Data, None while the panel is down
    file,       \* the contents of panel.json
    tmp,        \* the contents of panel.json.tmp
    saving,     \* SaveLocked under way, with the lock held
    toLog,      \* password changes whose log entry is still to be saved
    tests,      \* tests of exits under way, with the copy each one took
    reset,      \* the reset-password command
    born,       \* history: exits ever created
    promised,   \* history: the settings acknowledged last, or tried since
    events      \* history: how many requests, uses of the command, deaths, kills

vars == <<mem, file, tmp, saving, toLog, tests, reset, born, promised, events>>

\* tested, earned: history, the route the verdict is about and whether a proxy
\* carried a request during the test; kept: history, the route was edited under
\* the verdict.
Exit == [route : Routes, verdict : {"untested", "works", "fails"},
         tested : Routes \cup {None}, earned : BOOLEAN, kept : BOOLEAN]

Data == [password : Passwords \cup {Generated},
         policy : StoredPolicy, backup : StoredPolicy,
         exits : UNION {[ids -> Exit] : ids \in SUBSET Exits}]

\* json.Unmarshal succeeds.
Readable(contents) == contents \notin {None, Empty, Torn}

\* Where a writer's open file is now: the temporary file, the file itself when
\* the other writer renamed it, or a file that has no name any more.
Handles == {"tmp", "file", "gone"}

\* What may be in force: the setting acknowledged last and those whose request
\* failed, or has no answer yet; Unsure among them when it may be anything.
Promise == [password : SUBSET (Passwords \cup {Generated, Unsure}),
            policy : SUBSET (Policy \cup {Unsure}), backup : SUBSET (Policy \cup {Unsure})]

SaveUnderWay == [step : {"open", "write", "rename", "answer"}, at : Handles,
                 met : BOOLEAN, logs : BOOLEAN, starting : BOOLEAN, promise : Promise]

ResetSteps == {"idle", "read", "write", "replace", "restart", "announce",
               "announced", "killed"}

\* The words for what is absent or broken are no data.
ASSUME ConstantsDiffer ==
    /\ None \notin Data /\ None \notin SaveUnderWay
    /\ Empty \notin Data /\ Torn \notin Data
    /\ None # Empty /\ None # Torn

TypeOK ==
    /\ mem \in Data \cup {None}
    /\ file \in Data \cup {Empty, Torn}
    /\ tmp \in Data \cup {None, Empty, Torn}
    /\ saving \in SaveUnderWay \cup {None}
    /\ saving # None => mem # None
    /\ toLog \in Nat
    /\ tests \subseteq [id : Exits, copy : Exit]
    /\ reset \in [step : ResetSteps, at : Handles, copy : Data \cup {None},
                  met : BOOLEAN]
    /\ reset.step \in {"read", "write", "replace"} => reset.copy # None
    /\ born \subseteq Exits
    /\ promised \in Promise
    /\ events \in 0 .. MaxEvents

-----------------------------------------------------------------------------
(* The file, the temporary file and their two writers.                     *)

\* normalize, as far as it touches settings.
Normalized(d) == [d EXCEPT !.policy = ForStore(@), !.backup = ForStore(@)]

NoExits == [x \in {} |-> None]

\* newData and the seeds.
Seed == [password |-> Installed, policy |-> DefaultPolicy, backup |-> DefaultPolicy,
         exits |-> NoExits]

\* The file a handle stands for gets one of these contents.
WriteAt(at, contents) ==
    /\ IF at = "tmp" THEN tmp' \in contents ELSE tmp' = tmp
    /\ IF at = "file" THEN file' \in contents ELSE file' = file

\* Two writers of one file, each from its start: the longer text's end stays.
Written(data, met) == {data} \cup (IF met THEN {Torn} ELSE {})

\* The handle of a writer after the temporary file was renamed.
AfterRename(at) == IF at = "tmp" THEN "file" ELSE "gone"

\* The command works with a copy of the file, from its read to its restart.
Resetting == reset.step \in {"read", "write", "replace", "restart"}

Locked == saving # None

Serving == mem # None /\ ~Locked

Count == events < MaxEvents /\ events' = events + 1

AllUnsure == [password |-> {Unsure}, policy |-> {Unsure}, backup |-> {Unsure}]

Init ==
    /\ mem = Seed /\ file = Seed /\ tmp = None
    /\ saving = None /\ toLog = 0 /\ tests = {} /\ born = {}
    /\ reset = [step |-> "idle", at |-> "gone", copy |-> None, met |-> FALSE]
    /\ promised = [password |-> {Installed}, policy |-> {DefaultPolicy},
                   backup |-> {DefaultPolicy}]
    /\ events = 0

-----------------------------------------------------------------------------
(* SaveLocked                                                              *)

\* A handler has made memory "data" and calls SaveLocked.  "promise" is what
\* its answer will acknowledge; until then either may be in force.
BeginSave(data, promise, logs) ==
    /\ mem' = Normalized(data)
    /\ saving' = [step |-> "open", at |-> "gone", met |-> Resetting,
                  logs |-> logs, starting |-> FALSE, promise |-> promise]
    /\ reset' = [reset EXCEPT !.met = @ \/ Resetting]
    /\ promised' = [s \in DOMAIN promised |->
                       IF Resetting THEN {Unsure} ELSE promised[s] \cup promise[s]]
    /\ UNCHANGED <<file, tmp>>

\* os.WriteFile truncates.
OpenTmp ==
    /\ Locked /\ saving.step = "open"
    /\ tmp' = Empty
    /\ saving' = [saving EXCEPT !.step = "write", !.at = "tmp"]
    /\ UNCHANGED <<mem, file, toLog, tests, reset, born, promised, events>>

\* Faulty variant: WritePart of a store that writes panel.json itself.
WritePartInPlace ==
    /\ Locked /\ saving.step = "write"
    /\ WriteAt("file", {Torn})
    /\ UNCHANGED <<mem, saving, toLog, tests, reset, born, promised, events>>

\* Part of the text is written.
WritePart ==
    /\ Locked /\ saving.step = "write"
    /\ WriteAt(saving.at, {Torn})
    /\ UNCHANGED <<mem, saving, toLog, tests, reset, born, promised, events>>

WriteTmp ==
    /\ Locked /\ saving.step = "write"
    /\ WriteAt(saving.at, Written(mem, saving.met))
    /\ saving' = [saving EXCEPT !.step = "rename"]
    /\ UNCHANGED <<mem, toLog, tests, reset, born, promised, events>>

RenameTmp ==
    /\ Locked /\ saving.step = "rename" /\ tmp # None
    /\ file' = tmp
    /\ tmp' = None
    /\ saving' = [saving EXCEPT !.step = "answer"]
    /\ reset' = [reset EXCEPT !.at = AfterRename(@)]
    /\ UNCHANGED <<mem, toLog, tests, born, promised, events>>

\* SaveLocked returns nil, the lock is given back, the handler answers.
Answer ==
    /\ Locked /\ saving.step = "answer"
    /\ promised' = IF saving.met THEN promised ELSE saving.promise
    /\ toLog' = toLog + (IF saving.logs THEN 1 ELSE 0)
    /\ saving' = None
    /\ UNCHANGED <<mem, file, tmp, tests, reset, born, events>>

\* Faulty variant: SaveFails that does not give the lock back.
SaveFailsLocked ==
    /\ Locked /\ saving.step \in {"open", "write", "rename"}
    /\ saving' = [saving EXCEPT !.step = "never"]
    /\ UNCHANGED <<mem, file, tmp, toLog, tests, reset, born, promised, events>>

\* Faulty variant: SaveFails whose error the handler ignores.
SaveFailsAnswered ==
    /\ Locked /\ saving.step \in {"open", "write", "rename"}
    /\ saving' = None
    /\ promised' = IF saving.met THEN promised ELSE saving.promise
    /\ mem' = IF saving.starting THEN None ELSE mem
    /\ UNCHANGED <<file, tmp, toLog, tests, reset, born, events>>

\* A step returns an error; a rename also when the command took the file away.
\* Memory keeps the change.  A panel that was starting gives up.
SaveFails ==
    /\ Locked /\ saving.step \in {"open", "write", "rename"}
    /\ saving' = None
    /\ mem' = IF saving.starting THEN None ELSE mem
    /\ UNCHANGED <<file, tmp, toLog, tests, reset, born, promised, events>>

-----------------------------------------------------------------------------
(* The process.                                                            *)

\* Killed, or stopped by a restart.
Stopped == mem' = None /\ saving' = None /\ toLog' = 0 /\ tests' = {}

PanelDies ==
    /\ mem # None /\ Count /\ Stopped
    /\ UNCHANGED <<file, tmp, reset, born, promised>>

\* store.Open: an empty file is seeded anew, a torn one refused; the records
\* of servers may need a save (Inventory).
StartPanel ==
    /\ mem = None /\ file # Torn
    /\ mem' = Normalized(IF file = Empty THEN Seed ELSE file)
    /\ LET seeding == [step |-> "open", at |-> "gone", met |-> Resetting,
                       logs |-> FALSE, starting |-> TRUE, promise |-> promised]
       IN  \/ file # Empty /\ UNCHANGED <<saving, reset, promised>>
           \/ /\ saving' = seeding
              /\ reset' = [reset EXCEPT !.met = @ \/ Resetting]
              /\ promised' = IF Resetting THEN AllUnsure ELSE promised
    /\ UNCHANGED <<file, tmp, toLog, tests, born, events>>

\* Any other handler: heartbeats every half minute, logins, edits.
OtherSave ==
    /\ Serving
    /\ BeginSave(mem, promised, FALSE)
    /\ UNCHANGED <<toLog, tests, born, events>>

-----------------------------------------------------------------------------
(* auth.go, ChangeAdminPassword                                            *)

\* The old password was right.  A save that fails is answered with its error.
ChangePassword(p) ==
    /\ Serving /\ Count
    /\ BeginSave([mem EXCEPT !.password = p], [promised EXCEPT !.password = {p}], TRUE)
    /\ UNCHANGED <<toLog, tests, born>>

\* Faulty variant: LogPasswordChange that nothing asked for.
LogUnasked ==
    /\ Serving
    /\ toLog' = toLog - 1
    /\ BeginSave(mem, promised, FALSE)
    /\ UNCHANGED <<tests, born, events>>

\* The second locked section of changePassword; its result is ignored.
LogPasswordChange ==
    /\ Serving /\ toLog > 0
    /\ toLog' = toLog - 1
    /\ BeginSave(mem, promised, FALSE)
    /\ UNCHANGED <<tests, born, events>>

-----------------------------------------------------------------------------
(* network_policy.go                                                       *)

\* Faulty variant: SavePolicy that backs up what was submitted.
SavePolicyBackingUpItself(p) ==
    /\ Serving /\ Count
    /\ BeginSave([mem EXCEPT !.policy = ForApi(p), !.backup = ForApi(p)],
            [promised EXCEPT !.policy = {ForApi(p)}, !.backup = promised.policy], FALSE)
    /\ UNCHANGED <<toLog, tests, born>>

SavePolicy(p) ==
    /\ Serving /\ Count
    /\ BeginSave([mem EXCEPT !.policy = ForApi(p), !.backup = ForApi(mem.policy)],
            [promised EXCEPT !.policy = {ForApi(p)}, !.backup = promised.policy], FALSE)
    /\ UNCHANGED <<toLog, tests, born>>

RollbackPolicy ==
    /\ Serving /\ Count
    /\ BeginSave([mem EXCEPT !.policy = ForApi(mem.backup), !.backup = ForApi(mem.policy)],
            [promised EXCEPT !.policy = promised.backup, !.backup = promised.policy],
            FALSE)
    /\ UNCHANGED <<toLog, tests, born>>

-----------------------------------------------------------------------------
(* landing_exits.go; what its saves return is ignored.                     *)

\* Records put into the map of exits, over those with the same id.
Put(new, exits) ==
    [x \in DOMAIN new \cup DOMAIN exits |->
        IF x \in DOMAIN new THEN new[x] ELSE exits[x]]

SaveExits(exits) == BeginSave([mem EXCEPT !.exits = exits], promised, FALSE)

\* POST creates one, the bulk import several under one lock.
CreateExits(new) ==
    /\ Serving /\ Count
    /\ DOMAIN new # {} /\ DOMAIN new \cap born = {}
    /\ born' = born \cup DOMAIN new
    /\ SaveExits(Put([x \in DOMAIN new |->
            [route |-> new[x], verdict |-> "untested", tested |-> None,
             earned |-> FALSE, kept |-> FALSE]], mem.exits))
    /\ UNCHANGED <<toLog, tests>>

\* PUT keeps the last test, whatever becomes of the route.
UpdateExit(x, route) ==
    /\ Serving /\ Count
    /\ x \in DOMAIN mem.exits
    /\ SaveExits([mem.exits EXCEPT ![x].route = route,
                                   ![x].kept = @ \/ route # mem.exits[x].route])
    /\ UNCHANGED <<toLog, tests, born>>

\* DELETE, refused while a relay lands on the exit's route.
DeleteExit(x) ==
    /\ Serving /\ Count
    /\ x \in DOMAIN mem.exits /\ mem.exits[x].route \notin Relayed
    /\ SaveExits([y \in DOMAIN mem.exits \ {x} |-> mem.exits[y]])
    /\ UNCHANGED <<toLog, tests, born>>

\* testLandingExit copies the record, then works without the lock.
StartTest(x) ==
    /\ Serving /\ Count
    /\ x \in DOMAIN mem.exits
    /\ tests' = tests \cup {[id |-> x, copy |-> mem.exits[x]]}
    /\ UNCHANGED <<mem, file, tmp, saving, toLog, reset, born, promised>>

\* What a test may have met: its verdict, and the truth about the proxies.
Carried(proxy) ==
    /\ proxy.dials /\ proxy.connects /\ proxy.carries /\ proxy.body = "address"
    /\ proxy.method = "none" \/ (proxy.method = "password" /\ proxy.accepts)
    /\ proxy.address # "other"

Outcomes ==
    {o \in [works : BOOLEAN, earned : BOOLEAN] : \E first, second \in Proxies :
        /\ o.works <=> Works(TRUE, first, second)
        /\ o.earned <=> Carried(first) \/ Carried(second)}

Tested(copy, outcome) ==
    [copy EXCEPT !.verdict = IF outcome.works THEN "works" ELSE "fails",
                 !.tested = copy.route, !.earned = outcome.earned, !.kept = FALSE]

\* Faulty variant: FinishTest that writes only the verdict, into the record as
\* it is now.
FinishTestInRecord(t) ==
    /\ Serving
    /\ tests' = tests \ {t}
    /\ \E o \in Outcomes :
         SaveExits(IF t.id \in DOMAIN mem.exits
                   THEN [mem.exits EXCEPT ![t.id] =
                            [Tested(t.copy, o) EXCEPT !.route = mem.exits[t.id].route]]
                   ELSE mem.exits)
    /\ UNCHANGED <<toLog, born, events>>

\* The copy goes back whole, over edits and deletions made meanwhile.
FinishTest(t) ==
    /\ Serving
    /\ tests' = tests \ {t}
    /\ \E o \in Outcomes : SaveExits(Put([x \in {t.id} |-> Tested(t.copy, o)], mem.exits))
    /\ UNCHANGED <<toLog, born, events>>

-----------------------------------------------------------------------------
(* scripts/yuchen-panel reset-password                                     *)

ResetReads ==
    /\ reset.step = "idle" /\ Readable(file) /\ Count
    /\ reset' = [step |-> "read", at |-> "gone", met |-> Locked,
                 copy |-> [file EXCEPT !.password = Generated]]
    /\ saving' = IF Locked THEN [saving EXCEPT !.met = TRUE] ELSE saving
    /\ promised' = IF Locked THEN AllUnsure ELSE promised
    /\ UNCHANGED <<mem, file, tmp, toLog, tests, born>>

ResetOpens ==
    /\ reset.step = "read"
    /\ tmp' = Empty
    /\ reset' = [reset EXCEPT !.step = "write", !.at = "tmp"]
    /\ UNCHANGED <<mem, file, saving, toLog, tests, born, promised, events>>

ResetWritesPart ==
    /\ reset.step = "write"
    /\ WriteAt(reset.at, {Torn})
    /\ UNCHANGED <<mem, saving, toLog, tests, reset, born, promised, events>>

ResetWrites ==
    /\ reset.step = "write"
    /\ WriteAt(reset.at, Written(reset.copy, reset.met))
    /\ reset' = [reset EXCEPT !.step = "replace"]
    /\ UNCHANGED <<mem, saving, toLog, tests, born, promised, events>>

\* os.replace
ResetReplaces ==
    /\ reset.step = "replace" /\ tmp # None
    /\ file' = tmp
    /\ tmp' = None
    /\ reset' = [reset EXCEPT !.step = "restart", !.copy = None]
    /\ saving' = IF Locked THEN [saving EXCEPT !.at = AfterRename(@)] ELSE saving
    /\ promised' = IF reset.met THEN promised
                   ELSE [promised EXCEPT !.password = @ \cup {Generated}]
    /\ UNCHANGED <<mem, toLog, tests, born, events>>

\* restart_api
ResetRestarts ==
    /\ reset.step = "restart"
    /\ Stopped
    /\ reset' = [reset EXCEPT !.step = "announce", !.at = "gone"]
    /\ promised' = IF reset.met THEN promised
                   ELSE [promised EXCEPT !.password = {Generated}]
    /\ UNCHANGED <<file, tmp, born, events>>

\* "Password reset successfully."
ResetAnnounces ==
    /\ reset.step = "announce"
    /\ reset' = [reset EXCEPT !.step = "announced"]
    /\ UNCHANGED <<mem, file, tmp, saving, toLog, tests, born, promised, events>>

Stop == [reset EXCEPT !.step = "killed", !.at = "gone", !.copy = None]

\* The panel renamed the shared temporary file first: the script ends there.
ResetFails ==
    /\ reset.step = "replace" /\ tmp = None
    /\ reset' = Stop
    /\ UNCHANGED <<mem, file, tmp, saving, toLog, tests, born, promised, events>>

ResetKilled ==
    /\ Resetting /\ Count
    /\ reset' = Stop
    /\ UNCHANGED <<mem, file, tmp, saving, toLog, tests, born, promised>>

-----------------------------------------------------------------------------
SaveStep ==
    OpenTmp \/ WritePart \/ WriteTmp \/ RenameTmp \/ Answer \/ SaveFails

SettingRequest ==
    \/ \E p \in Passwords : ChangePassword(p)
    \/ LogPasswordChange
    \/ \E p \in Requested : SavePolicy(p)
    \/ RollbackPolicy

ExitRequest ==
    \/ \E ids \in SUBSET Exits : \E new \in [ids -> Routes] : CreateExits(new)
    \/ \E x \in Exits : DeleteExit(x) \/ StartTest(x)
    \/ \E x \in Exits, route \in Routes : UpdateExit(x, route)
    \/ \E t \in tests : FinishTest(t)

ResetStep ==
    \/ ResetReads \/ ResetOpens \/ ResetWritesPart \/ ResetWrites
    \/ ResetReplaces \/ ResetRestarts \/ ResetAnnounces
    \/ ResetFails \/ ResetKilled

Next ==
    \/ SaveStep \/ SettingRequest \/ ExitRequest \/ ResetStep
    \/ PanelDies \/ StartPanel \/ OtherSave

Spec == Init /\ [][Next]_vars

\* systemd starts the panel again; agents and pages keep calling; a step of a
\* save that is tried again and again succeeds some time, and one that cannot
\* succeed returns its error; the command ends.
Fairness ==
    /\ WF_vars(StartPanel) /\ WF_vars(OtherSave) /\ WF_vars(Answer) /\ WF_vars(SaveFails)
    /\ SF_vars(OpenTmp) /\ SF_vars(WriteTmp) /\ SF_vars(RenameTmp)
    /\ WF_vars(ResetOpens) /\ WF_vars(ResetWrites) /\ WF_vars(ResetReplaces)
    /\ WF_vars(ResetRestarts) /\ WF_vars(ResetAnnounces) /\ WF_vars(ResetFails)

FairSpec == Spec /\ Fairness

-----------------------------------------------------------------------------
(* Properties.                                                             *)

Places == {file} \cup (IF mem = None \/ Locked THEN {} ELSE {mem})

(* A password whose change was acknowledged is the one that is asked for,  *)
(* in memory and on disk, through failed saves of anything else, deaths    *)
(* and restarts; after a change that was answered with an error, or not    *)
(* at all, it is that one or the one tried, and never an earlier one.  So  *)
(* is the one the reset-password command made up, when no save met the     *)
(* command.  (ChangeAdminPassword, SaveLocked, reset-password)             *)
PasswordStands ==
    Unsure \notin promised.password =>
        \A d \in Places : Readable(d) /\ d.password \in promised.password

(* An acknowledged policy stays in force, and the policy before it stays   *)
(* the one a rollback returns to: saves, rollbacks and rollbacks of        *)
(* rollbacks, with deaths and failures between them.  After a request that *)
(* was answered with an error, memory (what the agents are sent) and the   *)
(* file (what a restart reads) may differ, but hold only what was          *)
(* acknowledged last or has been tried since, and a rollback from there    *)
(* returns to one of these.  (networkPolicySave, networkPolicyRollback)    *)
RollbackRestores ==
    \A d \in Places :
        /\ Unsure \notin promised.policy =>
              Readable(d) /\ \E q \in promised.policy : ForApi(d.policy) = ForApi(q)
        /\ Unsure \notin promised.backup =>
              Readable(d) /\ \E q \in promised.backup : ForApi(d.backup) = ForApi(q)

(* Whatever dies or fails in the middle of a save, panel.json can be read; *)
(* only a save that met the reset-password command, which shares its       *)
(* temporary file, may leave it empty or torn.  (SaveLocked)               *)
FileReadable == Readable(file) \/ reset.met

(* The status page, the subscriptions, the system checks and the           *)
(* configuration agree on the policy, each through its own normalisation   *)
(* or none; the diagnosis names the resolvers Xray is given once any       *)
(* policy was saved.  (networkPolicyStatus, dnsConfigFromPolicy,           *)
(* applyNetworkPolicy, buildClashMetaSubscription, xrayDNSPolicyMessage)   *)
ShownIsServed ==
    mem # None =>
        LET p == mem.policy
        IN  /\ Preview(ForApi(p)) = XrayConfig(p)
            /\ \A f \in Formats :
                  SubscriptionAddsQuad9(p, f) <=> SubscriptionAddsQuad9(ForApi(p), f)
            /\ ChecksWarn(p) <=> XrayConfig(p).blocks \cap {"fallback", "dns53", "quic"} # {}
            /\ p # DefaultPolicy => DiagnosedResolvers(p) = XrayConfig(p).dns

(* CHANGELOG.md: no blocking is switched on by itself.  Xray blocks more   *)
(* than it did only when a "strict" or "custom" policy is submitted, or a  *)
(* rollback returns to one; odd requests, failed saves, restarts and a     *)
(* file that is seeded anew never do it.  (normalizePolicyForAPI,          *)
(* normalizeNetworkPolicy)                                                 *)
Blocked(d) == XrayConfig(d.policy).blocks

BlockingIsChosen ==
    [][ mem' # None =>
          LET before == IF mem # None THEN Blocked(mem)
                        ELSE IF Readable(file) THEN Blocked(file) ELSE {}
          IN  \/ Blocked(mem') \subseteq before
              \/ \E p \in Requested : p.mode \in {"strict", "custom"} /\ SavePolicy(p)
              \/ RollbackPolicy /\ Blocked(mem') = XrayConfig(mem.backup).blocks ]_vars

(* A verdict on an exit is about the address and login it stands beside,   *)
(* however tests, edits and deletions overlap, unless the exit was edited  *)
(* after its test; and it says "works" just when a proxy there carried a   *)
(* request.  (testLandingExit, landingExitByID)                            *)
VerdictFitsExit ==
    \A d \in {c \in {mem, file} : Readable(c)} : \A x \in DOMAIN d.exits :
        LET exit == d.exits[x]
        IN  exit.verdict # "untested" =>
                /\ exit.kept \/ exit.tested = exit.route
                /\ exit.verdict = "works" <=> exit.earned

(* Memory and file agree in the end: a change whose save failed, and was   *)
(* answered with an error or not at all, is written by a later save, or    *)
(* lost with the process.  (SaveLocked, Open)                              *)
SettlesOnDisk == <>[](file = mem \/ file = Torn)

(* scripts/yuchen-panel: once it says so, the new password logs in.        *)
ResetHolds ==
    reset.step = "announced" /\ mem # None => mem.password = Generated
=============================================================================
