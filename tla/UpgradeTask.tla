----------------------------- MODULE UpgradeTask -----------------------------
(***************************************************************************)
(* Upgrading the panel from itself (backend/internal/api/upgrade_tasks.go): *)
(* the API's handlers and the upgrade runners, separate processes started  *)
(* with systemd-run, share one status file, upgrade-task-latest.json,      *)
(* which is also the lock against a second upgrade.  Nobody holds a lock   *)
(* on the file: handlers check it and write it later, runners overwrite    *)
(* it, every write truncates it first, and the upgrade restarts the API    *)
(* under the handlers.                                                     *)
(*                                                                         *)
(* A version is its place among the releases; what is compared is the      *)
(* release itself (VersionOrder).  A task is stale when its file was not   *)
(* updated for ten minutes: `fresh` says whether that is so.               *)
(***************************************************************************)
EXTENDS FiniteSets, VersionOrder

CONSTANTS
    Creates, Polls, Clears,     \* requests of POST tasks, GET latest, POST clear-stale
    Releases                    \* what was ever released, the oldest first

ASSUME UpgradeAssumption ==
    /\ Creates \cap (Polls \cup Clears) = {}     \* a request is of one route
    /\ Releases \in Seq(Version) /\ Releases # <<>>
    /\ \A n \in DOMAIN Releases : ParsesSemantic(Releases[n])

Requests == Creates \cup Polls \cup Clears

VARIABLES
    version,    \* panelVersion of the API process
    ran,        \* history: the versions the API ever ran
    latest,     \* the version of the remote manifest
    file,       \* the status file
    fresh,      \* was it written less than ten minutes ago?
    handler,    \* handler[r]: where the handler of request r is
    runner      \* runner[i]: the upgrade runner of task i

vars == <<version, ran, latest, file, fresh, handler, runner>>

Versions == DOMAIN Releases

(* What is asked of whoever publishes the releases: each is newer than the *)
(* one before, in the order of the panel itself, and none has a padded     *)
(* numeral in its name.                                                    *)
ReleasedInOrder ==
    \A n \in Versions :
        /\ Releases[n] \in Ordered
        /\ n + 1 \in Versions => IsRemoteVersionNewer(Releases[n + 1], Releases[n])

\* The three comparisons, of releases by their places.
Above == {p \in Versions \X Versions :
            IsRemoteVersionNewer(Releases[p[1]], Releases[p[2]])}
Reached == {p \in Versions \X Versions :
            VersionMatchesTarget(Releases[p[1]], Releases[p[2]])}
Recognised == {p \in Versions \X Versions :
            RunnerRecognises(Releases[p[1]], Releases[p[2]])}

\* The statuses of isActiveUpgradeStatus that a runner writes, in its order;
\* downloading, verifying and backing_up, which follow "running" and overwrite
\* the file as "installing" does, are left out.
Stages == <<"running", "installing", "restarting">>

Active == {"pending"} \cup {Stages[k] : k \in DOMAIN Stages}

\* A missing, torn or unreadable file.
NoTask == [id |-> "none", status |-> "none", target |-> 0]

Task(id, status, target) == [id |-> id, status |-> status, target |-> target]

Tasks == {NoTask} \cup
    [id : Creates, status : Active \cup {"success", "failed"}, target : Versions]

HandlerPlaces == {"ready", "recover", "fetch", "write", "script", "start",
                  "queued", "giveup", "clear", "done"}

RunnerPlaces == {"none", "working", "installed", "verified", "done"}

Idle == [pc |-> "ready", task |-> NoTask]

TypeOK ==
    /\ version \in Versions /\ latest \in Versions
    /\ ran \subseteq Versions
    /\ file \in Tasks
    /\ fresh \in BOOLEAN
    /\ handler \in [Requests -> [pc : HandlerPlaces, task : Tasks]]
    /\ runner \in [Creates -> [pc : RunnerPlaces, stage : 0..Len(Stages),
                               target : {0} \cup Versions]]

Init ==
    /\ version \in Versions /\ ran = {version} /\ latest \in Versions
    /\ file = NoTask /\ fresh = FALSE
    /\ handler = [r \in Requests |-> Idle]
    /\ runner = [i \in Creates |-> [pc |-> "none", stage |-> 0, target |-> 0]]

-----------------------------------------------------------------------------
(* The status file.                                                        *)

Live(i) == runner[i].pc \in {"working", "installed", "verified"}

\* Somebody about to write the file may already have truncated it.
WriteUnderWay ==
    \/ \E r \in Requests :
          handler[r].pc \in {"recover", "write", "queued", "giveup", "clear"}
    \/ \E i \in Creates : Live(i)

Readings == {file} \cup (IF WriteUnderWay THEN {NoTask} ELSE {})

NoUpdate == UNCHANGED <<file, fresh>>

Tear == file' = NoTask /\ fresh' = FALSE

\* A write that fails may leave the truncated file behind.
WriteFails == NoUpdate \/ Tear

WriteFile(task) == file' = task /\ fresh' = TRUE

\* Faulty variant: Stale without the ten minutes.
StaleNever(task) == FALSE

\* normalizeUpgradeTaskState: an active task that was not updated for ten
\* minutes has succeeded, if its version runs, or else is stale.
Stale(task) == task.status \in Active /\ ~fresh

\* Faulty variant: Recovers without the comparison of versions.
RecoversNever(task) == FALSE

Recovers(task) == Stale(task) /\ <<version, task.target>> \in Reached

Recovered(task) == [task EXCEPT !.status = "success"]

\* runningUpgradeTask, of a task as it was read.
RunningUpgradeTask(task) == task.status \in Active /\ ~Stale(task)

-----------------------------------------------------------------------------
(* The API's handlers.                                                     *)

Goto(r, pc, task) == handler' = [handler EXCEPT ![r] = [pc |-> pc, task |-> task]]

AfterRecovery(r) == IF r \in Creates THEN "fetch" ELSE "ready"

\* normalizeUpgradeTaskState writes back the snapshot it was given.
Recover(r) ==
    /\ handler[r].pc = "recover"
    /\ WriteFile(handler[r].task) \/ WriteFails
    /\ Goto(r, AfterRecovery(r), NoTask)
    /\ UNCHANGED <<version, ran, latest, runner>>

\* updateTaskLatest, updateTaskPrecheck.
Poll(r) ==
    /\ handler[r].pc = "ready"
    /\ \E seen \in Readings :
         /\ Recovers(seen)
         /\ Goto(r, "recover", Recovered(seen))
    /\ NoUpdate /\ UNCHANGED <<version, ran, latest, runner>>

\* updateTaskClearStale: a finished task, or one that is active and not
\* stale, is left alone.
ClearStale(r) ==
    /\ handler[r].pc = "ready"
    /\ \E seen \in Readings :
         \/ Recovers(seen) /\ Goto(r, "recover", Recovered(seen))
         \/ /\ Stale(seen) /\ ~Recovers(seen)
            /\ Goto(r, "clear", [seen EXCEPT !.status = "failed"])
    /\ NoUpdate /\ UNCHANGED <<version, ran, latest, runner>>

WriteCleared(r) ==
    /\ handler[r].pc = "clear"
    /\ WriteFile(handler[r].task) \/ WriteFails
    /\ Goto(r, "ready", NoTask)
    /\ UNCHANGED <<version, ran, latest, runner>>

\* Faulty variant: Newer that refuses older releases only.
NotOlder == <<version, latest>> \notin Above

\* What updateCheck offers, updatePanelCommand and updateTaskCreate accept.
Newer == <<latest, version>> \in Above

\* updateTaskCreate checks the lock...
Create(r) ==
    /\ handler[r].pc = "ready"
    /\ \E seen \in Readings :
         \/ Recovers(seen) /\ Goto(r, "recover", Recovered(seen))
         \/ RunningUpgradeTask(seen) /\ Goto(r, "done", NoTask)
         \/ ~Recovers(seen) /\ ~RunningUpgradeTask(seen) /\ Goto(r, "fetch", NoTask)
    /\ NoUpdate /\ UNCHANGED <<version, ran, latest, runner>>

\* Faulty variant: Target read from a field the manifest leaves empty.
TargetUnset == 0

\* The task's target: the manifest's latest, or else its version.
Target == latest

\* ...then fetches the manifest, refuses what is not newer, and names the
\* task after the second: two requests of one second share the name.
Fetch(r) ==
    /\ handler[r].pc = "fetch"
    /\ \/ Goto(r, "done", NoTask)
       \/ /\ Newer
          /\ \E id \in {r} \cup {handler[q].task.id : q \in
                  {q \in Creates : handler[q].pc \in {"write", "script", "start", "queued"}}} :
               Goto(r, "write", Task(id, "pending", Target))
    /\ NoUpdate /\ UNCHANGED <<version, ran, latest, runner>>

WritePending(r) ==
    /\ handler[r].pc = "write"
    /\ \/ WriteFile(handler[r].task) /\ Goto(r, "script", handler[r].task)
       \/ WriteFails /\ Goto(r, "done", NoTask)
    /\ UNCHANGED <<version, ran, latest, runner>>

WriteScript(r) ==
    /\ handler[r].pc = "script"
    /\ \/ Goto(r, "start", handler[r].task)
       \/ Goto(r, "giveup", handler[r].task)
    /\ NoUpdate /\ UNCHANGED <<version, ran, latest, runner>>

\* systemd-run refuses a unit that already exists.  Left out: the fallback to
\* setsid where systemctl is found and systemd-run is not, which refuses none.
StartRunner(r) ==
    LET task == handler[r].task
    IN  /\ handler[r].pc = "start"
        /\ \/ /\ ~Live(task.id)
              /\ runner' = [runner EXCEPT ![task.id] =
                              [pc |-> "working", stage |-> 0, target |-> task.target]]
              /\ Goto(r, "queued", task)
           \/ /\ Goto(r, "giveup", task)
              /\ UNCHANGED runner
        /\ NoUpdate /\ UNCHANGED <<version, ran, latest>>

\* The answer is written after the runner was started, whatever it did since.
WriteQueued(r) ==
    LET task == handler[r].task
    IN  /\ handler[r].pc = "queued"
        /\ WriteFile([task EXCEPT !.status = "running"]) \/ WriteFails
        /\ Goto(r, "done", NoTask)
        /\ UNCHANGED <<version, ran, latest, runner>>

GiveUp(r) ==
    LET task == handler[r].task
    IN  /\ handler[r].pc = "giveup"
        /\ WriteFile([task EXCEPT !.status = "failed"]) \/ WriteFails
        /\ Goto(r, "done", NoTask)
        /\ UNCHANGED <<version, ran, latest, runner>>

-----------------------------------------------------------------------------
(* The runner: a bash script in a unit of its own.                         *)

\* write_status, at the start of every stage.
Report(i) ==
    LET next == runner[i].stage + 1
    IN  /\ \/ runner[i].pc = "working" /\ next < Len(Stages)
           \/ runner[i].pc = "installed" /\ next = Len(Stages)
        /\ WriteFile(Task(i, Stages[next], runner[i].target))
        /\ runner' = [runner EXCEPT ![i].stage = next]
        /\ UNCHANGED <<version, ran, latest, handler>>

\* Faulty variant: Abandoned for handlers that outlive the restart.
AbandonedNone == handler

\* The requests under way in the API process are lost with it.
Abandoned ==
    [r \in Requests |-> IF handler[r].pc = "ready" THEN Idle
                        ELSE [pc |-> IF r \in Creates THEN "done" ELSE "ready",
                              task |-> NoTask]]

\* deploy/install.sh replaces the binary and restarts the API.
Install(i) ==
    /\ runner[i].pc = "working" /\ runner[i].stage = Len(Stages) - 1
    /\ version' = runner[i].target
    /\ ran' = ran \cup {version'}
    /\ runner' = [runner EXCEPT ![i].pc = "installed"]
    /\ handler' = Abandoned
    /\ NoUpdate \/ (WriteUnderWay /\ Tear)
    /\ UNCHANGED latest

\* Faulty variant: Verify that takes any answer, from any stage.
VerifyAnything(i) ==
    /\ runner[i].pc = "working"
    /\ runner' = [runner EXCEPT ![i].pc = "verified"]
    /\ UNCHANGED <<version, ran, latest, file, fresh, handler>>

\* The health check of the API returned the target version.
Verify(i) ==
    /\ runner[i].pc = "installed" /\ runner[i].stage = Len(Stages)
    /\ <<version, runner[i].target>> \in Recognised
    /\ runner' = [runner EXCEPT ![i].pc = "verified"]
    /\ UNCHANGED <<version, ran, latest, file, fresh, handler>>

Succeed(i) ==
    /\ runner[i].pc = "verified"
    /\ WriteFile(Task(i, "success", runner[i].target))
    /\ runner' = [runner EXCEPT ![i].pc = "done"]
    /\ UNCHANGED <<version, ran, latest, handler>>

\* Any stage may fail and say so, or be killed and say nothing.
Fail(i) ==
    /\ Live(i)
    /\ WriteFile(Task(i, "failed", runner[i].target))
    /\ runner' = [runner EXCEPT ![i].pc = "done"]
    /\ UNCHANGED <<version, ran, latest, handler>>

RunnerDies(i) ==
    /\ Live(i)
    /\ WriteFails
    /\ runner' = [runner EXCEPT ![i].pc = "done"]
    /\ UNCHANGED <<version, ran, latest, handler>>

-----------------------------------------------------------------------------
(* The rest of the world.                                                  *)

RestartApi ==
    /\ handler' = Abandoned
    /\ NoUpdate \/ (WriteUnderWay /\ Tear)
    /\ UNCHANGED <<version, ran, latest, runner>>

\* A release is published, or withdrawn for an earlier one.
Release ==
    /\ latest' \in Versions \ {latest}
    /\ UNCHANGED <<version, ran, file, fresh, handler, runner>>

TenMinutesPass ==
    /\ fresh
    /\ fresh' = FALSE
    /\ UNCHANGED <<version, ran, latest, file, handler, runner>>

-----------------------------------------------------------------------------
CreateStep(r) ==
    Create(r) \/ Fetch(r) \/ WritePending(r) \/ WriteScript(r) \/ StartRunner(r)
        \/ WriteQueued(r) \/ GiveUp(r)

RunnerStep(i) == Report(i) \/ Install(i) \/ Verify(i) \/ Succeed(i)

Next ==
    \/ \E r \in Creates : CreateStep(r)
    \/ \E r \in Polls : Poll(r)
    \/ \E r \in Clears : ClearStale(r) \/ WriteCleared(r)
    \/ \E r \in Requests : Recover(r)
    \/ \E i \in Creates : RunnerStep(i) \/ Fail(i) \/ RunnerDies(i)
    \/ RestartApi \/ Release \/ TenMinutesPass

Spec == Init /\ [][Next]_vars

(***************************************************************************)
(* Fairness.  Time passes; the API serves the requests it accepted; the    *)
(* update page polls GET latest; and disks are not full for ever, so that  *)
(* the write of a recovered status succeeds some time.  Nothing is assumed *)
(* of the runners: they may hang or die at any stage.                      *)
(***************************************************************************)
Fairness ==
    /\ WF_vars(TenMinutesPass)
    /\ \A r \in Creates : WF_vars(Recover(r) \/ (handler[r].pc # "ready" /\ CreateStep(r)))
    /\ \A r \in Polls : /\ SF_vars(Poll(r))
                        /\ WF_vars(Recover(r))
                        /\ SF_vars(Recover(r) /\ file' = handler[r].task)
    /\ \A r \in Clears : WF_vars(Recover(r) \/ WriteCleared(r))

FairSpec == Spec /\ Fairness

-----------------------------------------------------------------------------
(* Properties.                                                             *)

(* "success" is never a guess: whatever handlers and runners overwrite     *)
(* each other's status, the version a successful task was meant to reach   *)
(* has really answered as the API's.  (the runner's health check,          *)
(* versionMatchesTarget in normalizeUpgradeTaskState)                      *)
SuccessMeansInstalled == file.status = "success" => file.target \in ran

(* No runner is ever started for a release before the API's own, or for    *)
(* that one again, whatever the manifest names and however it changes: a   *)
(* create that slept through an upgrade cannot start one, because the      *)
(* upgrade restarted the API under it, and the order of pre-releases is    *)
(* the order they were released in.  (updateTaskCreate,                    *)
(* comparePanelVersions)                                                   *)
NeverStartsDowngrade ==
    [][ \A i \in Creates :
          ~Live(i) /\ Live(i)' => runner'[i].target > version ]_vars

\* A handler of this task writes over the file what it knew before.
LateWrite(id) ==
    \E r \in Creates :
        /\ handler[r].pc \in {"write", "queued"} /\ handler[r].task.id = id
        /\ handler'[r].pc \in {"script", "done"}

(* What was reported of a finished task stands.  A success is not reported *)
(* active again unless its runner is still at work: the late answer of the *)
(* handler that started it never comes after the success.  A failure is,   *)
(* but only by that answer, or by a second request that took the same name *)
(* before it failed, and once for each: nobody else revives it, and        *)
(* LockReleased says that it does not hold the lock for ever.              *)
(* (updateTaskCreate, normalizeUpgradeTaskState, write_status)             *)
OutcomeStands ==
    [][ file.status \in {"success", "failed"} /\ file'.status \in Active
          /\ file'.id = file.id
            => Live(file.id) \/ (file.status = "failed" /\ LateWrite(file.id)) ]_vars

(* The lock is never stuck: whoever dies at whatever point, again and      *)
(* again a new upgrade would be accepted.  (isActiveUpgradeStatus, the     *)
(* ten minutes of normalizeUpgradeTaskState)                               *)
LockReleased == []<>~RunningUpgradeTask(file)

(* An upgrade that installed its version but was interrupted before it     *)
(* could say so is not shown as running for ever: polling the page turns   *)
(* it into a success.  (normalizeUpgradeTaskState)                         *)
InterruptedUpgradeRecovers ==
    <>[](file.status \in Active => file.target # version)

(* upgradePrechecks: "同一时间只允许一个升级任务", only one upgrade task    *)
(* at a time.                                                              *)
SingleRunner == Cardinality({i \in Creates : Live(i)}) <= 1
=============================================================================
