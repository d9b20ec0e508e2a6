----------------------------- MODULE UpgradeProofs -----------------------------
(***************************************************************************)
(* Proofs about UpgradeTask, for any number of requests and releases.      *)
(***************************************************************************)
EXTENDS UpgradeTask, VersionOrderProofs

-----------------------------------------------------------------------------
\* By transitivity, up from each release: the least one that is not newer
\* would follow one that is.
LEMMA LaterIsNewer ==
    ASSUME ReleasedInOrder, NEW n \in Versions, NEW m \in Versions, n < m
    PROVE  IsRemoteVersionNewer(Releases[m], Releases[n])
  <1> DEFINE wrong == {k \in Versions : n < k /\ ~IsRemoteVersionNewer(Releases[k], Releases[n])}
  <1>1. Versions = 1..Len(Releases) /\ Len(Releases) \in Nat
    BY UpgradeAssumption DEF Versions
  <1>2. SUFFICES ASSUME wrong # {} PROVE FALSE
    OBVIOUS
  <1>3. PICK k \in wrong : \A j \in wrong : k <= j
    <2>1. wrong \in SUBSET Nat
      BY <1>1
    <2> HIDE DEF wrong
    <2>2. QED
      BY <1>2, <2>1, LeastElement
  <1>4. /\ k \in Versions /\ k - 1 \in Versions /\ k \in Int /\ n \in Int /\ n < k
        /\ (k - 1) + 1 = k
    BY <1>1, <1>3
  <1>5. IsRemoteVersionNewer(Releases[k], Releases[k - 1])
    BY <1>4 DEF ReleasedInOrder
  <1>6. CASE n = k - 1
    BY <1>3, <1>5, <1>6
  <1>7. CASE n < k - 1
    <2>1. k - 1 \notin wrong
      BY <1>3, <1>4
    <2>2. IsRemoteVersionNewer(Releases[k - 1], Releases[n])
      BY <1>4, <1>7, <2>1
    <2>3. IsRemoteVersionNewer(Releases[k], Releases[n])
      BY <1>4, <1>5, <2>2, NewerIsTransitive DEF ReleasedInOrder
    <2>4. QED
      BY <1>3, <2>3
  <1>8. QED
    BY <1>4, <1>6, <1>7

(* Of releases in order, the update check takes for newer just those that  *)
(* come later, and both parsers take just one for the target.              *)
(* (isRemoteVersionNewer, versionMatchesTarget, the runner's script)       *)
THEOREM PlacesCompared ==
    ASSUME ReleasedInOrder, NEW n \in Versions, NEW m \in Versions
    PROVE  /\ <<n, m>> \in Above <=> n > m
           /\ <<n, m>> \in Reached <=> n = m
           /\ <<n, m>> \in Recognised <=> n = m
  <1> DEFINE a == Releases[n]
             b == Releases[m]
  <1>1. /\ a \in Ordered /\ b \in Ordered /\ a \in Version /\ b \in Version
        /\ ParsesSemantic(a) /\ ParsesSemantic(b)
    BY DEF ReleasedInOrder, Ordered
  <1>2. n \in Int /\ m \in Int
    BY UpgradeAssumption DEF Versions
  <1>3. /\ <<n, m>> \in Above <=> ComparePanelVersions(a, b) > 0
        /\ <<n, m>> \in Reached <=> ComparePanelVersions(a, b) = 0
        /\ <<n, m>> \in Recognised <=> ComparePanelVersions(a, b) = 0
    <2>1. /\ <<n, m>> \in Above <=> IsRemoteVersionNewer(a, b)
          /\ <<n, m>> \in Reached <=> VersionMatchesTarget(a, b)
          /\ <<n, m>> \in Recognised <=> RunnerRecognises(a, b)
      BY DEF Above, Reached, Recognised
    <2>2. VersionMatchesTarget(a, b) <=> RunnerRecognises(a, b)
      BY <1>1, ParsersAgree
    <2>3. QED
      BY <1>1, <2>1, <2>2 DEF IsRemoteVersionNewer, VersionMatchesTarget, ComparePanelVersions
  <1>4. ComparePanelVersions(a, b) = -ComparePanelVersions(b, a)
    BY <1>1, NewerIsAsymmetric
  <1>5. ComparePanelVersions(a, b) \in {-1, 0, 1} /\ ComparePanelVersions(b, a) \in {-1, 0, 1}
    BY <1>1, CompareDecides
  <1>6. n > m => ComparePanelVersions(a, b) > 0
    BY LaterIsNewer DEF IsRemoteVersionNewer
  <1>7. m > n => ComparePanelVersions(b, a) > 0
    BY LaterIsNewer DEF IsRemoteVersionNewer
  <1>8. n = m => ComparePanelVersions(a, b) = 0
    BY <1>4, <1>5
  <1> HIDE DEF a, b
  <1>9. QED
    BY <1>2, <1>3, <1>4, <1>5, <1>6, <1>7, <1>8

-----------------------------------------------------------------------------
(* The inductive invariant.  A target lies ahead of the running version    *)
(* until an upgrade restarts the API, which ends every request under way:  *)
(* from then on nobody holds a task's name who could report it active.     *)

\* Where a request holds a task that it may still report active.
Held == {"write", "script", "start", "queued"}

NamedTasks == Tasks \ {NoTask}

\* The request a task was named after was accepted.
Named(at, id) == id \in Creates /\ at[id].pc # "ready"

Spent(at, id) ==
    /\ id \in Creates /\ at[id].pc = "done"
    /\ \A q \in Requests : at[q].pc \in Held => at[q].task.id # id

Ahead(v, at, task) == task.target > v \/ Spent(at, task.id)

Proven(seen, at, task) == task.target \in seen /\ Spent(at, task.id)

\* Of version v, versions seen and handlers at their places: what may be at h,
\* a handler's place,
HandlerFits(v, seen, at, r, h) ==
    /\ h.pc \in Held \cup {"giveup"} =>
          /\ r \in Creates /\ h.task \in NamedTasks /\ Named(at, h.task.id)
          /\ h.task.status = "pending" /\ h.task.target > v
    /\ h.pc = "recover" =>
          /\ h.task \in NamedTasks /\ Named(at, h.task.id)
          /\ h.task.status = "success" /\ Proven(seen, at, h.task)
    /\ h.pc = "clear" =>
          /\ r \in Clears /\ h.task \in NamedTasks /\ Named(at, h.task.id)
          /\ h.task.status = "failed"

\* of runner i,
RunnerFits(v, seen, at, i, run) ==
    LET task == Task(i, "running", run.target)
    IN  run.pc \in {"working", "installed", "verified"} =>
            /\ run.target \in Versions /\ Named(at, i) /\ Ahead(v, at, task)
            /\ run.pc # "working" => Proven(seen, at, task)

\* and in the status file.
FileFits(v, seen, at, task) ==
    task # NoTask =>
        /\ Named(at, task.id)
        /\ task.status \in Active => Ahead(v, at, task)
        /\ task.status = "success" => Proven(seen, at, task)

UpgradeInv ==
    /\ TypeOK
    /\ version \in ran
    /\ \A r \in Requests : HandlerFits(version, ran, handler, r, handler[r])
    /\ \A i \in Creates : RunnerFits(version, ran, handler, i, runner[i])
    /\ FileFits(version, ran, handler, file)

-----------------------------------------------------------------------------
(* A step that takes no name away and revives no task keeps what fits.     *)

Keeps(at, after) ==
    \A id \in Creates : /\ Named(at, id) => Named(after, id)
                        /\ Spent(at, id) => Spent(after, id)

LEMMA FitsKept ==
    ASSUME NEW at, NEW after, Keeps(at, after), NEW v, NEW seen
    PROVE  /\ \A r \in Requests : \A h : HandlerFits(v, seen, at, r, h)
                                            => HandlerFits(v, seen, after, r, h)
           /\ \A i \in Creates : \A run : RunnerFits(v, seen, at, i, run)
                                            => RunnerFits(v, seen, after, i, run)
           /\ \A task : FileFits(v, seen, at, task) => FileFits(v, seen, after, task)
  <1>1. \A id : (Named(at, id) => Named(after, id)) /\ (Spent(at, id) => Spent(after, id))
    BY DEF Keeps, Named, Spent
  <1> HIDE DEF Named, Spent
  <1>2. \A task : /\ Ahead(v, at, task) => Ahead(v, after, task)
                  /\ Proven(seen, at, task) => Proven(seen, after, task)
    BY <1>1 DEF Ahead, Proven
  <1>3. QED
    BY <1>1, <1>2 DEF HandlerFits, RunnerFits, FileFits

\* A handler goes on: it does not start over, does not come back from its end
\* and takes no name that is spent.
LEMMA GotoKeeps ==
    ASSUME TypeOK, NEW r \in Requests, NEW pc \in HandlerPlaces, NEW task \in Tasks,
           Goto(r, pc, task),
           r \in Creates => pc # "ready" /\ handler[r].pc # "done",
           pc \in Held => ~Spent(handler, task.id)
    PROVE  /\ handler' \in [Requests -> [pc : HandlerPlaces, task : Tasks]]
           /\ handler'[r] = [pc |-> pc, task |-> task]
           /\ \A q \in Requests : q # r => handler'[q] = handler[q]
           /\ Keeps(handler, handler')
  <1>1. /\ handler \in [Requests -> [pc : HandlerPlaces, task : Tasks]]
        /\ handler' = [handler EXCEPT ![r] = [pc |-> pc, task |-> task]]
    BY DEF TypeOK, Goto
  <1>2. /\ handler' \in [Requests -> [pc : HandlerPlaces, task : Tasks]]
        /\ handler'[r] = [pc |-> pc, task |-> task]
        /\ \A q \in Requests : q # r => handler'[q] = handler[q]
    <2>1. [pc |-> pc, task |-> task] \in [pc : HandlerPlaces, task : Tasks]
      OBVIOUS
    <2>2. QED
      BY <1>1, <2>1
  <1>3. ASSUME NEW id \in Creates, Named(handler, id)
        PROVE  Named(handler', id)
    BY <1>2, <1>3 DEF Named, Requests
  <1>4. ASSUME NEW id \in Creates, Spent(handler, id)
        PROVE  Spent(handler', id)
    <2>1. id # r /\ id \in Requests
      BY <1>4 DEF Spent, Requests
    <2>2. handler'[id].pc = "done"
      BY <1>2, <1>4, <2>1 DEF Spent
    <2>3. \A q \in Requests : handler'[q].pc \in Held => handler'[q].task.id # id
      <3>1. SUFFICES ASSUME NEW q \in Requests, handler'[q].pc \in Held
                     PROVE  handler'[q].task.id # id
        OBVIOUS
      <3>2. CASE q = r
        BY <1>2, <1>4, <3>1, <3>2
      <3>3. CASE q # r
        BY <1>2, <1>4, <3>1, <3>3 DEF Spent
      <3>4. QED
        BY <3>2, <3>3
    <2>4. QED
      BY <2>2, <2>3 DEF Spent
  <1>5. QED
    BY <1>2, <1>3, <1>4 DEF Keeps

\* A handler's step.
LEMMA GotoSound ==
    ASSUME UpgradeInv, NEW r \in Requests, NEW pc \in HandlerPlaces, NEW task \in Tasks,
           Goto(r, pc, task),
           r \in Creates => pc # "ready" /\ handler[r].pc # "done",
           pc \in Held => ~Spent(handler, task.id),
           HandlerFits(version, ran, handler, r, [pc |-> pc, task |-> task]),
           file' \in Tasks, FileFits(version, ran, handler, file'), fresh' \in BOOLEAN,
           runner' \in [Creates -> [pc : RunnerPlaces, stage : 0..Len(Stages),
                                    target : {0} \cup Versions]],
           \A i \in Creates : RunnerFits(version, ran, handler, i, runner'[i]),
           UNCHANGED <<version, ran, latest>>
    PROVE  UpgradeInv'
  <1>1. /\ handler' \in [Requests -> [pc : HandlerPlaces, task : Tasks]]
        /\ handler'[r] = [pc |-> pc, task |-> task]
        /\ \A q \in Requests : q # r => handler'[q] = handler[q]
        /\ Keeps(handler, handler')
    BY GotoKeeps DEF UpgradeInv
  <1>2. \A q \in Requests : HandlerFits(version, ran, handler, q, handler'[q])
    BY <1>1 DEF UpgradeInv
  <1>3. /\ \A q \in Requests : HandlerFits(version, ran, handler', q, handler'[q])
        /\ \A i \in Creates : RunnerFits(version, ran, handler', i, runner'[i])
        /\ FileFits(version, ran, handler', file')
    BY <1>1, <1>2, FitsKept
  <1>4. TypeOK'
    BY <1>1 DEF UpgradeInv, TypeOK
  <1>5. QED
    BY <1>3, <1>4 DEF UpgradeInv

\* A step of a runner, or of the clock.
LEMMA HandlersStand ==
    ASSUME UpgradeInv,
           file' \in Tasks, FileFits(version, ran, handler, file'), fresh' \in BOOLEAN,
           runner' \in [Creates -> [pc : RunnerPlaces, stage : 0..Len(Stages),
                                    target : {0} \cup Versions]],
           \A i \in Creates : RunnerFits(version, ran, handler, i, runner'[i]),
           UNCHANGED <<version, ran, latest, handler>>
    PROVE  UpgradeInv'
  <1>1. TypeOK'
    BY DEF UpgradeInv, TypeOK
  <1>2. QED
    BY <1>1 DEF UpgradeInv

\* A write of the file leaves what was meant, what was there, or nothing.
LEMMA WriteFits ==
    ASSUME UpgradeInv, NEW task \in Tasks, FileFits(version, ran, handler, task),
           WriteFile(task) \/ WriteFails
    PROVE  file' \in Tasks /\ FileFits(version, ran, handler, file') /\ fresh' \in BOOLEAN
  <1>1. FileFits(version, ran, handler, NoTask) /\ NoTask \in Tasks
    BY DEF FileFits, Tasks
  <1>2. file \in Tasks /\ FileFits(version, ran, handler, file) /\ fresh \in BOOLEAN
    BY DEF UpgradeInv, TypeOK
  <1>3. QED
    BY <1>1, <1>2 DEF WriteFile, WriteFails, NoUpdate, Tear

\* A restart ends every request that had been accepted.
LEMMA AbandonedFacts ==
    ASSUME TypeOK
    PROVE  /\ Abandoned \in [Requests -> [pc : HandlerPlaces, task : Tasks]]
           /\ \A r \in Requests : Abandoned[r].pc \in {"ready", "done"}
           /\ \A id \in Creates : Named(handler, id) =>
                  Named(Abandoned, id) /\ Spent(Abandoned, id)
           /\ Keeps(handler, Abandoned)
  <1>1. Abandoned \in [Requests -> [pc : HandlerPlaces, task : Tasks]]
    BY DEF Abandoned, Idle, HandlerPlaces, Tasks
  <1>2. \A r \in Requests : Abandoned[r].pc \in {"ready", "done"}
    BY DEF Abandoned, Idle
  <1>3. \A id \in Creates : handler[id].pc # "ready" => Abandoned[id].pc = "done"
    BY DEF Abandoned, Requests
  <1>4. \A id \in Creates : Named(handler, id) => Named(Abandoned, id) /\ Spent(Abandoned, id)
    BY <1>2, <1>3 DEF Named, Spent, Held
  <1>5. QED
    BY <1>1, <1>2, <1>4 DEF Keeps, Named, Spent

-----------------------------------------------------------------------------
(* The steps of the handlers.                                              *)

LEMMA ActiveStatuses == Active = {"pending", "running", "installing", "restarting"}
  <1>1. DOMAIN Stages = {1, 2, 3}
    BY DEF Stages
  <1>2. Stages[1] = "running" /\ Stages[2] = "installing" /\ Stages[3] = "restarting"
    BY DEF Stages
  <1>3. QED
    BY <1>1, <1>2 DEF Active

Statuses == Active \cup {"success", "failed"}

LEMMA NamedTaskFacts ==
    /\ \A t \in NamedTasks : t \in [id : Creates, status : Statuses, target : Versions]
    /\ \A t \in [id : Creates, status : Statuses, target : Versions] :
          t \in NamedTasks /\ t \in Tasks /\ t # NoTask
  <1>1. NoTask.status \notin Statuses
    BY ActiveStatuses DEF NoTask, Statuses
  <1>2. QED
    BY <1>1 DEF NamedTasks, Tasks, Statuses

LEMMA StatusSet ==
    ASSUME NEW t \in NamedTasks, NEW status \in Statuses,
           NEW s, s = [t EXCEPT !.status = status]
    PROVE  s \in NamedTasks /\ s \in Tasks
           /\ s.id = t.id /\ s.target = t.target /\ s.status = status
  <1>1. t \in [id : Creates, status : Statuses, target : Versions]
    BY NamedTaskFacts
  <1>2. /\ s \in [id : Creates, status : Statuses, target : Versions]
        /\ s.id = t.id /\ s.target = t.target /\ s.status = status
    BY <1>1
  <1>3. QED
    BY <1>2, NamedTaskFacts

LEMMA HolderFacts ==
    ASSUME UpgradeInv, NEW r \in Requests, handler[r].pc \in Held \cup {"giveup"}
    PROVE  /\ r \in Creates /\ handler[r].task \in NamedTasks /\ handler[r].task \in Tasks
           /\ Named(handler, handler[r].task.id) /\ handler[r].task.id \in Creates
           /\ handler[r].task.status = "pending"
           /\ handler[r].task.target > version /\ handler[r].task.target \in Versions
           /\ handler[r].pc \in Held => ~Spent(handler, handler[r].task.id)
  <1>1. HandlerFits(version, ran, handler, r, handler[r])
    BY DEF UpgradeInv
  <1>2. QED
    BY <1>1, NamedTaskFacts DEF HandlerFits, NamedTasks, Spent

\* A task that runs its target is stale only when it is spent.
LEMMA RecoveryFits ==
    ASSUME UpgradeInv, ReleasedInOrder, NEW r, NEW seen \in Readings, Recovers(seen)
    PROVE  /\ Recovered(seen) \in Tasks
           /\ HandlerFits(version, ran, handler, r,
                          [pc |-> "recover", task |-> Recovered(seen)])
  <1>1. seen = file /\ file \in NamedTasks /\ file # NoTask /\ file.status \in Active
    BY ActiveStatuses DEF Readings, Recovers, Stale, NoTask, NamedTasks, UpgradeInv, TypeOK
  <1>2. file.target \in Versions /\ version \in Versions
    BY <1>1, NamedTaskFacts DEF UpgradeInv, TypeOK
  <1>3. file.target = version
    BY <1>1, <1>2, PlacesCompared DEF Recovers
  <1>4. Named(handler, file.id) /\ Spent(handler, file.id)
    <2>1. version \in Int
      BY <1>2, UpgradeAssumption DEF Versions
    <2>2. QED
      BY <1>1, <1>3, <2>1 DEF UpgradeInv, FileFits, Ahead
  <1> DEFINE task == Recovered(file)
  <1>5. task \in NamedTasks /\ task \in Tasks /\ task.id = file.id
        /\ task.target = file.target /\ task.status = "success"
    BY <1>1, StatusSet DEF Recovered, Statuses
  <1>6. Proven(ran, handler, task)
    BY <1>3, <1>4, <1>5 DEF Proven, UpgradeInv
  <1> HIDE DEF task
  <1>7. HandlerFits(version, ran, handler, r, [pc |-> "recover", task |-> task])
    BY <1>4, <1>5, <1>6 DEF HandlerFits, Held
  <1>8. QED
    BY <1>1, <1>5, <1>7 DEF task

\* A handler's step that touches no runner.
LEMMA HandlerAlone ==
    ASSUME UpgradeInv, NEW r \in Requests, NEW pc \in HandlerPlaces, NEW task \in Tasks,
           Goto(r, pc, task),
           r \in Creates => pc # "ready" /\ handler[r].pc # "done",
           pc \in Held => ~Spent(handler, task.id),
           HandlerFits(version, ran, handler, r, [pc |-> pc, task |-> task]),
           file' \in Tasks, FileFits(version, ran, handler, file'), fresh' \in BOOLEAN,
           UNCHANGED <<version, ran, latest, runner>>
    PROVE  UpgradeInv'
  <1>1. /\ runner' \in [Creates -> [pc : RunnerPlaces, stage : 0..Len(Stages),
                                    target : {0} \cup Versions]]
        /\ \A i \in Creates : RunnerFits(version, ran, handler, i, runner'[i])
    BY DEF UpgradeInv, TypeOK
  <1>2. QED
    BY <1>1, GotoSound

\* A handler that lets go of its task, or has none yet.
LEMMA NothingHeld ==
    /\ NoTask \in Tasks
    /\ \A r, v, seen, at : \A pc \in {"ready", "fetch", "done"} :
          /\ pc \in HandlerPlaces /\ pc \notin Held
          /\ HandlerFits(v, seen, at, r, [pc |-> pc, task |-> NoTask])
  BY DEF Tasks, HandlerPlaces, Held, HandlerFits

LEMMA FileStands ==
    ASSUME UpgradeInv, NoUpdate
    PROVE  file' \in Tasks /\ FileFits(version, ran, handler, file') /\ fresh' \in BOOLEAN
  BY DEF UpgradeInv, TypeOK, NoUpdate

LEMMA RecoverSound ==
    ASSUME UpgradeInv, NEW r \in Requests, Recover(r)
    PROVE  UpgradeInv'
  <1> DEFINE task == handler[r].task
  <1>1. /\ task \in NamedTasks /\ task \in Tasks /\ Named(handler, task.id)
        /\ task.status = "success" /\ Proven(ran, handler, task)
    BY DEF UpgradeInv, HandlerFits, Recover, NamedTasks
  <1>2. FileFits(version, ran, handler, task)
    BY <1>1, ActiveStatuses DEF FileFits
  <1>3. file' \in Tasks /\ FileFits(version, ran, handler, file') /\ fresh' \in BOOLEAN
    BY <1>1, <1>2, WriteFits DEF Recover
  <1>4. /\ Goto(r, AfterRecovery(r), NoTask) /\ handler[r].pc = "recover"
        /\ AfterRecovery(r) \in {"fetch", "ready"}
        /\ r \in Creates => AfterRecovery(r) = "fetch"
        /\ UNCHANGED <<version, ran, latest, runner>>
    BY DEF Recover, AfterRecovery
  <1>5. QED
    BY <1>3, <1>4, NothingHeld, HandlerAlone

LEMMA PollSound ==
    ASSUME UpgradeInv, ReleasedInOrder, NEW r \in Polls, Poll(r)
    PROVE  UpgradeInv'
  <1>1. PICK seen \in Readings : Recovers(seen) /\ Goto(r, "recover", Recovered(seen))
    BY DEF Poll
  <1>2. r \in Requests /\ r \notin Creates
    BY UpgradeAssumption DEF Requests
  <1>3. "recover" \in HandlerPlaces /\ "recover" \notin Held
    BY DEF HandlerPlaces, Held
  <1>4. QED
    BY <1>1, <1>2, <1>3, RecoveryFits, FileStands, HandlerAlone DEF Poll

LEMMA ClearStaleSound ==
    ASSUME UpgradeInv, ReleasedInOrder, NEW r \in Clears, ClearStale(r)
    PROVE  UpgradeInv'
  <1>1. PICK seen \in Readings :
          \/ Recovers(seen) /\ Goto(r, "recover", Recovered(seen))
          \/ Stale(seen) /\ Goto(r, "clear", [seen EXCEPT !.status = "failed"])
    BY DEF ClearStale
  <1>2. r \in Requests /\ r \notin Creates
    BY UpgradeAssumption DEF Requests
  <1>3. /\ "recover" \in HandlerPlaces /\ "recover" \notin Held
        /\ "clear" \in HandlerPlaces /\ "clear" \notin Held
    BY DEF HandlerPlaces, Held
  <1>4. CASE Recovers(seen) /\ Goto(r, "recover", Recovered(seen))
    BY <1>2, <1>3, <1>4, RecoveryFits, FileStands, HandlerAlone DEF ClearStale
  <1>5. CASE Stale(seen) /\ Goto(r, "clear", [seen EXCEPT !.status = "failed"])
    <2> DEFINE task == [file EXCEPT !.status = "failed"]
    <2>1. seen = file /\ file \in NamedTasks /\ file # NoTask
      BY <1>5, ActiveStatuses DEF Readings, Stale, NoTask, NamedTasks, UpgradeInv, TypeOK
    <2>2. task \in NamedTasks /\ task \in Tasks /\ task.id = file.id /\ task.status = "failed"
      BY <2>1, StatusSet DEF Statuses
    <2>3. Named(handler, file.id)
      BY <2>1 DEF UpgradeInv, FileFits
    <2>4. Goto(r, "clear", task)
      BY <1>5, <2>1
    <2> HIDE DEF task
    <2>5. HandlerFits(version, ran, handler, r, [pc |-> "clear", task |-> task])
      BY <2>2, <2>3 DEF HandlerFits, Held
    <2>6. QED
      BY <1>2, <1>3, <2>2, <2>4, <2>5, FileStands, HandlerAlone DEF ClearStale
  <1>6. QED
    BY <1>1, <1>4, <1>5

LEMMA WriteClearedSound ==
    ASSUME UpgradeInv, NEW r \in Clears, WriteCleared(r)
    PROVE  UpgradeInv'
  <1> DEFINE task == handler[r].task
  <1>1. r \in Requests /\ r \notin Creates
    BY UpgradeAssumption DEF Requests
  <1>2. /\ task \in NamedTasks /\ task \in Tasks /\ Named(handler, task.id)
        /\ task.status = "failed"
    BY <1>1 DEF UpgradeInv, HandlerFits, WriteCleared, NamedTasks
  <1>3. FileFits(version, ran, handler, task)
    BY <1>2, ActiveStatuses DEF FileFits
  <1>4. file' \in Tasks /\ FileFits(version, ran, handler, file') /\ fresh' \in BOOLEAN
    BY <1>2, <1>3, WriteFits DEF WriteCleared
  <1>5. Goto(r, "ready", NoTask) /\ UNCHANGED <<version, ran, latest, runner>>
    BY DEF WriteCleared
  <1>6. QED
    BY <1>1, <1>4, <1>5, NothingHeld, HandlerAlone

LEMMA CreateSound ==
    ASSUME UpgradeInv, ReleasedInOrder, NEW r \in Creates, Create(r)
    PROVE  UpgradeInv'
  <1>1. PICK seen \in Readings :
          \/ Recovers(seen) /\ Goto(r, "recover", Recovered(seen))
          \/ Goto(r, "done", NoTask)
          \/ Goto(r, "fetch", NoTask)
    BY DEF Create
  <1>2. /\ r \in Requests /\ handler[r].pc = "ready"
        /\ "recover" \in HandlerPlaces /\ "recover" \notin Held
        /\ NoUpdate /\ UNCHANGED <<version, ran, latest, runner>>
    BY DEF Requests, HandlerPlaces, Held, Create
  <1>3. CASE Recovers(seen) /\ Goto(r, "recover", Recovered(seen))
    BY <1>2, <1>3, RecoveryFits, FileStands, HandlerAlone
  <1>4. CASE Goto(r, "done", NoTask)
    BY <1>2, <1>4, NothingHeld, FileStands, HandlerAlone
  <1>5. CASE Goto(r, "fetch", NoTask)
    BY <1>2, <1>5, NothingHeld, FileStands, HandlerAlone
  <1>6. QED
    BY <1>1, <1>3, <1>4, <1>5

\* The name of a task is new, or held by another request: not spent.
LEMMA FetchSound ==
    ASSUME UpgradeInv, ReleasedInOrder, NEW r \in Creates, Fetch(r)
    PROVE  UpgradeInv'
  <1>1. r \in Requests /\ handler[r].pc = "fetch" /\ NoUpdate
        /\ UNCHANGED <<version, ran, latest, runner>>
    BY DEF Requests, Fetch
  <1>2. CASE Goto(r, "done", NoTask)
    BY <1>1, <1>2, NothingHeld, FileStands, HandlerAlone
  <1>3. ASSUME Newer,
               NEW id \in {r} \cup {handler[q].task.id : q \in
                  {q \in Creates : handler[q].pc \in {"write", "script", "start", "queued"}}},
               Goto(r, "write", Task(id, "pending", Target))
        PROVE  UpgradeInv'
    <2> DEFINE task == Task(id, "pending", latest)
    <2>1. latest \in Versions /\ version \in Versions
      BY DEF UpgradeInv, TypeOK
    <2>2. latest > version
      BY <1>3, <2>1, PlacesCompared DEF Newer
    <2>3. Named(handler, id) /\ id \in Creates /\ ~Spent(handler, id)
      <3>1. CASE id = r
        BY <1>1, <3>1 DEF Named, Spent
      <3>2. CASE id # r
        <4>1. PICK q \in Creates : handler[q].pc \in Held /\ id = handler[q].task.id
          BY <1>3, <3>2 DEF Held
        <4>2. QED
          BY <4>1, HolderFacts DEF Requests
      <3>3. QED
        BY <3>1, <3>2
    <2>4. /\ task \in NamedTasks /\ task \in Tasks
          /\ task.id = id /\ task.status = "pending" /\ task.target = latest
      BY <2>1, <2>3, NamedTaskFacts, ActiveStatuses DEF Task, Statuses
    <2>5. Goto(r, "write", task)
      BY <1>3 DEF Target
    <2> HIDE DEF task
    <2>6. HandlerFits(version, ran, handler, r, [pc |-> "write", task |-> task])
      BY <2>2, <2>3, <2>4 DEF HandlerFits
    <2>7. "write" \in HandlerPlaces
      BY DEF HandlerPlaces
    <2>8. QED
      BY <1>1, <2>3, <2>4, <2>5, <2>6, <2>7, FileStands, HandlerAlone
  <1>4. QED
    BY <1>2, <1>3 DEF Fetch

\* A handler that passes its task on.
LEMMA PassedOn ==
    ASSUME UpgradeInv, NEW r \in Requests, handler[r].pc \in Held,
           NEW pc \in Held \cup {"giveup"}
    PROVE  /\ pc \in HandlerPlaces
           /\ HandlerFits(version, ran, handler, r, [pc |-> pc, task |-> handler[r].task])
  <1>1. HandlerFits(version, ran, handler, r, handler[r])
    BY DEF UpgradeInv
  <1>2. QED
    BY <1>1 DEF HandlerFits, Held, HandlerPlaces

LEMMA WritePendingSound ==
    ASSUME UpgradeInv, NEW r \in Creates, WritePending(r)
    PROVE  UpgradeInv'
  <1> DEFINE task == handler[r].task
  <1>1. /\ r \in Requests /\ handler[r].pc = "write" /\ handler[r].pc \in Held
        /\ "script" \in Held
        /\ UNCHANGED <<version, ran, latest, runner>>
    BY DEF Requests, Held, WritePending
  <1>2. /\ task \in NamedTasks /\ task \in Tasks /\ Named(handler, task.id)
        /\ task.status = "pending" /\ task.target > version
        /\ ~Spent(handler, task.id)
    BY <1>1, HolderFacts
  <1>3. FileFits(version, ran, handler, task)
    BY <1>2 DEF FileFits, Ahead
  <1>4. file' \in Tasks /\ FileFits(version, ran, handler, file') /\ fresh' \in BOOLEAN
    BY <1>2, <1>3, WriteFits DEF WritePending
  <1>5. CASE Goto(r, "script", task)
    BY <1>1, <1>2, <1>4, <1>5, PassedOn, HandlerAlone
  <1>6. CASE Goto(r, "done", NoTask)
    BY <1>1, <1>4, <1>6, NothingHeld, HandlerAlone
  <1>7. QED
    BY <1>5, <1>6 DEF WritePending

LEMMA WriteScriptSound ==
    ASSUME UpgradeInv, NEW r \in Creates, WriteScript(r)
    PROVE  UpgradeInv'
  <1> DEFINE task == handler[r].task
  <1>1. /\ r \in Requests /\ handler[r].pc = "script" /\ handler[r].pc \in Held
        /\ "start" \in Held /\ NoUpdate
        /\ UNCHANGED <<version, ran, latest, runner>>
    BY DEF Requests, Held, WriteScript
  <1>2. task \in Tasks /\ ~Spent(handler, task.id)
    BY <1>1, HolderFacts
  <1>3. PICK pc \in {"start", "giveup"} : Goto(r, pc, task)
    BY DEF WriteScript
  <1>4. pc \in Held \cup {"giveup"} /\ pc # "ready"
    BY DEF Held
  <1>5. QED
    BY <1>1, <1>2, <1>3, <1>4, PassedOn, FileStands, HandlerAlone

LEMMA StartRunnerSound ==
    ASSUME UpgradeInv, NEW r \in Creates, StartRunner(r)
    PROVE  UpgradeInv'
  <1> DEFINE task == handler[r].task
             run == [pc |-> "working", stage |-> 0, target |-> task.target]
  <1>1. /\ r \in Requests /\ handler[r].pc = "start" /\ handler[r].pc \in Held
        /\ "queued" \in Held /\ "giveup" \notin Held /\ NoUpdate
        /\ UNCHANGED <<version, ran, latest>>
    BY DEF Requests, Held, StartRunner
  <1>2. /\ task \in Tasks /\ task.id \in Creates /\ Named(handler, task.id)
        /\ task.target > version /\ task.target \in Versions
        /\ ~Spent(handler, task.id)
    BY <1>1, HolderFacts
  <1>3. CASE runner' = [runner EXCEPT ![task.id] = run] /\ Goto(r, "queued", task)
    <2>1. runner \in [Creates -> [pc : RunnerPlaces, stage : 0..Len(Stages),
                                  target : {0} \cup Versions]]
      BY DEF UpgradeInv, TypeOK
    <2>2. run \in [pc : RunnerPlaces, stage : 0..Len(Stages), target : {0} \cup Versions]
      BY <1>2 DEF RunnerPlaces, Stages
    <2>3. runner' \in [Creates -> [pc : RunnerPlaces, stage : 0..Len(Stages),
                                   target : {0} \cup Versions]]
      BY <1>3, <2>1, <2>2
    <2>4. RunnerFits(version, ran, handler, task.id, run)
      BY <1>2 DEF RunnerFits, Ahead, Task
    <2> HIDE DEF run
    <2>5. \A i \in Creates : RunnerFits(version, ran, handler, i, runner'[i])
      BY <1>2, <1>3, <2>1, <2>4 DEF UpgradeInv
    <2>6. QED
      BY <1>1, <1>2, <1>3, <2>3, <2>5, PassedOn, FileStands, GotoSound
  <1>4. CASE UNCHANGED runner /\ Goto(r, "giveup", task)
    BY <1>1, <1>2, <1>4, PassedOn, FileStands, HandlerAlone
  <1>5. QED
    BY <1>3, <1>4 DEF StartRunner

\* The late answer still names an upgrade that lies ahead.
LEMMA LastWriteSound ==
    ASSUME UpgradeInv, NEW r \in Creates, WriteQueued(r) \/ GiveUp(r)
    PROVE  UpgradeInv'
  <1> DEFINE task == handler[r].task
  <1>1. PICK status \in {"running", "failed"} :
          /\ WriteFile([task EXCEPT !.status = status]) \/ WriteFails
          /\ handler[r].pc \in {"queued", "giveup"}
          /\ Goto(r, "done", NoTask)
          /\ UNCHANGED <<version, ran, latest, runner>>
    BY DEF WriteQueued, GiveUp
  <1>2. r \in Requests /\ handler[r].pc \in Held \cup {"giveup"} /\ handler[r].pc # "done"
    BY <1>1 DEF Requests, Held
  <1>3. /\ task \in NamedTasks /\ Named(handler, task.id) /\ task.target > version
    BY <1>2, HolderFacts
  <1> DEFINE written == [task EXCEPT !.status = status]
  <1>4. /\ written \in Tasks /\ written.id = task.id /\ written.target = task.target
        /\ written.status = status
    BY <1>3, StatusSet, ActiveStatuses DEF Statuses
  <1>5. FileFits(version, ran, handler, written)
    <2> HIDE DEF written
    <2>1. QED
      BY <1>3, <1>4 DEF FileFits, Ahead
  <1>6. file' \in Tasks /\ FileFits(version, ran, handler, file') /\ fresh' \in BOOLEAN
    BY <1>1, <1>4, <1>5, WriteFits
  <1>7. QED
    BY <1>1, <1>2, <1>6, NothingHeld, HandlerAlone

-----------------------------------------------------------------------------
(* The steps of the runners, and of the world.                             *)

LEMMA RunnerFacts ==
    ASSUME UpgradeInv, NEW i \in Creates, Live(i)
    PROVE  /\ runner[i].target \in Versions /\ Named(handler, i)
           /\ runner[i].target > version \/ Spent(handler, i)
           /\ runner[i].pc # "working" => runner[i].target \in ran /\ Spent(handler, i)
  <1>1. RunnerFits(version, ran, handler, i, runner[i])
    BY DEF UpgradeInv
  <1>2. QED
    BY <1>1 DEF RunnerFits, Live, Ahead, Proven, Task

\* A runner that goes on, or ends, without an install.
LEMMA RunnerGoesOn ==
    ASSUME UpgradeInv, NEW i \in Creates, Live(i), NEW pc \in RunnerPlaces, NEW stage \in 0..Len(Stages),
           pc \in {"installed", "verified"} => runner[i].pc # "working",
           runner' = [runner EXCEPT ![i] = [pc |-> pc, stage |-> stage, target |-> runner[i].target]]
    PROVE  /\ runner' \in [Creates -> [pc : RunnerPlaces, stage : 0..Len(Stages),
                                       target : {0} \cup Versions]]
           /\ \A j \in Creates : RunnerFits(version, ran, handler, j, runner'[j])
  <1> DEFINE run == [pc |-> pc, stage |-> stage, target |-> runner[i].target]
  <1>1. runner \in [Creates -> [pc : RunnerPlaces, stage : 0..Len(Stages),
                                target : {0} \cup Versions]]
    BY DEF UpgradeInv, TypeOK
  <1>2. run \in [pc : RunnerPlaces, stage : 0..Len(Stages), target : {0} \cup Versions]
    BY <1>1
  <1>3. RunnerFits(version, ran, handler, i, run)
    BY RunnerFacts DEF RunnerFits, Ahead, Proven, Task
  <1> HIDE DEF run
  <1>4. runner' = [runner EXCEPT ![i] = run]
    BY DEF run
  <1>5. QED
    BY <1>1, <1>2, <1>3, <1>4 DEF UpgradeInv

LEMMA ReportFits ==
    ASSUME UpgradeInv, NEW i \in Creates, Live(i), NEW status \in Statuses,
           status = "success" => runner[i].pc # "working",
           NEW task, task = Task(i, status, runner[i].target)
    PROVE  task \in Tasks /\ FileFits(version, ran, handler, task)
  <1>1. /\ task \in [id : Creates, status : Statuses, target : Versions]
        /\ task.id = i /\ task.status = status /\ task.target = runner[i].target
    BY RunnerFacts DEF Task
  <1>2. task \in Tasks
    BY <1>1, NamedTaskFacts
  <1>3. QED
    BY <1>1, <1>2, RunnerFacts DEF FileFits, Ahead, Proven

LEMMA RunnerRecord ==
    ASSUME UpgradeInv, NEW i \in Creates
    PROVE  /\ runner[i].pc \in RunnerPlaces /\ runner[i].stage \in 0..Len(Stages)
           /\ \A pc : [runner EXCEPT ![i].pc = pc]
                = [runner EXCEPT ![i] = [pc |-> pc, stage |-> runner[i].stage,
                                         target |-> runner[i].target]]
           /\ \A stage : [runner EXCEPT ![i].stage = stage]
                = [runner EXCEPT ![i] = [pc |-> runner[i].pc, stage |-> stage,
                                         target |-> runner[i].target]]
  <1>1. runner[i] \in [pc : RunnerPlaces, stage : 0..Len(Stages), target : {0} \cup Versions]
    BY DEF UpgradeInv, TypeOK
  <1>2. /\ \A pc : [runner[i] EXCEPT !.pc = pc]
                = [pc |-> pc, stage |-> runner[i].stage, target |-> runner[i].target]
        /\ \A stage : [runner[i] EXCEPT !.stage = stage]
                = [pc |-> runner[i].pc, stage |-> stage, target |-> runner[i].target]
    BY <1>1
  <1>3. QED
    BY <1>1, <1>2

LEMMA ReportSound ==
    ASSUME UpgradeInv, NEW i \in Creates, Report(i)
    PROVE  UpgradeInv'
  <1> DEFINE next == runner[i].stage + 1
             status == Stages[next]
  <1>1. /\ Live(i) /\ next \in 0..Len(Stages) /\ next \in DOMAIN Stages
        /\ runner' = [runner EXCEPT ![i].stage = next]
        /\ WriteFile(Task(i, status, runner[i].target))
        /\ UNCHANGED <<version, ran, latest, handler>>
    BY RunnerRecord DEF Report, Live, Stages
  <1>2. status \in Statuses /\ status # "success"
    BY <1>1, ActiveStatuses DEF Statuses, Active
  <1> HIDE DEF next, status
  <1>3. /\ runner' \in [Creates -> [pc : RunnerPlaces, stage : 0..Len(Stages),
                                    target : {0} \cup Versions]]
        /\ \A j \in Creates : RunnerFits(version, ran, handler, j, runner'[j])
    <2>1. /\ runner[i].pc \in RunnerPlaces
          /\ runner' = [runner EXCEPT ![i] = [pc |-> runner[i].pc, stage |-> next,
                                              target |-> runner[i].target]]
      BY <1>1, RunnerRecord
    <2>2. QED
      BY <1>1, <2>1, RunnerGoesOn
  <1>4. file' \in Tasks /\ FileFits(version, ran, handler, file') /\ fresh' \in BOOLEAN
    BY <1>1, <1>2, ReportFits DEF WriteFile
  <1>5. QED
    BY <1>1, <1>3, <1>4, HandlersStand

LEMMA VerifySound ==
    ASSUME UpgradeInv, NEW i \in Creates, Verify(i)
    PROVE  UpgradeInv'
  <1>1. /\ Live(i) /\ runner[i].pc # "working" /\ "verified" \in RunnerPlaces
        /\ runner' = [runner EXCEPT ![i].pc = "verified"]
        /\ NoUpdate /\ UNCHANGED <<version, ran, latest, handler>>
    BY DEF Verify, Live, RunnerPlaces, NoUpdate
  <1>2. /\ runner[i].stage \in 0..Len(Stages)
        /\ runner' = [runner EXCEPT ![i] = [pc |-> "verified", stage |-> runner[i].stage,
                                            target |-> runner[i].target]]
    BY <1>1, RunnerRecord
  <1>3. QED
    BY <1>1, <1>2, RunnerGoesOn, FileStands, HandlersStand

\* It ends: with a success it has proved, a failure, or nothing.
LEMMA RunnerEndSound ==
    ASSUME UpgradeInv, NEW i \in Creates, Succeed(i) \/ Fail(i) \/ RunnerDies(i)
    PROVE  UpgradeInv'
  <1>1. /\ Live(i) /\ "done" \in RunnerPlaces
        /\ runner' = [runner EXCEPT ![i].pc = "done"]
        /\ UNCHANGED <<version, ran, latest, handler>>
    BY DEF Succeed, Fail, RunnerDies, Live, RunnerPlaces
  <1>2. /\ runner' \in [Creates -> [pc : RunnerPlaces, stage : 0..Len(Stages),
                                    target : {0} \cup Versions]]
        /\ \A j \in Creates : RunnerFits(version, ran, handler, j, runner'[j])
    <2>1. /\ runner[i].stage \in 0..Len(Stages)
          /\ runner' = [runner EXCEPT ![i] = [pc |-> "done", stage |-> runner[i].stage,
                                              target |-> runner[i].target]]
      BY <1>1, RunnerRecord
    <2>2. QED
      BY <1>1, <2>1, RunnerGoesOn
  <1>3. file' \in Tasks /\ FileFits(version, ran, handler, file') /\ fresh' \in BOOLEAN
    <2>1. CASE Succeed(i)
      <3>1. runner[i].pc # "working" /\ WriteFile(Task(i, "success", runner[i].target))
        BY <2>1 DEF Succeed
      <3>2. QED
        BY <1>1, <3>1, ReportFits DEF WriteFile, Statuses
    <2>2. CASE Fail(i)
      <3>1. WriteFile(Task(i, "failed", runner[i].target))
        BY <2>2 DEF Fail
      <3>2. QED
        BY <1>1, <3>1, ReportFits DEF WriteFile, Statuses
    <2>3. CASE RunnerDies(i)
      <3>1. NoTask \in Tasks /\ FileFits(version, ran, handler, NoTask)
        BY DEF Tasks, FileFits
      <3>2. QED
        BY <2>3, <3>1, WriteFits DEF RunnerDies
    <2>4. QED
      BY <2>1, <2>2, <2>3
  <1>4. QED
    BY <1>1, <1>2, <1>3, HandlersStand

\* After a restart of the API no task can be reported active but by its runner.
LEMMA AfterRestart ==
    ASSUME UpgradeInv, NEW v, NEW seen, NEW id \in Creates, Named(handler, id),
           NEW task, task.id = id
    PROVE  /\ Named(Abandoned, id)
           /\ Ahead(v, Abandoned, task)
           /\ task.target \in seen => Proven(seen, Abandoned, task)
  BY AbandonedFacts DEF UpgradeInv, Ahead, Proven

LEMMA AbandonedFit ==
    ASSUME UpgradeInv, NEW v, NEW seen
    PROVE  \A r \in Requests : HandlerFits(v, seen, Abandoned, r, Abandoned[r])
  BY AbandonedFacts DEF UpgradeInv, HandlerFits, Held

LEMMA InstallSound ==
    ASSUME UpgradeInv, NEW i \in Creates, Install(i)
    PROVE  UpgradeInv'
  <1>1. /\ Live(i) /\ runner[i].pc = "working" /\ "installed" \in RunnerPlaces
        /\ version' = runner[i].target /\ ran' = ran \cup {version'}
        /\ runner' = [runner EXCEPT ![i].pc = "installed"]
        /\ handler' = Abandoned /\ (NoUpdate \/ Tear)
        /\ latest' = latest
    BY DEF Install, Live, RunnerPlaces
  <1>2. runner[i].target \in Versions
    BY <1>1, RunnerFacts
  <1>3. /\ runner \in [Creates -> [pc : RunnerPlaces, stage : 0..Len(Stages),
                                   target : {0} \cup Versions]]
        /\ runner' \in [Creates -> [pc : RunnerPlaces, stage : 0..Len(Stages),
                                    target : {0} \cup Versions]]
        /\ \A j \in Creates : /\ runner'[j].target = runner[j].target
                              /\ runner'[j].pc = IF j = i THEN "installed" ELSE runner[j].pc
    BY <1>1 DEF UpgradeInv, TypeOK
  <1>4. TypeOK'
    <2>1. ran' \subseteq Versions /\ version' \in Versions /\ latest' \in Versions
      BY <1>1, <1>2 DEF UpgradeInv, TypeOK
    <2>2. file' \in Tasks /\ fresh' \in BOOLEAN
      BY <1>1 DEF UpgradeInv, TypeOK, NoUpdate, Tear, Tasks
    <2>3. handler' \in [Requests -> [pc : HandlerPlaces, task : Tasks]]
      BY <1>1, AbandonedFacts DEF UpgradeInv
    <2>4. QED
      BY <1>3, <2>1, <2>2, <2>3 DEF TypeOK
  <1>5. ASSUME NEW j \in Creates
        PROVE  RunnerFits(version', ran', handler', j, runner'[j])
    <2>1. SUFFICES ASSUME runner'[j].pc \in {"working", "installed", "verified"}
                   PROVE  LET task == Task(j, "running", runner'[j].target)
                          IN  /\ runner'[j].target \in Versions /\ Named(handler', j)
                              /\ Ahead(version', handler', task)
                              /\ runner'[j].pc # "working" => Proven(ran', handler', task)
      BY DEF RunnerFits
    <2>2. Live(j)
      BY <1>1, <1>3, <2>1 DEF Live
    <2>3. Named(handler, j) /\ runner[j].target \in Versions
      BY <2>2, RunnerFacts
    <2>4. runner'[j].pc # "working" => runner'[j].target \in ran'
      BY <1>1, <1>3, <2>2, RunnerFacts
    <2> DEFINE task == Task(j, "running", runner'[j].target)
    <2>5. task.id = j /\ task.target = runner'[j].target
      BY DEF Task
    <2> HIDE DEF task
    <2>6. /\ Named(handler', j) /\ Ahead(version', handler', task)
          /\ runner'[j].pc # "working" => Proven(ran', handler', task)
      BY <1>1, <2>3, <2>4, <2>5, AfterRestart
    <2>7. QED
      BY <1>3, <2>3, <2>6 DEF task
  <1>6. FileFits(version', ran', handler', file')
    <2>1. CASE file' = NoTask
      BY <2>1 DEF FileFits
    <2>2. CASE file' # NoTask
      <3>1. file' = file /\ file # NoTask
        BY <1>1, <2>2 DEF NoUpdate, Tear
      <3>2. Named(handler, file.id) /\ (file.status = "success" => file.target \in ran)
        BY <3>1 DEF UpgradeInv, FileFits, Proven
      <3>3. QED
        BY <1>1, <3>1, <3>2, AfterRestart DEF FileFits, Named
    <2>3. QED
      BY <2>1, <2>2
  <1>7. \A r \in Requests : HandlerFits(version', ran', handler', r, handler'[r])
    BY <1>1, AbandonedFit
  <1>8. version' \in ran'
    BY <1>1
  <1>9. QED
    BY <1>4, <1>5, <1>6, <1>7, <1>8 DEF UpgradeInv

LEMMA RestartApiSound ==
    ASSUME UpgradeInv, RestartApi
    PROVE  UpgradeInv'
  <1>1. /\ handler' = Abandoned /\ (NoUpdate \/ Tear)
        /\ UNCHANGED <<version, ran, latest, runner>>
    BY DEF RestartApi
  <1>2. /\ handler' \in [Requests -> [pc : HandlerPlaces, task : Tasks]]
        /\ Keeps(handler, handler')
    BY <1>1, AbandonedFacts DEF UpgradeInv
  <1>3. file' \in Tasks /\ fresh' \in BOOLEAN /\ FileFits(version, ran, handler, file')
    BY <1>1 DEF UpgradeInv, TypeOK, NoUpdate, Tear, Tasks, FileFits
  <1>4. TypeOK'
    BY <1>1, <1>2, <1>3 DEF UpgradeInv, TypeOK
  <1>5. /\ \A i \in Creates : RunnerFits(version, ran, handler', i, runner[i])
        /\ FileFits(version, ran, handler', file')
    BY <1>2, <1>3, FitsKept DEF UpgradeInv
  <1>6. \A r \in Requests : HandlerFits(version, ran, handler', r, handler'[r])
    BY <1>1, AbandonedFit
  <1>7. QED
    BY <1>1, <1>4, <1>5, <1>6 DEF UpgradeInv

LEMMA WorldSound ==
    ASSUME UpgradeInv, Release \/ TenMinutesPass \/ UNCHANGED vars
    PROVE  UpgradeInv'
  <1>1. /\ UNCHANGED <<version, ran, file, handler, runner>>
        /\ latest' \in Versions /\ fresh' \in BOOLEAN
    BY DEF Release, TenMinutesPass, vars, UpgradeInv, TypeOK
  <1>2. TypeOK'
    BY <1>1 DEF UpgradeInv, TypeOK
  <1>3. QED
    BY <1>1, <1>2 DEF UpgradeInv

LEMMA UpgradeInit == Init => UpgradeInv
  <1>1. SUFFICES ASSUME Init PROVE UpgradeInv
    OBVIOUS
  <1>2. Idle \in [pc : HandlerPlaces, task : Tasks] /\ Idle.pc = "ready"
    BY DEF Idle, HandlerPlaces, Tasks
  <1>3. 0 \in 0..Len(Stages)
    BY DEF Stages
  <1>4. TypeOK
    BY <1>1, <1>2, <1>3 DEF Init, TypeOK, Tasks, RunnerPlaces
  <1>5. \A r \in Requests : HandlerFits(version, ran, handler, r, handler[r])
    BY <1>1, <1>2 DEF Init, HandlerFits, Held
  <1>6. \A i \in Creates : RunnerFits(version, ran, handler, i, runner[i])
    BY <1>1 DEF Init, RunnerFits
  <1>7. QED
    BY <1>1, <1>4, <1>5, <1>6 DEF Init, UpgradeInv, FileFits

-----------------------------------------------------------------------------
LEMMA UpgradeStep ==
    ASSUME UpgradeInv, ReleasedInOrder, [Next]_vars
    PROVE  UpgradeInv'
  <1>1. ASSUME NEW r \in Creates, CreateStep(r)
        PROVE  UpgradeInv'
    BY <1>1, CreateSound, FetchSound, WritePendingSound, WriteScriptSound, StartRunnerSound,
       LastWriteSound DEF CreateStep
  <1>2. ASSUME NEW i \in Creates, RunnerStep(i) \/ Fail(i) \/ RunnerDies(i)
        PROVE  UpgradeInv'
    BY <1>2, ReportSound, InstallSound, VerifySound, RunnerEndSound DEF RunnerStep
  <1>3. CASE UNCHANGED vars
    BY <1>3, WorldSound
  <1>4. CASE Next
    BY <1>1, <1>2, <1>4, PollSound, ClearStaleSound, WriteClearedSound, RecoverSound,
       RestartApiSound, WorldSound DEF Next
  <1>5. QED
    BY <1>3, <1>4

(* Of releases published in order: a task's target lies ahead of the       *)
(* running version until an upgrade ends every request under way, and a    *)
(* success is recorded only after its target ran, and of tasks nobody      *)
(* holds any more.  (the handlers and the runner's script of               *)
(* upgrade_tasks.go)                                                       *)
THEOREM UpgradeCorrect ==
    ASSUME ReleasedInOrder
    PROVE  Spec => []UpgradeInv
  <1>1. UpgradeInv /\ [Next]_vars => UpgradeInv'
    BY UpgradeStep
  <1>2. QED
    BY UpgradeInit, <1>1, PTL DEF Spec

(* The status file, the handlers and the runners keep to their places; a   *)
(* runner that may report knows its target.                                *)
THEOREM UpgradeTypes ==
    ASSUME ReleasedInOrder
    PROVE  Spec => []TypeOK
  <1>1. UpgradeInv => TypeOK
    BY DEF UpgradeInv
  <1>2. QED
    BY <1>1, UpgradeCorrect, PTL

(* A status "success" is true, whoever wrote it over whatever: the target  *)
(* has answered as the API's version.  (the runner's health check,         *)
(* versionMatchesTarget in normalizeUpgradeTaskState)                      *)
THEOREM SuccessIsTrue ==
    ASSUME ReleasedInOrder
    PROVE  Spec => []SuccessMeansInstalled
  <1>1. UpgradeInv => SuccessMeansInstalled
    <2>1. NoTask.status # "success"
      BY DEF NoTask
    <2>2. QED
      BY <2>1 DEF UpgradeInv, FileFits, Proven, SuccessMeansInstalled
  <1>2. QED
    BY <1>1, UpgradeCorrect, PTL

(* No runner is started for the API's own version or an earlier one,       *)
(* however the manifest changed between the check and the start.           *)
(* (updateTaskCreate, comparePanelVersions)                                *)
THEOREM NoDowngradeStarts ==
    ASSUME ReleasedInOrder
    PROVE  Spec => NeverStartsDowngrade
  <1>1. ASSUME UpgradeInv, [Next]_vars, NEW i \in Creates, ~Live(i), Live(i)'
        PROVE  runner'[i].target > version
    <2>1. runner \in [Creates -> [pc : RunnerPlaces, stage : 0..Len(Stages),
                                  target : {0} \cup Versions]]
      BY <1>1 DEF UpgradeInv, TypeOK
    <2>2. CASE \E r \in Creates : StartRunner(r)
      <3>1. PICK r \in Creates : StartRunner(r)
        BY <2>2
      <3> DEFINE task == handler[r].task
                 run == [pc |-> "working", stage |-> 0, target |-> task.target]
      <3>2. r \in Requests /\ handler[r].pc \in Held
        BY <3>1 DEF StartRunner, Requests, Held
      <3>3. task.target > version
        BY <1>1, <3>2, HolderFacts
      <3>4. runner' = [runner EXCEPT ![task.id] = run] \/ runner' = runner
        BY <3>1 DEF StartRunner
      <3>5. runner' # runner /\ runner'[i] # runner[i]
        BY <1>1 DEF Live
      <3>6. runner'[i] = run
        BY <2>1, <3>4, <3>5
      <3>7. QED
        BY <3>3, <3>6
    <2>3. CASE ~\E r \in Creates : StartRunner(r)
      <3>1. ASSUME NEW j \in Creates, RunnerStep(j) \/ Fail(j) \/ RunnerDies(j)
            PROVE  FALSE
        <4>1. \/ runner' = [runner EXCEPT ![j].stage = runner[j].stage + 1]
              \/ /\ Live(j)
                 /\ \E pc \in RunnerPlaces : runner' = [runner EXCEPT ![j].pc = pc]
          BY <3>1 DEF RunnerStep, Report, Install, Verify, Succeed, Fail, RunnerDies, Live,
             RunnerPlaces
        <4>2. runner'[i].pc = runner[i].pc \/ (i = j /\ Live(j))
          BY <2>1, <4>1
        <4>3. QED
          BY <1>1, <4>2 DEF Live
      <3>2. runner' = runner
        BY <1>1, <2>3, <3>1 DEF Next, vars, CreateStep, Create, Fetch, WritePending,
           WriteScript, WriteQueued, GiveUp, Poll, ClearStale, WriteCleared, Recover,
           RestartApi, Release, TenMinutesPass
      <3>3. QED
        BY <1>1, <3>2 DEF Live
    <2>4. QED
      BY <2>2, <2>3
  <1>2. UpgradeInv /\ [Next]_vars =>
            [\A i \in Creates : ~Live(i) /\ Live(i)' => runner'[i].target > version]_vars
    BY <1>1
  <1>3. QED
    BY <1>2, UpgradeCorrect, PTL DEF Spec, NeverStartsDowngrade

(* A success is not overwritten with an active status but by the task's    *)
(* own runner: the answer that comes after the runner was started names a  *)
(* task that is not spent, and a success is of one that is.  A failure is, *)
(* by that answer or by a second request of the same name, once for each.  *)
(* (updateTaskCreate, normalizeUpgradeTaskState)                           *)
THEOREM OutcomesStand ==
    ASSUME ReleasedInOrder
    PROVE  Spec => OutcomeStands
  <1>1. ASSUME UpgradeInv, [Next]_vars, file.status \in {"success", "failed"},
               file'.status \in Active, file'.id = file.id
        PROVE  Live(file.id) \/ (file.status = "failed" /\ LateWrite(file.id))
    <2>1. file # NoTask /\ file' # NoTask /\ file' # file
      BY <1>1, ActiveStatuses DEF NoTask
    <2>2. file.status = "success" => Spent(handler, file.id)
      BY <1>1, <2>1 DEF UpgradeInv, FileFits, Proven
    <2>3. ASSUME NEW r \in Requests, handler[r].pc \in {"write", "queued"},
                 file'.id = handler[r].task.id
          PROVE  file.status = "failed"
      <3>1. handler[r].pc \in Held
        BY <2>3 DEF Held
      <3>2. ~Spent(handler, handler[r].task.id)
        BY <1>1, <3>1, HolderFacts
      <3>3. QED
        BY <1>1, <2>2, <2>3, <3>2
    <2>4. ASSUME NEW r \in Creates, CreateStep(r)
          PROVE  file.status = "failed" /\ LateWrite(file.id)
      <3> DEFINE task == handler[r].task
      <3>1. r \in Requests /\ r \in DOMAIN handler
        BY <1>1 DEF Requests, UpgradeInv, TypeOK
      <3>2. CASE WritePending(r)
        <4>1. file' = task /\ handler[r].pc = "write" /\ Goto(r, "script", task)
          BY <2>1, <3>2 DEF WritePending, WriteFile, WriteFails, NoUpdate, Tear
        <4>2. handler'[r].pc = "script"
          BY <3>1, <4>1 DEF Goto
        <4>3. QED
          BY <1>1, <2>3, <3>1, <4>1, <4>2 DEF LateWrite
      <3>3. CASE WriteQueued(r)
        <4>1. file' = [task EXCEPT !.status = "running"] /\ handler[r].pc = "queued"
          BY <2>1, <3>3 DEF WriteQueued, WriteFile, WriteFails, NoUpdate, Tear
        <4>2. handler[r].pc \in Held
          BY <4>1 DEF Held
        <4>3. task \in NamedTasks
          BY <1>1, <3>1, <4>2, HolderFacts
        <4>4. file'.id = task.id
          BY <4>1, <4>3, StatusSet, ActiveStatuses DEF Statuses
        <4>5. handler'[r].pc = "done"
          BY <3>1, <3>3 DEF WriteQueued, Goto
        <4>6. QED
          BY <1>1, <2>3, <3>1, <4>1, <4>4, <4>5 DEF LateWrite
      <3>4. CASE GiveUp(r)
        <4>1. file' = [task EXCEPT !.status = "failed"] /\ handler[r].pc = "giveup"
          BY <2>1, <3>4 DEF GiveUp, WriteFile, WriteFails, NoUpdate, Tear
        <4>2. task \in NamedTasks
          BY <1>1, <3>1, <4>1, HolderFacts
        <4>3. file'.status = "failed"
          BY <4>1, <4>2, StatusSet DEF Statuses
        <4>4. QED
          BY <1>1, <4>3, ActiveStatuses
      <3>5. QED
        BY <2>1, <2>4, <3>2, <3>3, <3>4 DEF CreateStep, Create, Fetch, WriteScript,
           StartRunner, NoUpdate
    <2>5. ASSUME NEW r \in Requests, Recover(r) \/ WriteCleared(r)
          PROVE  FALSE
      <3>1. file' = handler[r].task /\ handler[r].pc \in {"recover", "clear"}
        BY <2>1, <2>5 DEF Recover, WriteCleared, WriteFile, WriteFails, NoUpdate, Tear
      <3>2. file'.status \in {"success", "failed"}
        BY <1>1, <3>1 DEF UpgradeInv, HandlerFits
      <3>3. QED
        BY <1>1, <3>2, ActiveStatuses
    <2>6. ASSUME NEW i \in Creates, RunnerStep(i) \/ Fail(i) \/ RunnerDies(i)
          PROVE  Live(file.id)
      <3>1. CASE Report(i)
        <4>1. file'.id = i /\ Live(i)
          BY <3>1 DEF Report, WriteFile, Task, Live
        <4>2. QED
          BY <1>1, <4>1
      <3>2. CASE Succeed(i) \/ Fail(i)
        <4>1. file'.status \in {"success", "failed"}
          BY <3>2 DEF Succeed, Fail, WriteFile, Task
        <4>2. QED
          BY <1>1, <4>1, ActiveStatuses
      <3>3. QED
        BY <2>1, <2>6, <3>1, <3>2 DEF RunnerStep, Install, Verify, RunnerDies, WriteFails,
           NoUpdate, Tear
    <2>7. CASE RestartApi \/ Release \/ TenMinutesPass \/ UNCHANGED vars
      BY <2>1, <2>7 DEF RestartApi, Release, TenMinutesPass, vars, NoUpdate, Tear
    <2>8. CASE \E r \in Polls : Poll(r)
      BY <2>1, <2>8 DEF Poll, NoUpdate
    <2>9. CASE \E r \in Clears : ClearStale(r)
      BY <2>1, <2>9 DEF ClearStale, NoUpdate
    <2>10. QED
      BY <1>1, <2>4, <2>5, <2>6, <2>7, <2>8, <2>9 DEF Next, Requests
  <1>2. UpgradeInv /\ [Next]_vars =>
            [file.status \in {"success", "failed"} /\ file'.status \in Active
               /\ file'.id = file.id
                 => Live(file.id) \/ (file.status = "failed" /\ LateWrite(file.id))]_vars
    BY <1>1
  <1>3. QED
    BY <1>2, UpgradeCorrect, PTL DEF Spec, OutcomeStands
=============================================================================
