------------------------------ MODULE AgentApply -----------------------------
(***************************************************************************)
(* The agent's loop (agent/cmd/agent/main.go): heartbeat, sync, and the    *)
(* steps of applyXrayConfig, each of which may fail or be the last before  *)
(* the process is killed.  The reload-pending marker file must remember,   *)
(* across restarts, that the configuration file may not be the one Xray    *)
(* runs.                                                                   *)
(*                                                                         *)
(* A configuration is named by its place in the sequence the panel         *)
(* published; two of them have the same hash iff they have the same        *)
(* contents, as with A, B, A.                                              *)
(***************************************************************************)
EXTENDS Naturals, Sequences

CONSTANTS
    Configs,        \* contents of an Xray configuration
    Rejected,       \* those `xray run -test` refuses
    ApplyChoices,   \* what YC_APPLY_CONFIG may be set to
    MaxPublished    \* bound of the model

ASSUME ApplyAssumption ==
    /\ Rejected \subseteq Configs
    /\ ApplyChoices \subseteq BOOLEAN
    /\ MaxPublished \in Nat

VARIABLES
    log,        \* contents the panel has published; the last one is desired
    file,       \* the configuration file, 0 if there is none
    tmp,        \* config.json.tmp.json, 0 if there is none
    marker,     \* does config.json.reload-pending exist?
    running,    \* what Xray runs, 0 if it is down
    pc,         \* where the agent is in its loop
    hash,       \* the file the agent hashed when the round began
    reply,      \* the configuration of the last sync response
    pending,    \* reloadPending, in memory
    applies,    \* YC_APPLY_CONFIG of the agent's present process
    said,       \* lastMessage, reported with the next heartbeat
    counters    \* history: what became of the counters in this round

vars == <<log, file, tmp, marker, running, pc, hash, reply, pending, applies, said, counters>>

agentVars == <<pc, hash, reply, pending, applies, said, counters>>
diskVars == <<file, tmp, marker>>

Places == {"idle", "heartbeat", "sync", "write", "test", "mark", "install",
           "reload", "unmark", "dead"}

Messages == {"agent started", "sync failed", "apply failed", "config applied",
             "config already up to date", "apply disabled"}

TypeOK ==
    /\ log \in Seq(Configs) /\ Len(log) > 0
    /\ file \in 0..Len(log)
    /\ tmp \in 0..Len(log)
    /\ marker \in BOOLEAN
    /\ running \in 0..Len(log)
    /\ pc \in Places
    /\ hash \in 0..Len(log)
    /\ reply \in 0..Len(log)
    /\ pending \in BOOLEAN
    /\ applies \in BOOLEAN
    /\ said \in Messages
    /\ counters \in {"unreadable", "held", "sent"}

Desired == Len(log)

\* ConfigHash of two configurations; the hash of no file matches none.
SameHash(i, j) == i # 0 /\ j # 0 /\ log[i] = log[j]

Init ==
    /\ \E c \in Configs \ Rejected : log = <<c>>
    /\ \/ file = 0 /\ running = 0
       \/ file = 1 /\ running = 1
    /\ tmp = 0 /\ marker = FALSE
    /\ pc = "idle" /\ hash = 0 /\ reply = 0
    /\ applies \in ApplyChoices
    /\ pending = FALSE /\ said = "agent started" /\ counters = "unreadable"

-----------------------------------------------------------------------------
(* The panel's side: an administrator's change is a new desired config.    *)

Publish ==
    /\ Len(log) < MaxPublished
    /\ \E c \in Configs : log' = Append(log, c)
    /\ UNCHANGED <<file, tmp, marker, running>>
    /\ UNCHANGED agentVars

-----------------------------------------------------------------------------
(* The agent's round.                                                      *)

\* collectHeartbeat: the counters can only be read from a running Xray, and
\* failing to read them does not stop the heartbeat.  Counters that were read
\* are held until the panel accepts the heartbeat.
Collect ==
    /\ pc = "idle"
    /\ pc' = "heartbeat"
    /\ hash' = file
    /\ \/ counters' = "unreadable"
       \/ running # 0 /\ counters' = "held"
    /\ UNCHANGED <<log, running, reply, pending, applies, said>>
    /\ UNCHANGED diskVars

HeartbeatAccepted ==
    /\ pc = "heartbeat"
    /\ pc' = "sync"
    /\ counters' = IF counters = "held" THEN "sent" ELSE counters
    /\ UNCHANGED <<log, running, hash, reply, pending, applies, said>>
    /\ UNCHANGED diskVars

\* Faulty variant: HeartbeatFails that only logs the error.
HeartbeatFailsAndGoesOn ==
    /\ pc = "heartbeat"
    /\ pc' = "sync"
    /\ UNCHANGED <<log, running, hash, reply, pending, applies, said, counters>>
    /\ UNCHANGED diskVars

\* Refused, or no answer in time: sleep, and do not apply anything.
HeartbeatFails ==
    /\ pc = "heartbeat"
    /\ pc' = "idle"
    /\ UNCHANGED <<log, running, hash, reply, pending, applies, said, counters>>
    /\ UNCHANGED diskVars

\* Faulty variant: SentHash that trusts the file although a reload is pending.
SentHashOfFile == hash

\* The hash the agent sends: none while a reload may be outstanding.
SentHash == IF pending THEN 0 ELSE hash

RestartRequired == ~SameHash(SentHash, Desired)

SyncAnswered ==
    /\ pc = "sync"
    /\ reply' = Desired
    /\ \/ /\ RestartRequired /\ applies
          /\ pc' = "write"
          /\ UNCHANGED said
       \/ /\ RestartRequired /\ ~applies
          /\ pc' = "idle"
          /\ said' = "apply disabled"
       \/ /\ ~RestartRequired
          /\ pc' = "idle"
          /\ said' = "config already up to date"
    /\ UNCHANGED <<log, running, hash, pending, applies, counters>>
    /\ UNCHANGED diskVars

SyncFails ==
    /\ pc = "sync"
    /\ pc' = "idle"
    /\ said' = "sync failed"
    /\ UNCHANGED <<log, running, hash, reply, pending, applies, counters>>
    /\ UNCHANGED diskVars

-----------------------------------------------------------------------------
(* applyXrayConfig, step by step.                                          *)

Proceed(from, to) ==
    /\ pc = from
    /\ pc' = to
    /\ UNCHANGED <<log, hash, reply, pending, applies, said, counters>>

\* Any step may return an error: the reload is pending, on to the next round.
GiveUp(from) ==
    /\ pc = from
    /\ pc' = "idle"
    /\ pending' = TRUE
    /\ said' = "apply failed"
    /\ UNCHANGED <<log, hash, reply, applies, counters>>

Write ==
    /\ Proceed("write", "test")
    /\ tmp' = reply
    /\ UNCHANGED <<file, marker, running>>

WriteFails == GiveUp("write") /\ UNCHANGED <<file, tmp, marker, running>>

\* Faulty variant: Test that goes on whatever `xray run -test` says.
TestSkipped ==
    /\ Proceed("test", "mark")
    /\ UNCHANGED <<file, tmp, marker, running>>

Test ==
    /\ Proceed("test", "mark")
    /\ log[tmp] \notin Rejected
    /\ UNCHANGED <<file, tmp, marker, running>>

TestFails ==
    /\ GiveUp("test")
    /\ tmp' = 0
    /\ UNCHANGED <<file, marker, running>>

\* Faulty variant: MarkPending that creates no marker.
MarkNothing ==
    /\ Proceed("mark", "install")
    /\ UNCHANGED <<file, tmp, marker, running>>

MarkPending ==
    /\ Proceed("mark", "install")
    /\ marker' = TRUE
    /\ UNCHANGED <<file, tmp, running>>

MarkFails == GiveUp("mark") /\ UNCHANGED <<file, tmp, marker, running>>

Install ==
    /\ Proceed("install", "reload")
    /\ file' = tmp
    /\ tmp' = 0
    /\ UNCHANGED <<marker, running>>

InstallFails == GiveUp("install") /\ UNCHANGED <<file, tmp, marker, running>>

Reload ==
    /\ Proceed("reload", "unmark")
    /\ running' = file
    /\ UNCHANGED <<file, tmp, marker>>

\* A failing restart command may leave Xray as it was, stop it, or have
\* started it after all.
ReloadFails ==
    /\ GiveUp("reload")
    /\ running' \in {running, 0, file}
    /\ UNCHANGED <<file, tmp, marker>>

Unmark ==
    /\ pc = "unmark"
    /\ pc' = "idle"
    /\ marker' = FALSE
    /\ pending' = FALSE
    /\ said' = "config applied"
    /\ UNCHANGED <<log, file, tmp, running, hash, reply, applies, counters>>

UnmarkFails == GiveUp("unmark") /\ UNCHANGED <<file, tmp, marker, running>>

-----------------------------------------------------------------------------
(* Processes that stop and start.                                          *)

\* The process is killed wherever it is, and its memory is lost.
AgentDies ==
    /\ pc # "dead"
    /\ pc' = "dead"
    /\ pending' = FALSE
    /\ said' = "agent started"
    /\ hash' = 0 /\ reply' = 0 /\ counters' = "unreadable"
    /\ UNCHANGED <<log, file, tmp, marker, running, applies>>

\* Faulty variant: AgentStarts that does not look for the marker.
AgentStartsForgetful ==
    /\ pc = "dead"
    /\ pc' = "idle"
    /\ applies' \in ApplyChoices
    /\ UNCHANGED <<log, file, tmp, marker, running, hash, reply, pending, said, counters>>

\* main reads the marker before its first round.
AgentStarts ==
    /\ pc = "dead"
    /\ pc' = "idle"
    /\ pending' = marker
    /\ applies' \in ApplyChoices
    /\ UNCHANGED <<log, file, tmp, marker, running, hash, reply, said, counters>>

XrayDies ==
    /\ running # 0
    /\ running' = 0
    /\ UNCHANGED <<log, file, tmp, marker>>
    /\ UNCHANGED agentVars

\* The service manager brings Xray back with the configuration file.
XrayStarts ==
    /\ running = 0 /\ file # 0
    /\ running' = file
    /\ UNCHANGED <<log, file, tmp, marker>>
    /\ UNCHANGED agentVars

-----------------------------------------------------------------------------
Round == Collect \/ HeartbeatAccepted \/ HeartbeatFails \/ SyncAnswered \/ SyncFails

Apply ==
    \/ Write \/ Test \/ MarkPending \/ Install \/ Reload \/ Unmark
    \/ WriteFails \/ TestFails \/ MarkFails \/ InstallFails \/ ReloadFails \/ UnmarkFails

Faults == AgentDies \/ XrayDies

Next == Publish \/ Round \/ Apply \/ Faults \/ AgentStarts \/ XrayStarts

Spec == Init /\ [][Next]_vars

(***************************************************************************)
(* Fairness.  The loop never blocks for ever (postJSON has a timeout); the *)
(* units of the agent and of Xray are restarted by systemd; and a step     *)
(* that is tried again every round succeeds again and again: the panel is  *)
(* not down for ever, the disk is not full for ever.                       *)
(***************************************************************************)
Fairness ==
    /\ WF_vars(Round \/ Apply) /\ WF_vars(AgentStarts) /\ WF_vars(XrayStarts)
    /\ SF_vars(HeartbeatAccepted) /\ SF_vars(SyncAnswered)
    /\ SF_vars(Write) /\ SF_vars(Test) /\ SF_vars(MarkPending)
    /\ SF_vars(Install) /\ SF_vars(Reload) /\ SF_vars(Unmark)

FairSpec == Spec /\ Fairness

-----------------------------------------------------------------------------
(* Properties.                                                             *)

Applying == pc \in {"write", "test", "mark", "install", "reload", "unmark"}

SameContents(i, j) == j # 0 /\ log[i] = log[j]

(* Whenever Xray runs anything but the installed file, the marker file     *)
(* says so; and an agent about to decide whether to apply knows of the     *)
(* marker.  So no failed reload, and no crash between two steps of         *)
(* applyXrayConfig, can leave a server on an old configuration unnoticed.  *)
(* (main, applyXrayConfig)                                                 *)
MarkerCoversDivergence ==
    /\ running \notin {0, file} => marker
    /\ marker => pending \/ Applying \/ pc = "dead"

(* What the agent reports is so: "config applied" and "config already up   *)
(* to date" mean that Xray, if it is up, runs what the panel sent last.    *)
(* (main: lastMessage; the disk's hash alone does not prove a reload.)     *)
SaysDone == said \in {"config applied", "config already up to date"}

ReportIsTrue ==
    ~Applying /\ SaysDone => running = 0 \/ SameContents(running, reply)

(* Counters that the agent read in this round have been accepted by the    *)
(* panel before a configuration is applied, whose reload would set them    *)
(* to zero: a heartbeat that fails postpones the apply.  Counters that     *)
(* could not be read postpone nothing.  (main: "Flush cumulative counters  *)
(* before a config apply can restart Xray"; collectHeartbeat)              *)
FlushedBeforeApply == Applying => counters # "held"

(* The inductive invariant behind them: what each step of applyXrayConfig  *)
(* may rely on.  The bytes installed are the bytes tested and the bytes    *)
(* the panel sent last; the marker is there before the file changes and    *)
(* goes only after Xray was reloaded; file and Xray never run ahead.       *)
StepsInOrder ==
    /\ Applying => reply # 0
    /\ pc \in {"test", "mark", "install"} => tmp = reply
    /\ pc \in {"mark", "install"} => log[tmp] \notin Rejected
    /\ pc \in {"install", "reload", "unmark"} => marker
    /\ pc \in {"reload", "unmark"} => file = reply
    /\ pc = "unmark" => running \in {0, file}
    /\ pc \in {"heartbeat", "sync"} => hash = file
    /\ pc = "sync" => counters # "held"
    /\ FlushedBeforeApply
    /\ reply # 0 => file <= reply
    /\ running <= file
    /\ file # 0 => log[file] \notin Rejected

Settled ==
    ~Applying /\ SaysDone => /\ file # 0 /\ SameContents(file, reply)
                             /\ ~marker

AgentInv == TypeOK /\ MarkerCoversDivergence /\ StepsInOrder /\ Settled

(* The agent implements the delivery promised by ConfigDelivery: only      *)
(* published, accepted configurations are installed and run, and neither   *)
(* file nor Xray ever goes back to an older one, whatever fails or dies    *)
(* in between.                                                             *)
Delivery == INSTANCE ConfigDelivery WITH installed <- file

DeliverySpec == Delivery!Spec

(* Once publishing and crashes stop, an acceptable desired configuration   *)
(* is what Xray runs (if the agent may apply), and stays so, although      *)
(* every step may go on failing for a while: a failed apply is retried     *)
(* until it is confirmed.  (main: reloadPending)                           *)
Calm == <>[][~Publish /\ ~Faults]_vars

UpToDate == running # 0 /\ SameContents(running, Desired)

EventuallyApplied ==
    Calm /\ <>[]applies => <>[](log[Desired] \in Rejected \/ UpToDate)
=============================================================================
