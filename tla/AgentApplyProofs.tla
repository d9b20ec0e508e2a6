--------------------------- MODULE AgentApplyProofs --------------------------
(***************************************************************************)
(* Proofs about the agent's loop, for every set of configurations and any  *)
(* number of published ones: the marker covers every divergence, what the  *)
(* agent reports is so, and the loop implements ConfigDelivery.            *)
(***************************************************************************)
EXTENDS AgentApply, TLAPS

USE DEF SameContents, SameHash, Applying, SaysDone, FlushedBeforeApply

(* Arithmetic of indices in the log, kept apart from the steps.            *)
InRange ==
    /\ Len(log) \in Nat
    /\ 0 \in 0..Len(log)
    /\ Len(log) \in 0..Len(log)
    /\ file \in Nat /\ 0 <= file /\ file <= Len(log)
    /\ running \in Nat

\* Indices of the log are naturals.
LEMMA LenInRange == TypeOK => InRange
<1> SUFFICES ASSUME log \in Seq(Configs), file \in 0..Len(log), running \in 0..Len(log)
             PROVE InRange
  BY DEF TypeOK
<1> QED
  BY DEF InRange

\* The initial states satisfy the invariant.
LEMMA InitInv == Init => AgentInv
<1> SUFFICES ASSUME Init PROVE AgentInv
  OBVIOUS
<1>1. PICK c \in Configs \ Rejected : log = <<c>>
  BY DEF Init
<1>2. log \in Seq(Configs) /\ Len(log) = 1 /\ log[1] = c
  BY ONLY <1>1
<1>3. file \in {0, 1} /\ running \in {0, file}
  BY ONLY Init DEF Init
<1>4. tmp = 0 /\ hash = 0 /\ reply = 0
  BY ONLY Init DEF Init
<1>5. pc = "idle" /\ said = "agent started"
  BY ONLY Init DEF Init
<1>6. ~marker /\ marker \in BOOLEAN /\ pending \in BOOLEAN /\ counters = "unreadable"
      /\ applies \in BOOLEAN
  BY ONLY Init, ApplyAssumption DEF Init, ApplyAssumption
<1>7. TypeOK
  <2>1. file \in 0..Len(log) /\ running \in 0..Len(log) /\ 0 \in 0..Len(log) /\ Len(log) > 0
    BY ONLY <1>2, <1>3
  <2> QED
    BY ONLY <1>2, <1>4, <1>5, <1>6, <2>1 DEF TypeOK, Places, Messages
<1>8. MarkerCoversDivergence
  BY ONLY <1>3, <1>6 DEF MarkerCoversDivergence
<1>9. StepsInOrder
  <2>1. file # 0 => log[file] \notin Rejected
    BY ONLY <1>2, <1>3, c \in Configs \ Rejected
  <2>2. running <= file
    BY ONLY <1>3
  <2> QED
    BY ONLY <1>4, <1>5, <2>1, <2>2 DEF StepsInOrder, Applying
<1>10. Settled
  BY ONLY <1>5 DEF Settled, SaysDone
<1> QED
  BY <1>7, <1>8, <1>9, <1>10 DEF AgentInv

\* Publishing keeps the invariant: indices into the log keep their contents.
LEMMA PublishKeeps == AgentInv /\ Publish => AgentInv'
<1> SUFFICES ASSUME AgentInv, Publish PROVE AgentInv'
  OBVIOUS
<1>1. PICK c \in Configs : log' = Append(log, c)
  BY DEF Publish
<1>2. /\ log' \in Seq(Configs)
      /\ Len(log') = Len(log) + 1
      /\ \A i \in 1..Len(log) : log'[i] = log[i]
  BY <1>1 DEF AgentInv, TypeOK
<1>3. UNCHANGED <<file, tmp, marker, running>> /\ UNCHANGED agentVars
  BY DEF Publish
<1> USE <1>2, <1>3 DEF agentVars
<1>4. TypeOK'
  BY DEF AgentInv, TypeOK
<1>5. MarkerCoversDivergence'
  BY DEF AgentInv, MarkerCoversDivergence
<1>6. StepsInOrder'
  BY DEF AgentInv, StepsInOrder, TypeOK
<1>7. Settled'
  <2>1. ASSUME ~Applying, SaysDone
        PROVE  file # 0 /\ reply # 0 /\ log[file] = log[reply] /\ ~marker
    BY <2>1 DEF AgentInv, Settled
  <2>2. file \in 0..Len(log) /\ reply \in 0..Len(log) /\ Len(log) \in Nat
    BY DEF AgentInv, TypeOK
  <2>3. (~Applying /\ SaysDone)' <=> (~Applying /\ SaysDone)
    OBVIOUS
  <2>4. ASSUME ~Applying, SaysDone
        PROVE  file' # 0 /\ reply' # 0 /\ log'[file'] = log'[reply'] /\ ~marker'
    <3>0. file # 0 /\ reply # 0
      BY <2>1, <2>4
    <3>1. file \in 1..Len(log) /\ reply \in 1..Len(log)
      BY ONLY <3>0, <2>2
    <3> QED
      BY <2>1, <2>4, <3>1
  <2> QED
    BY <2>3, <2>4 DEF Settled
<1> QED
  BY <1>4, <1>5, <1>6, <1>7 DEF AgentInv

\* Heartbeat and sync keep the invariant.
LEMMA RoundKeeps ==
  ASSUME AgentInv, Round PROVE AgentInv'
<1> USE DEF diskVars
<1>0. TypeOK /\ MarkerCoversDivergence /\ StepsInOrder /\ Settled /\ InRange
  BY LenInRange DEF AgentInv
<1>1. CASE Collect
  <2>1. TypeOK'
    BY <1>0, <1>1 DEF InRange, TypeOK, Places, Messages, Collect
  <2>2. MarkerCoversDivergence'
    BY <1>0, <1>1 DEF InRange, TypeOK, MarkerCoversDivergence, StepsInOrder, Places, Collect
  <2>3. StepsInOrder'
    BY <1>0, <1>1 DEF InRange, TypeOK, MarkerCoversDivergence, StepsInOrder, Places, Collect
  <2>4. Settled'
    BY <1>0, <1>1 DEF InRange, TypeOK, MarkerCoversDivergence, StepsInOrder, Settled, Places, Collect
  <2> QED
    BY <2>1, <2>2, <2>3, <2>4 DEF AgentInv
<1>2. CASE HeartbeatAccepted
  <2>1. TypeOK'
    BY <1>0, <1>2 DEF InRange, TypeOK, Places, Messages, HeartbeatAccepted
  <2>2. MarkerCoversDivergence'
    BY <1>0, <1>2 DEF InRange, TypeOK, MarkerCoversDivergence, StepsInOrder, Places, HeartbeatAccepted
  <2>3. StepsInOrder'
    BY <1>0, <1>2 DEF InRange, TypeOK, MarkerCoversDivergence, StepsInOrder, Places, HeartbeatAccepted
  <2>4. Settled'
    BY <1>0, <1>2 DEF InRange, TypeOK, MarkerCoversDivergence, StepsInOrder, Settled, Places, HeartbeatAccepted
  <2> QED
    BY <2>1, <2>2, <2>3, <2>4 DEF AgentInv
<1>3. CASE HeartbeatFails
  <2>1. TypeOK'
    BY <1>0, <1>3 DEF InRange, TypeOK, Places, Messages, HeartbeatFails
  <2>2. MarkerCoversDivergence'
    BY <1>0, <1>3 DEF InRange, TypeOK, MarkerCoversDivergence, StepsInOrder, Places, HeartbeatFails
  <2>3. StepsInOrder'
    BY <1>0, <1>3 DEF InRange, TypeOK, MarkerCoversDivergence, StepsInOrder, Places, HeartbeatFails
  <2>4. Settled'
    BY <1>0, <1>3 DEF InRange, TypeOK, MarkerCoversDivergence, StepsInOrder, Settled, Places, HeartbeatFails
  <2> QED
    BY <2>1, <2>2, <2>3, <2>4 DEF AgentInv
<1>4. CASE SyncAnswered
  <2>1. TypeOK'
    BY <1>0, <1>4 DEF InRange, TypeOK, Places, Messages, SyncAnswered, RestartRequired, SentHash, Desired
  <2>2. MarkerCoversDivergence'
    BY <1>0, <1>4 DEF InRange, TypeOK, MarkerCoversDivergence, StepsInOrder, Places, SyncAnswered, RestartRequired, SentHash, Desired
  <2>3. StepsInOrder'
    <3>1. /\ reply' = Len(log)
          /\ pc' \in {"write", "idle"}
          /\ pc = "sync"
          /\ UNCHANGED <<log, file, tmp, marker, running, counters>>
      BY <1>4 DEF SyncAnswered, Desired
    <3>2. /\ file <= Len(log) /\ running <= file /\ (file # 0 => log[file] \notin Rejected)
          /\ pc = "sync" => counters # "held"
      BY <1>0 DEF InRange, StepsInOrder
    <3>3. Len(log) # 0
      BY <1>0 DEF TypeOK
    <3> QED
      BY ONLY <3>1, <3>2, <3>3 DEF StepsInOrder, Applying
  <2>4. Settled'
    BY <1>0, <1>4 DEF InRange, TypeOK, MarkerCoversDivergence, StepsInOrder, Settled, Places, SyncAnswered, RestartRequired, SentHash, Desired
  <2> QED
    BY <2>1, <2>2, <2>3, <2>4 DEF AgentInv
<1>5. CASE SyncFails
  <2>1. TypeOK'
    BY <1>0, <1>5 DEF InRange, TypeOK, Places, Messages, SyncFails
  <2>2. MarkerCoversDivergence'
    BY <1>0, <1>5 DEF InRange, TypeOK, MarkerCoversDivergence, StepsInOrder, Places, SyncFails
  <2>3. StepsInOrder'
    BY <1>0, <1>5 DEF InRange, TypeOK, MarkerCoversDivergence, StepsInOrder, Places, SyncFails
  <2>4. Settled'
    BY <1>0, <1>5 DEF InRange, TypeOK, MarkerCoversDivergence, StepsInOrder, Settled, Places, SyncFails
  <2> QED
    BY <2>1, <2>2, <2>3, <2>4 DEF AgentInv
<1> QED
  BY <1>1, <1>2, <1>3, <1>4, <1>5 DEF Round

\* Every step of applyXrayConfig, failing or not, keeps the invariant.
LEMMA ApplyKeeps ==
  ASSUME AgentInv, Apply PROVE AgentInv'
<1> USE DEF Proceed, GiveUp
<1>0. TypeOK /\ MarkerCoversDivergence /\ StepsInOrder /\ Settled /\ InRange
  BY LenInRange DEF AgentInv
<1>1. CASE Write
  <2>1. TypeOK'
    BY <1>0, <1>1 DEF InRange, TypeOK, Places, Messages, Write
  <2>2. MarkerCoversDivergence'
    BY <1>0, <1>1 DEF InRange, TypeOK, MarkerCoversDivergence, StepsInOrder, Places, Write
  <2>3. StepsInOrder'
    BY <1>0, <1>1 DEF InRange, TypeOK, MarkerCoversDivergence, StepsInOrder, Places, Write
  <2>4. Settled'
    BY <1>0, <1>1 DEF InRange, TypeOK, MarkerCoversDivergence, StepsInOrder, Settled, Places, Write
  <2> QED
    BY <2>1, <2>2, <2>3, <2>4 DEF AgentInv
<1>2. CASE Test
  <2>1. TypeOK'
    BY <1>0, <1>2 DEF InRange, TypeOK, Places, Messages, Test
  <2>2. MarkerCoversDivergence'
    BY <1>0, <1>2 DEF InRange, TypeOK, MarkerCoversDivergence, StepsInOrder, Places, Test
  <2>3. StepsInOrder'
    BY <1>0, <1>2 DEF InRange, TypeOK, MarkerCoversDivergence, StepsInOrder, Places, Test
  <2>4. Settled'
    BY <1>0, <1>2 DEF InRange, TypeOK, MarkerCoversDivergence, StepsInOrder, Settled, Places, Test
  <2> QED
    BY <2>1, <2>2, <2>3, <2>4 DEF AgentInv
<1>3. CASE MarkPending
  <2>1. TypeOK'
    BY <1>0, <1>3 DEF InRange, TypeOK, Places, Messages, MarkPending
  <2>2. MarkerCoversDivergence'
    BY <1>0, <1>3 DEF InRange, TypeOK, MarkerCoversDivergence, StepsInOrder, Places, MarkPending
  <2>3. StepsInOrder'
    BY <1>0, <1>3 DEF InRange, TypeOK, MarkerCoversDivergence, StepsInOrder, Places, MarkPending
  <2>4. Settled'
    BY <1>0, <1>3 DEF InRange, TypeOK, MarkerCoversDivergence, StepsInOrder, Settled, Places, MarkPending
  <2> QED
    BY <2>1, <2>2, <2>3, <2>4 DEF AgentInv
<1>4. CASE Install
  <2>1. TypeOK'
    BY <1>0, <1>4 DEF InRange, TypeOK, Places, Messages, Install
  <2>2. MarkerCoversDivergence'
    BY <1>0, <1>4 DEF InRange, TypeOK, MarkerCoversDivergence, StepsInOrder, Places, Install
  <2>3. StepsInOrder'
    BY <1>0, <1>4 DEF InRange, TypeOK, MarkerCoversDivergence, StepsInOrder, Places, Install
  <2>4. Settled'
    BY <1>0, <1>4 DEF InRange, TypeOK, MarkerCoversDivergence, StepsInOrder, Settled, Places, Install
  <2> QED
    BY <2>1, <2>2, <2>3, <2>4 DEF AgentInv
<1>5. CASE Reload
  <2>1. TypeOK'
    BY <1>0, <1>5 DEF InRange, TypeOK, Places, Messages, Reload
  <2>2. MarkerCoversDivergence'
    BY <1>0, <1>5 DEF InRange, TypeOK, MarkerCoversDivergence, StepsInOrder, Places, Reload
  <2>3. StepsInOrder'
    BY <1>0, <1>5 DEF InRange, TypeOK, MarkerCoversDivergence, StepsInOrder, Places, Reload
  <2>4. Settled'
    BY <1>0, <1>5 DEF InRange, TypeOK, MarkerCoversDivergence, StepsInOrder, Settled, Places, Reload
  <2> QED
    BY <2>1, <2>2, <2>3, <2>4 DEF AgentInv
<1>6. CASE Unmark
  <2>1. TypeOK'
    BY <1>0, <1>6 DEF InRange, TypeOK, Places, Messages, Unmark
  <2>2. MarkerCoversDivergence'
    BY <1>0, <1>6 DEF InRange, TypeOK, MarkerCoversDivergence, StepsInOrder, Places, Unmark
  <2>3. StepsInOrder'
    BY <1>0, <1>6 DEF InRange, TypeOK, MarkerCoversDivergence, StepsInOrder, Places, Unmark
  <2>4. Settled'
    BY <1>0, <1>6 DEF InRange, TypeOK, MarkerCoversDivergence, StepsInOrder, Settled, Places, Unmark
  <2> QED
    BY <2>1, <2>2, <2>3, <2>4 DEF AgentInv
<1>7. CASE WriteFails
  <2>1. TypeOK'
    BY <1>0, <1>7 DEF InRange, TypeOK, Places, Messages, WriteFails
  <2>2. MarkerCoversDivergence'
    BY <1>0, <1>7 DEF InRange, TypeOK, MarkerCoversDivergence, StepsInOrder, Places, WriteFails
  <2>3. StepsInOrder'
    BY <1>0, <1>7 DEF InRange, TypeOK, MarkerCoversDivergence, StepsInOrder, Places, WriteFails
  <2>4. Settled'
    BY <1>0, <1>7 DEF InRange, TypeOK, MarkerCoversDivergence, StepsInOrder, Settled, Places, WriteFails
  <2> QED
    BY <2>1, <2>2, <2>3, <2>4 DEF AgentInv
<1>8. CASE TestFails
  <2>1. TypeOK'
    BY <1>0, <1>8 DEF InRange, TypeOK, Places, Messages, TestFails
  <2>2. MarkerCoversDivergence'
    BY <1>0, <1>8 DEF InRange, TypeOK, MarkerCoversDivergence, StepsInOrder, Places, TestFails
  <2>3. StepsInOrder'
    BY <1>0, <1>8 DEF InRange, TypeOK, MarkerCoversDivergence, StepsInOrder, Places, TestFails
  <2>4. Settled'
    BY <1>0, <1>8 DEF InRange, TypeOK, MarkerCoversDivergence, StepsInOrder, Settled, Places, TestFails
  <2> QED
    BY <2>1, <2>2, <2>3, <2>4 DEF AgentInv
<1>9. CASE MarkFails
  <2>1. TypeOK'
    BY <1>0, <1>9 DEF InRange, TypeOK, Places, Messages, MarkFails
  <2>2. MarkerCoversDivergence'
    BY <1>0, <1>9 DEF InRange, TypeOK, MarkerCoversDivergence, StepsInOrder, Places, MarkFails
  <2>3. StepsInOrder'
    BY <1>0, <1>9 DEF InRange, TypeOK, MarkerCoversDivergence, StepsInOrder, Places, MarkFails
  <2>4. Settled'
    BY <1>0, <1>9 DEF InRange, TypeOK, MarkerCoversDivergence, StepsInOrder, Settled, Places, MarkFails
  <2> QED
    BY <2>1, <2>2, <2>3, <2>4 DEF AgentInv
<1>10. CASE InstallFails
  <2>1. TypeOK'
    BY <1>0, <1>10 DEF InRange, TypeOK, Places, Messages, InstallFails
  <2>2. MarkerCoversDivergence'
    BY <1>0, <1>10 DEF InRange, TypeOK, MarkerCoversDivergence, StepsInOrder, Places, InstallFails
  <2>3. StepsInOrder'
    BY <1>0, <1>10 DEF InRange, TypeOK, MarkerCoversDivergence, StepsInOrder, Places, InstallFails
  <2>4. Settled'
    BY <1>0, <1>10 DEF InRange, TypeOK, MarkerCoversDivergence, StepsInOrder, Settled, Places, InstallFails
  <2> QED
    BY <2>1, <2>2, <2>3, <2>4 DEF AgentInv
<1>11. CASE ReloadFails
  <2>1. TypeOK'
    BY <1>0, <1>11 DEF InRange, TypeOK, Places, Messages, ReloadFails
  <2>2. MarkerCoversDivergence'
    BY <1>0, <1>11 DEF InRange, TypeOK, MarkerCoversDivergence, StepsInOrder, Places, ReloadFails
  <2>3. StepsInOrder'
    BY <1>0, <1>11 DEF InRange, TypeOK, MarkerCoversDivergence, StepsInOrder, Places, ReloadFails
  <2>4. Settled'
    BY <1>0, <1>11 DEF InRange, TypeOK, MarkerCoversDivergence, StepsInOrder, Settled, Places, ReloadFails
  <2> QED
    BY <2>1, <2>2, <2>3, <2>4 DEF AgentInv
<1>12. CASE UnmarkFails
  <2>1. TypeOK'
    BY <1>0, <1>12 DEF InRange, TypeOK, Places, Messages, UnmarkFails
  <2>2. MarkerCoversDivergence'
    BY <1>0, <1>12 DEF InRange, TypeOK, MarkerCoversDivergence, StepsInOrder, Places, UnmarkFails
  <2>3. StepsInOrder'
    BY <1>0, <1>12 DEF InRange, TypeOK, MarkerCoversDivergence, StepsInOrder, Places, UnmarkFails
  <2>4. Settled'
    BY <1>0, <1>12 DEF InRange, TypeOK, MarkerCoversDivergence, StepsInOrder, Settled, Places, UnmarkFails
  <2> QED
    BY <2>1, <2>2, <2>3, <2>4 DEF AgentInv
<1> QED
  BY <1>1, <1>2, <1>3, <1>4, <1>5, <1>6, <1>7, <1>8, <1>9, <1>10, <1>11, <1>12 DEF Apply

\* Processes that stop and start keep the invariant.
LEMMA StopsAndStartsKeep ==
  ASSUME AgentInv, Faults \/ AgentStarts \/ XrayStarts \/ UNCHANGED vars PROVE AgentInv'
<1> USE ApplyAssumption DEF agentVars
<1>0. TypeOK /\ MarkerCoversDivergence /\ StepsInOrder /\ Settled /\ InRange
  BY LenInRange DEF AgentInv
<1>1. CASE AgentDies
  <2>1. TypeOK'
    BY <1>0, <1>1 DEF InRange, TypeOK, Places, Messages, AgentDies
  <2>2. MarkerCoversDivergence'
    BY <1>0, <1>1 DEF InRange, TypeOK, MarkerCoversDivergence, StepsInOrder, Places, AgentDies
  <2>3. StepsInOrder'
    BY <1>0, <1>1 DEF InRange, TypeOK, MarkerCoversDivergence, StepsInOrder, Places, AgentDies
  <2>4. Settled'
    BY <1>0, <1>1 DEF InRange, TypeOK, MarkerCoversDivergence, StepsInOrder, Settled, Places, AgentDies
  <2> QED
    BY <2>1, <2>2, <2>3, <2>4 DEF AgentInv
<1>2. CASE XrayDies
  <2>1. TypeOK'
    BY <1>0, <1>2 DEF InRange, TypeOK, Places, Messages, XrayDies
  <2>2. MarkerCoversDivergence'
    BY <1>0, <1>2 DEF InRange, TypeOK, MarkerCoversDivergence, StepsInOrder, Places, XrayDies
  <2>3. StepsInOrder'
    BY <1>0, <1>2 DEF InRange, TypeOK, MarkerCoversDivergence, StepsInOrder, Places, XrayDies
  <2>4. Settled'
    BY <1>0, <1>2 DEF InRange, TypeOK, MarkerCoversDivergence, StepsInOrder, Settled, Places, XrayDies
  <2> QED
    BY <2>1, <2>2, <2>3, <2>4 DEF AgentInv
<1>3. CASE AgentStarts
  <2>1. TypeOK'
    BY <1>0, <1>3 DEF InRange, TypeOK, Places, Messages, AgentStarts
  <2>2. MarkerCoversDivergence'
    BY <1>0, <1>3 DEF InRange, TypeOK, MarkerCoversDivergence, StepsInOrder, Places, AgentStarts
  <2>3. StepsInOrder'
    BY <1>0, <1>3 DEF InRange, TypeOK, MarkerCoversDivergence, StepsInOrder, Places, AgentStarts
  <2>4. Settled'
    BY <1>0, <1>3 DEF InRange, TypeOK, MarkerCoversDivergence, StepsInOrder, Settled, Places, AgentStarts
  <2> QED
    BY <2>1, <2>2, <2>3, <2>4 DEF AgentInv
<1>4. CASE XrayStarts
  <2>1. TypeOK'
    BY <1>0, <1>4 DEF InRange, TypeOK, Places, Messages, XrayStarts
  <2>2. MarkerCoversDivergence'
    BY <1>0, <1>4 DEF InRange, TypeOK, MarkerCoversDivergence, StepsInOrder, Places, XrayStarts
  <2>3. StepsInOrder'
    BY <1>0, <1>4 DEF InRange, TypeOK, MarkerCoversDivergence, StepsInOrder, Places, XrayStarts
  <2>4. Settled'
    BY <1>0, <1>4 DEF InRange, TypeOK, MarkerCoversDivergence, StepsInOrder, Settled, Places, XrayStarts
  <2> QED
    BY <2>1, <2>2, <2>3, <2>4 DEF AgentInv
<1>5. CASE UNCHANGED vars
  <2>1. TypeOK'
    BY <1>0, <1>5 DEF InRange, TypeOK, Places, Messages, vars
  <2>2. MarkerCoversDivergence'
    BY <1>0, <1>5 DEF InRange, TypeOK, MarkerCoversDivergence, StepsInOrder, Places, vars
  <2>3. StepsInOrder'
    BY <1>0, <1>5 DEF InRange, TypeOK, MarkerCoversDivergence, StepsInOrder, Places, vars
  <2>4. Settled'
    BY <1>0, <1>5 DEF InRange, TypeOK, MarkerCoversDivergence, StepsInOrder, Settled, Places, vars
  <2> QED
    BY <2>1, <2>2, <2>3, <2>4 DEF AgentInv
<1> QED
  BY <1>1, <1>2, <1>3, <1>4, <1>5 DEF Faults

(* Every step of the agent's loop, every failure and every crash keeps the *)
(* inductive invariant: the type invariant, the marker, the order of the   *)
(* steps and the truth of the last message.                                *)
THEOREM AgentCorrect == Spec => []AgentInv
<1>1. AgentInv /\ [Next]_vars => AgentInv'
  BY PublishKeeps, RoundKeeps, ApplyKeeps, StopsAndStartsKeep DEF Next
<1> QED
  BY InitInv, <1>1, PTL DEF Spec

(* No failed reload and no crash leaves Xray on another configuration than *)
(* the installed one without a marker that the agent will see.             *)
THEOREM DivergenceIsMarked == Spec => []MarkerCoversDivergence
<1>1. AgentInv => MarkerCoversDivergence
  BY DEF AgentInv
<1> QED
  BY AgentCorrect, <1>1, PTL

(* A report of success is true of the running Xray.                        *)
THEOREM ReportsAreTrue == Spec => []ReportIsTrue
<1>1. AgentInv => ReportIsTrue
  BY DEF AgentInv, MarkerCoversDivergence, Settled, ReportIsTrue
<1> QED
  BY AgentCorrect, <1>1, PTL

(* Nothing is applied while counters of this round are unaccepted.         *)
THEOREM AppliedAfterFlush == Spec => []FlushedBeforeApply
<1>1. AgentInv => FlushedBeforeApply
  BY DEF AgentInv, StepsInOrder
<1> QED
  BY AgentCorrect, <1>1, PTL

-----------------------------------------------------------------------------
(* Refinement: the initial states map to initial states, and every step to *)
(* a step of ConfigDelivery or to a stutter.                               *)

\* An initial state of the agent is one of the abstract specification.
LEMMA DeliveryInit == Init => Delivery!Init
  BY DEF Init, Delivery!Init

\* Every step of the agent is an abstract step or a stutter.
LEMMA DeliveryStep == AgentInv /\ [Next]_vars => [Delivery!Next]_(Delivery!vars)
<1> SUFFICES ASSUME AgentInv, [Next]_vars PROVE [Delivery!Next]_(Delivery!vars)
  OBVIOUS
<1> USE DEF Delivery!vars, Delivery!Next
<1>1. CASE Publish
  BY <1>1 DEF Publish, Delivery!Publish
<1>2. CASE Round
  BY <1>2 DEF Round, Collect, HeartbeatAccepted, HeartbeatFails, SyncAnswered,
              SyncFails, diskVars
<1>3. CASE Install
  <2>1. /\ reply \in 1..Len(log)
        /\ reply >= file
        /\ log[reply] \notin Rejected
        /\ file' = reply
    BY <1>3 DEF Install, Proceed, AgentInv, StepsInOrder, TypeOK
  <2>2. Delivery!Install
    BY <1>3, <2>1 DEF Install, Proceed, Delivery!Install
  <2> QED
    BY <2>2
<1>4. CASE Reload
  <2>1. file # 0
    BY <1>4 DEF Reload, Proceed, AgentInv, StepsInOrder, TypeOK
  <2>2. Delivery!Start
    BY <1>4, <2>1 DEF Reload, Proceed, Delivery!Start
  <2> QED
    BY <2>2
<1>5. CASE ReloadFails
  <2>1. file # 0
    BY <1>5 DEF ReloadFails, GiveUp, AgentInv, StepsInOrder, TypeOK
  <2>2. Delivery!Start \/ Delivery!Stop \/ UNCHANGED <<log, file, running>>
    BY <1>5, <2>1 DEF ReloadFails, GiveUp, Delivery!Start, Delivery!Stop
  <2> QED
    BY <2>2
<1>6. CASE Write \/ Test \/ MarkPending \/ Unmark
           \/ WriteFails \/ TestFails \/ MarkFails \/ InstallFails \/ UnmarkFails
  BY <1>6 DEF Write, Test, MarkPending, Unmark, WriteFails, TestFails, MarkFails,
              InstallFails, UnmarkFails, Proceed, GiveUp
<1>7. CASE AgentDies \/ AgentStarts
  BY <1>7 DEF AgentDies, AgentStarts
<1>8. CASE XrayDies
  BY <1>8 DEF XrayDies, Delivery!Stop
<1>9. CASE XrayStarts
  BY <1>9 DEF XrayStarts, Delivery!Start
<1>10. CASE UNCHANGED vars
  BY <1>10 DEF vars
<1> QED
  BY <1>1, <1>2, <1>3, <1>4, <1>5, <1>6, <1>7, <1>8, <1>9, <1>10
     DEF Next, Apply, Faults

(* The agent's loop, with all its failures and restarts, implements        *)
(* ConfigDelivery: only published, accepted configurations are installed   *)
(* and run, and the server never goes back to an older one.                *)
THEOREM AgentImplementsDelivery == Spec => DeliverySpec
<1> QED
  BY DeliveryInit, DeliveryStep, AgentCorrect, PTL DEF Spec, DeliverySpec, Delivery!Spec
=============================================================================
