---------------------------- MODULE MCAgentApply -----------------------------
(***************************************************************************)
(* Small instances of AgentApply for TLC: two acceptable configurations    *)
(* (enough for A, B, A, where a hash returns) and one that Xray refuses.   *)
(***************************************************************************)
EXTENDS AgentApply

CONSTANTS A, B, Bad

TheConfigs == {A, B, Bad}
TheRejected == {Bad}
=============================================================================
