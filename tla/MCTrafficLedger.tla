--------------------------- MODULE MCTrafficLedger ---------------------------
(***************************************************************************)
(* Small instances of TrafficLedger for TLC.                               *)
(***************************************************************************)
EXTENDS TrafficLedger

\* Every clock agrees; or the agents' clocks run ahead of the panel's.
NoSkew == [s \in Servers |-> 0]
AgentsAhead == [s \in Servers |-> 1]

EveryGrant == SUBSET Servers
GrantedEverywhere == {Servers}
=============================================================================
