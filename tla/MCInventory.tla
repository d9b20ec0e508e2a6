----------------------------- MODULE MCInventory -----------------------------
(***************************************************************************)
(* Small instances of Inventory for TLC.                                   *)
(***************************************************************************)
EXTENDS Inventory, TLC

Symmetry == Permutations(Servers) \cup Permutations(Nodes)
              \cup Permutations(Relays) \cup Permutations(Clients)
=============================================================================
