--------------------------- MODULE ConfigDelivery ----------------------------
(***************************************************************************)
(* What the panel and an agent together promise about the configuration of *)
(* one server's Xray: configurations are published one after another; one  *)
(* of the published, accepted ones is installed on the server, never an    *)
(* older one than before; and Xray, when it runs, was started either with  *)
(* the installed one or with one installed earlier, never going back.      *)
(***************************************************************************)
EXTENDS Naturals, Sequences

CONSTANTS
    Configs,    \* contents of an Xray configuration
    Rejected    \* those `xray run -test` refuses

VARIABLES
    log,        \* the contents published, in order; the last is desired
    installed,  \* index in log of the configuration file, 0 if there is none
    running     \* index in log of the configuration Xray runs, 0 if it is down

vars == <<log, installed, running>>

Init ==
    /\ \E c \in Configs \ Rejected : log = <<c>>
    /\ \/ installed = 0 /\ running = 0      \* a server just set up
       \/ installed = 1 /\ running = 1

Publish == \E c \in Configs : log' = Append(log, c) /\ UNCHANGED <<installed, running>>

Install ==
    /\ \E i \in 1..Len(log) :
         /\ i >= installed
         /\ log[i] \notin Rejected
         /\ installed' = i
    /\ UNCHANGED <<log, running>>

Start ==
    /\ installed # 0
    /\ running' = installed
    /\ UNCHANGED <<log, installed>>

Stop ==
    /\ running' = 0
    /\ UNCHANGED <<log, installed>>

Next == Publish \/ Install \/ Start \/ Stop

Spec == Init /\ [][Next]_vars
=============================================================================
