---------------------------- MODULE DesiredState ---------------------------
(***************************************************************************)
(* What the control plane promises of a node's configuration, without      *)
(* sockets, requests and restarts: the node takes the configurations of    *)
(* the hub's record, each one it is able to, in the order in which they    *)
(* were recorded or offered again.  ControlPlane implements this.          *)
(***************************************************************************)
EXTENDS Sequences

CONSTANTS
    Config,         \* configurations
    Refusable,      \* the ones a node may refuse
    NoConfig        \* no record, nothing held, an order that has no configuration

VARIABLES
    wish,           \* the record's configuration
    pending,        \* orders the node has not carried out
    node            \* the configuration the node holds

vars == <<wish, pending, node>>

Init ==
    /\ wish \in Config
    /\ pending = <<>>
    /\ node = NoConfig

\* An edit, which may find the node connected; one that began before a
\* deletion brings the record back.
Record ==
    /\ wish' \in Config
    /\ pending' \in {pending, Append(pending, wish')}
    /\ UNCHANGED node

Delete == wish' = NoConfig /\ UNCHANGED <<pending, node>>

\* A node that registers is offered what the record has.
Offer ==
    /\ wish # NoConfig
    /\ pending' = Append(pending, wish)
    /\ UNCHANGED <<wish, node>>

\* An order to start or to stop says nothing of the configuration.
Order == pending' = Append(pending, NoConfig) /\ UNCHANGED <<wish, node>>

CarryOut ==
    /\ pending # <<>>
    /\ pending' = Tail(pending)
    /\ \/ Head(pending) \in Config /\ node' = Head(pending)
       \/ Head(pending) \in Refusable \cup {NoConfig} /\ node' = node
    /\ UNCHANGED wish

\* The connection ends; the node may have ended with it.
Lose ==
    /\ pending' = <<>>
    /\ node' \in {node, NoConfig}
    /\ UNCHANGED wish

Next == Record \/ Delete \/ Offer \/ Order \/ CarryOut \/ Lose

Spec == Init /\ [][Next]_vars
=============================================================================
