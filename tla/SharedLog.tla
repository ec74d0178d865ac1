----------------------------- MODULE SharedLog ------------------------------
(***************************************************************************)
(* What the synchronisation of a channel promises about its logs, with no  *)
(* sessions, frames or failures: a message enters a log where it is        *)
(* posted, and spreads from a node that holds it to one it is linked to,   *)
(* unless the receiver refuses its author at that moment.  Nothing else    *)
(* changes a log.  SyncSession implements it.                              *)
(***************************************************************************)
CONSTANTS
    Node,
    Message,
    Link,           \* the pairs <<to, from>> of nodes that synchronise
    Known,          \* per node, the log at the start
    Posts,          \* the pairs <<node, message>> of later posts
    Revocable       \* the messages of an author who may lose the right to write

VARIABLES
    log,            \* per node, the messages it holds
    refused         \* per node, the messages it would not take now

vars == <<log, refused>>

Init ==
    /\ log = Known
    /\ refused = [n \in Node |-> {}]

Enter(n, m) ==
    /\ m \notin refused[n]
    /\ log' = [log EXCEPT ![n] = @ \cup {m}]
    /\ UNCHANGED refused

Post(n, m) == <<n, m>> \in Posts /\ m \notin log[n] /\ Enter(n, m)

Copy(n, k, m) == <<n, k>> \in Link /\ m \in log[k] /\ Enter(n, m)

ChangePolicy(n) ==
    /\ refused' = [refused EXCEPT ![n] = Revocable \ @]
    /\ UNCHANGED log

Next ==
    \/ \E n \in Node, m \in Message : Post(n, m) \/ \E k \in Node : Copy(n, k, m)
    \/ \E n \in Node : ChangePolicy(n)

Spec == Init /\ [][Next]_vars
=============================================================================
