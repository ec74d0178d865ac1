------------------------------- MODULE PinBook -------------------------------
(***************************************************************************)
(* What the saved peers promise: one record for a URL, changed by one      *)
(* command at a time, and an identity that, once pinned, leaves its record *)
(* only by the removal of the peer.                                        *)
(***************************************************************************)
CONSTANTS
    Url,            \* normalized peer URLs
    Key,            \* identities
    Absent,         \* no record
    Unpinned        \* a record without an identity

VARIABLE peers

Record == Key \cup {Absent, Unpinned}

(* A file may be there, from before pins too.                              *)
Init == peers \in [Url -> Record]

Save(u) ==
    /\ peers[u] = Absent
    /\ peers' = [peers EXCEPT ![u] = Unpinned]

Pin(u, k) ==
    /\ peers[u] \notin Key
    /\ peers' = [peers EXCEPT ![u] = k]

Forget(u) == peers' = [peers EXCEPT ![u] = Absent]

Next ==
    \E u \in Url :
       \/ Save(u)
       \/ \E k \in Key : Pin(u, k)
       \/ Forget(u)

Spec == Init /\ [][Next]_peers
=============================================================================
