--------------------------- MODULE SharedHistory ----------------------------
(***************************************************************************)
(* What the synchronisation of a channel promises about its signed         *)
(* histories, with no sessions or frames: a node goes on with its history  *)
(* by events it signs itself, or by events that some node holds; it keeps  *)
(* branches that some node holds, and never gives up one it has.           *)
(* PolicyHistory and KeyRing implement it.                                 *)
(***************************************************************************)
EXTENDS Naturals, Sequences

CONSTANTS
    Node,
    IdentityOf,
    Start,          \* the histories at first
    Replays(_)      \* what may be a history

VARIABLES
    branch,         \* per node, its current branch
    saved           \* per node, the branches beside it

vars == <<branch, saved>>

Prefix(g, h) == Len(g) <= Len(h) /\ SubSeq(h, 1, Len(g)) = g

Init ==
    /\ branch = Start
    /\ saved = [n \in Node |-> {}]

(* Some node holds h, or a history that goes on from it.                   *)
Held(h) == \E m \in Node : \E g \in saved[m] \cup {branch[m]} : Prefix(h, g)

(* The history of n, and no other, goes on.                                *)
Extend(n) ==
    /\ branch' = [branch EXCEPT ![n] = branch'[n]]
    /\ Prefix(branch[n], branch'[n])
    /\ UNCHANGED saved

Sign(n) ==
    /\ Extend(n)
    /\ Replays(branch'[n])
    /\ \A i \in (Len(branch[n]) + 1)..Len(branch'[n]) :
          branch'[n][i].actor = IdentityOf[n]

Take(n) == Extend(n) /\ Held(branch'[n])

Save(n, h) ==
    /\ Held(h)
    /\ saved' = [saved EXCEPT ![n] = @ \cup {h}]
    /\ UNCHANGED branch

Select(n, h) ==
    /\ h \in saved[n]
    /\ branch' = [branch EXCEPT ![n] = h]
    /\ saved' = [saved EXCEPT ![n] = @ \cup ({branch[n]} \ {<< >>})]

Next == \E n \in Node :
    \/ Sign(n) \/ Take(n)
    \/ \E h \in saved'[n] : Save(n, h)
    \/ \E h \in saved[n] : Select(n, h)

Spec == Init /\ [][Next]_vars
=============================================================================
