---------------------------- MODULE MCModeration ----------------------------
(* Two nodes, alice on n1 and bob on n2.                                   *)
EXTENDS Moderation, TLC

CONSTANTS n1, n2, alice, bob

MCIdentityOf == (n1 :> alice @@ n2 :> bob)

NoLegacy == [n \in Node |-> NoPolicy]

BothWays == {<<n1, n2>>, <<n2, n1>>}

(* alice moderates as the owner, not at all, and as a moderator again; bob *)
(* from when the channel is his.                                           *)
ChangingHands ==
    {Event(alice, Restrict(alice)), Event(alice, TransferOwner(bob)),
     Event(bob, Grant("moderator", alice))}

TwoOwners ==
    {Event(alice, Restrict(alice)), Event(bob, Restrict(bob))}

BothModerate == {<<n1, "tombstone">>, <<n2, "tombstone">>}
AliceModerates == {<<n1, "tombstone">>}
=============================================================================
