-------------------------- MODULE MCPolicyHistory --------------------------
(* PolicyHistory on two nodes of two operators, alice on n1 and bob on n2. *)
EXTENDS PolicyHistory, TLC

CONSTANTS n1, n2, alice, bob

MCIdentityOf == (n1 :> alice @@ n2 :> bob)

(* Both operators restrict the channel; alice also works with roles.       *)
ForkEdits ==
    {Event(alice, Restrict(alice)), Event(bob, Restrict(bob)),
     Event(alice, Grant("moderator", bob)), Event(bob, Grant("writer", alice))}

(* The fork comes after a moderator was appointed, and the channel may     *)
(* turn private in one branch.                                             *)
LateForkEdits ==
    {Event(alice, Restrict(alice)), Event(alice, Grant("moderator", bob)),
     Event(bob, Grant("writer", alice)), Event(alice, SetVisibility("private"))}

NoLegacy == [n \in Node |-> NoPolicy]

(* n1 has a policy.json from an earlier version, owned by its operator.    *)
LegacyPolicy == [DefaultPolicy EXCEPT !.mode = "restricted", !.owner = alice]
OneLegacy == [n \in Node |-> IF n = n1 THEN LegacyPolicy ELSE NoPolicy]

BothWays == {<<n1, n2>>, <<n2, n1>>}
OneWay == {<<n1, n2>>}
=============================================================================
