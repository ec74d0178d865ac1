------------------------------ MODULE MCKeyRing ------------------------------
(* KeyRing on a channel that alice (n1) owns, and may write to also when   *)
(* she no longer does, and bob (n2) moderates.                             *)
EXTENDS KeyRing, TLC

CONSTANTS n1, n2, alice, bob, carol

MCIdentityOf == (n1 :> alice @@ n2 :> bob)

MCFounded ==
    <<Event(alice, Restrict(alice)), Event(alice, Grant("moderator", bob)),
      Event(alice, Grant("writer", alice))>>

(* The channel turns private; bob rotates the key by a revocation, or      *)
(* alice does by handing the channel to bob.                               *)
MCEdits ==
    {Event(alice, SetVisibility("private")), Event(bob, Revoke("writer", carol)),
     Event(alice, TransferOwner(bob))}

MCDials == {<<n2, n1>>}
=============================================================================
