----------------------------- MODULE PolicyChain -----------------------------
(***************************************************************************)
(* The channel policy as a function of its signed history (store.rs).      *)
(*                                                                         *)
(* A history is a sequence of events.  An event's id is a hash that covers *)
(* the previous id, so two ids are equal exactly when the histories up to  *)
(* them are: a "head" is a history, and comparing ids position by position *)
(* is comparing prefixes.  Signatures and ids are checked on every read;   *)
(* events that fail those checks are not represented.  Timestamps are left *)
(* out: the same change made twice on one history is one event.            *)
(***************************************************************************)
EXTENDS Naturals, Sequences, FiniteSets

CONSTANTS
    Identity,       \* public keys
    NoOne           \* the owner of an open channel

ASSUME NoOneOK == NoOne \notin Identity

Role == {"moderator", "writer", "reader"}

Visibility == {"public", "private"}

Policy == [mode : {"open", "restricted"}, visibility : Visibility,
           owner : Identity \cup {NoOne}, members : [Role -> SUBSET Identity]]

DefaultPolicy ==
    [mode |-> "open", visibility |-> "public", owner |-> NoOne,
     members |-> [r \in Role |-> {}]]

(* The values of PolicyAction, and their types.                            *)
Restrict(o)      == [type |-> "restrict", owner |-> o]
Adopt(p)         == [type |-> "adopt", policy |-> p]
Grant(r, k)      == [type |-> "grant", role |-> r, key |-> k]
Revoke(r, k)     == [type |-> "revoke", role |-> r, key |-> k]
TransferOwner(k) == [type |-> "transfer_owner", key |-> k]
SetVisibility(v) == [type |-> "set_visibility", visibility |-> v]

Event(actor, action) == [actor |-> actor, action |-> action]

PolicyAction ==
    [type : {"restrict"}, owner : Identity]
    \cup [type : {"adopt"}, policy : Policy]
    \cup [type : {"grant", "revoke"}, role : Role, key : Identity]
    \cup [type : {"transfer_owner"}, key : Identity]
    \cup [type : {"set_visibility"}, visibility : Visibility]

PolicyEvent == [actor : Identity, action : PolicyAction]

(* authorize_policy_change: only the owner manages moderators, owner and   *)
(* moderators manage writers and readers.                                  *)
authorize_policy_change(policy, actor, role) ==
    /\ policy.mode = "restricted"
    /\ \/ policy.owner = actor
       \/ role # "moderator" /\ actor \in policy.members["moderator"]

(* apply_policy_action succeeds.                                           *)
accepts(policy, actor, action) ==
    \/ /\ action.type = "restrict"
       /\ policy.mode = "open"
       /\ action.owner = actor
    \/ /\ action.type = "adopt"
       /\ policy.mode = "open"
       /\ action.policy.mode = "restricted"
       /\ action.policy.owner = actor
    \/ /\ action.type \in {"grant", "revoke"}
       /\ authorize_policy_change(policy, actor, action.role)
    \/ /\ action.type = "transfer_owner"
       /\ policy.owner = actor
    \/ /\ action.type = "set_visibility"
       /\ policy.mode = "restricted"
       /\ policy.owner = actor

(* Mutant: the role is granted on the default policy.                      *)
Granted_afresh(policy, role, key) ==
    [DefaultPolicy EXCEPT !.members[role] = @ \cup {key}]

(* grant_role.                                                             *)
Granted(policy, role, key) == [policy EXCEPT !.members[role] = @ \cup {key}]

(* The policy it leaves.                                                   *)
apply_policy_action(policy, actor, action) ==
    CASE action.type = "restrict" ->
            [policy EXCEPT !.mode = "restricted", !.owner = actor]
      [] action.type = "adopt" ->
            action.policy
      [] action.type = "grant" ->
            Granted(policy, action.role, action.key)
      [] action.type = "revoke" ->
            [policy EXCEPT !.members[action.role] = @ \ {action.key}]
      [] action.type = "transfer_owner" ->
            [policy EXCEPT !.owner = action.key,
                           !.members = [r \in Role |-> @[r] \ {action.key}]]
      [] action.type = "set_visibility" ->
            [policy EXCEPT !.visibility = action.visibility]

(* The policies after each event of h, the empty history first.            *)
Policies(h) ==
    LET after[i \in 0..Len(h)] ==
            IF i = 0 THEN DefaultPolicy
            ELSE apply_policy_action(after[i - 1], h[i].actor, h[i].action)
    IN  after

(* derive_policy: replay fails at the first event its actor may not make.  *)
ValidHistory(h) ==
    \A i \in 1..Len(h) :
        accepts(Policies(SubSeq(h, 1, i - 1))[i - 1], h[i].actor, h[i].action)

derive_policy(h) == Policies(h)[Len(h)]

(* is_policy_prefix.                                                       *)
Prefix(g, h) == Len(g) <= Len(h) /\ SubSeq(h, 1, Len(g)) = g

(* What the rest of the code asks of a policy.                             *)
policy_allows_read(policy, k) ==
    \/ policy.visibility = "public"
    \/ policy.owner = k
    \/ \E r \in Role : k \in policy.members[r]

may_append(policy, k) ==
    \/ policy.mode = "open"
    \/ policy.owner = k
    \/ k \in policy.members["moderator"] \cup policy.members["writer"]

may_moderate(policy, k) ==
    \/ policy.owner = k
    \/ k \in policy.members["moderator"]
=============================================================================
