----------------------------- MODULE Moderation -----------------------------
(***************************************************************************)
(* moderation.ndjson and moderation-conflicts/, over the policy histories  *)
(* of PolicyHistory.  A session exchanges the policy histories first and   *)
(* the moderation histories after; an event names the head of the policy   *)
(* history that gave its actor the right, and each node replays it against *)
(* the policy history it has at that moment.                               *)
(*                                                                         *)
(* A head is the policy history up to the named event (see PolicyChain).   *)
(* moderation.json is left out, for it is written and never read; so is    *)
(* the look-up of a tombstone's target in the log.                         *)
(***************************************************************************)
EXTENDS PolicyHistory

CONSTANTS
    ModEdits,       \* the pairs <<node, action>> that operators try
    MaxModEvents,   \* bound: events in a moderation history
    MaxCuts         \* bound: sessions lost on their way, and crashes

ASSUME ModerationConstantsOK ==
    /\ \A e \in ModEdits : e[1] \in Node
    /\ MaxModEvents \in Nat /\ MaxCuts \in Nat

VARIABLES
    mods,           \* moderation.ndjson of each node
    modSaved,       \* moderation-conflicts/ of each node
    exchange,       \* the moderation part of each session under way
    cuts            \* sessions lost and crashes so far

mvars == <<mods, modSaved, exchange, cuts>>
allvars == <<vars, mvars>>

MInit ==
    /\ Init
    /\ mods = [n \in Node |-> AppendTo(NoFile, << >>)]
    /\ modSaved = [n \in Node |-> {}]
    /\ exchange = {}
    /\ cuts = 0

-----------------------------------------------------------------------------
(* Mutant: the actor must be a moderator today.                            *)
ValidModeration_today(p, h) ==
    \A i \in 1..Len(h) :
       /\ h[i].head # << >>
       /\ Prefix(h[i].head, p)
       /\ may_moderate(derive_policy(p), h[i].actor)

(* derive_moderation succeeds with the policy history p.                   *)
ValidModeration(p, h) ==
    \A i \in 1..Len(h) :
       /\ h[i].head # << >>
       /\ Prefix(h[i].head, p)
       /\ may_moderate(derive_policy(h[i].head), h[i].actor)

Replays(n, h) == Readable(n) /\ ValidModeration(history(n), h)

(* moderation.ndjson, as PolicyHistory has policy.ndjson; here it makes no *)
(* difference whether an empty file exists.                                *)
moderation(n) == mods[n].events

ModReadable(n) == mods[n].tail # "bad"

(* read_moderation_history returns Ok.                                     *)
ReadsModeration(n) == ModReadable(n) /\ Replays(n, moderation(n))

Cut == cuts < MaxCuts /\ cuts' = cuts + 1

(* Local changes.                                                          *)
NewModEvent(n, action) ==
    [actor |-> IdentityOf[n], head |-> history(n), action |-> action]

MayModerate(n, action) ==
    /\ <<n, action>> \in ModEdits
    /\ Len(moderation(n)) < MaxModEvents
    /\ history(n) # << >>
    /\ ModReadable(n)
    /\ Replays(n, Append(moderation(n), NewModEvent(n, action)))

append_moderation_action(n, action) ==
    /\ MayModerate(n, action)
    /\ mods' = [mods EXCEPT ![n] = AppendTo(@, <<NewModEvent(n, action)>>)]
    /\ UNCHANGED <<vars, modSaved, exchange, cuts>>

(* A crash in the middle of an append, by whichever operation.             *)
AppendCutShort(n, evs) ==
    /\ \E f \in PartsOf(mods[n], evs) : mods' = [mods EXCEPT ![n] = f]
    /\ Cut

CrashInModerate(n, action) ==
    /\ MayModerate(n, action)
    /\ AppendCutShort(n, <<NewModEvent(n, action)>>)
    /\ UNCHANGED <<vars, modSaved, exchange>>

(* Mutant: the remote history is not validated.                            *)
ModExtends_unchecked(n, remote) ==
    ReadsModeration(n) /\ Prefix(moderation(n), remote)

(* append_remote_moderation_history returns Ok.                            *)
ModExtends(n, remote) ==
    ReadsModeration(n) /\ Replays(n, remote) /\ Prefix(moderation(n), remote)

ModSuffix(n, remote) == SubSeq(remote, Len(moderation(n)) + 1, Len(remote))

append_remote_moderation_history(n, remote) ==
    /\ ModExtends(n, remote)
    /\ mods' = [mods EXCEPT ![n] = AppendTo(@, ModSuffix(n, remote))]

MaySave(n, h) == h # << >> /\ Replays(n, h)

save_moderation_conflict(n, h) ==
    /\ MaySave(n, h)
    /\ modSaved' = [modSaved EXCEPT ![n] = @ \cup {h}]

(* Mutant: the current branch is overwritten.                              *)
ModDisplaced_nothing(n, h) == {}

ModDisplaced(n, h) == IF moderation(n) \in {<< >>, h} THEN {} ELSE {moderation(n)}

MaySelect(n, h) == h \in modSaved[n] /\ Replays(n, h) /\ ReadsModeration(n)

(* The operator selects a saved branch.                                    *)
resolve_moderation_conflict(n, h) ==
    /\ MaySelect(n, h)
    /\ modSaved' = [modSaved EXCEPT ![n] = @ \cup ModDisplaced(n, h)]
    /\ mods' = [mods EXCEPT ![n] = AppendTo(NoFile, h)]
    /\ UNCHANGED <<vars, exchange, cuts>>

(* A crash before the rename, with the displaced branch saved or its file  *)
(* being rewritten.                                                        *)
CrashInSelect(n, h) ==
    /\ MaySelect(n, h)
    /\ \/ modSaved' = [modSaved EXCEPT ![n] = @ \cup ModDisplaced(n, h)]
       \/ modSaved' = [modSaved EXCEPT ![n] = @ \ ModDisplaced(n, h)]
    /\ Cut
    /\ UNCHANGED <<vars, mods, exchange>>

-----------------------------------------------------------------------------
(* Sessions.  A session is at stage "status" until the server has settled  *)
(* the policy, then at "admitted" until it has answered.  The stage of the *)
(* answer is "update" or "conflict".                                       *)

Exchange(c, v, stage, h) == [client |-> c, server |-> v, stage |-> stage, mods |-> h]

Between(c, v) == {x \in exchange : x.client = c /\ x.server = v}

(* The session a policy frame belongs to.                                  *)
SessionOf(f) == IF f.kind = "status" THEN Between(f.from, f.to)
                ELSE Between(f.to, f.from)

SessionEnds(f) == exchange' = exchange \ SessionOf(f)

(* Mutant: a client starts again while its session is under way.           *)
SendBothHistories_again(n, m) ==
    /\ SendStatus(n, m)
    /\ ReadsModeration(n)
    /\ exchange' = exchange \cup {Exchange(n, m, "status", moderation(n))}
    /\ UNCHANGED <<mods, modSaved, cuts>>

(* The client reads both histories for its status.                         *)
SendBothHistories(n, m) ==
    /\ Between(n, m) = {}
    /\ SendStatus(n, m)
    /\ ReadsModeration(n)
    /\ exchange' = exchange \cup {Exchange(n, m, "status", moderation(n))}
    /\ UNCHANGED <<mods, modSaved, cuts>>

(* The policy part of the session; where it fails, so does the session.    *)
PolicyPart(f) ==
    /\ \/ /\ ServerReconcile(f)
          /\ IF \E g \in net' : g.kind = "update" /\ g.to = f.from /\ g.from = f.to
             THEN exchange' = (exchange \ SessionOf(f))
                                \cup {[x EXCEPT !.stage = "admitted"] : x \in SessionOf(f)}
             ELSE SessionEnds(f)
       \/ ClientUpdate(f) /\ UNCHANGED exchange
       \/ RefuseStatus(f) /\ SessionEnds(f)
       \/ ServerFork(f) /\ SessionEnds(f)
       \/ ClientConflict(f) /\ SessionEnds(f)
       \/ RefuseUpdate(f) /\ SessionEnds(f)
    /\ UNCHANGED <<mods, modSaved, cuts>>

(* The session is lost in its policy part.                                 *)
DropSession(f) ==
    /\ Drop(f) /\ SessionEnds(f)
    /\ Cut
    /\ UNCHANGED <<mods, modSaved>>

(* The session ends in its moderation part, for both nodes.                *)
Disconnect(x) ==
    /\ exchange' = exchange \ {x}
    /\ net' = {f \in net : ~(f.kind = "update" /\ f.to = x.client /\ f.from = x.server)}
    /\ UNCHANGED <<file, cache, saved>>

EndSession(x) == Disconnect(x) /\ UNCHANGED <<mods, modSaved>>

Hangup(x) ==
    /\ x \in exchange
    /\ x.stage # "status"
    /\ EndSession(x)
    /\ Cut

Answer(x, kind, h) ==
    exchange' = (exchange \ {x}) \cup {Exchange(x.client, x.server, kind, h)}

ModFork(n, h) == ~Prefix(moderation(n), h) /\ ~Prefix(h, moderation(n))

(* run_sync after it has sent policy_sync: both histories must replay.     *)
ServerModeration(x) ==
    /\ x \in exchange /\ x.stage = "admitted"
    /\ Replays(x.server, x.mods) /\ ReadsModeration(x.server)
    /\ IF ModFork(x.server, x.mods)
       THEN /\ save_moderation_conflict(x.server, x.mods)
            /\ Answer(x, "conflict", moderation(x.server))
            /\ UNCHANGED mods
       ELSE /\ IF Prefix(moderation(x.server), x.mods)
               THEN append_remote_moderation_history(x.server, x.mods)
               ELSE UNCHANGED mods
            /\ Answer(x, "update", moderation(x.server)')
            /\ UNCHANGED modSaved
    /\ UNCHANGED <<vars, cuts>>

(* The client's policy_sync handler is done with the frame before it.      *)
PolicySettled(x) ==
    ~\E f \in net : f.kind = "update" /\ f.to = x.client /\ f.from = x.server

(* The client's moderation_sync handler.                                   *)
ClientModeration(x) ==
    /\ x \in exchange /\ PolicySettled(x)
    /\ \/ /\ x.stage = "update"
          /\ append_remote_moderation_history(x.client, x.mods)
          /\ UNCHANGED modSaved
       \/ /\ x.stage = "conflict"
          /\ save_moderation_conflict(x.client, x.mods)
          /\ UNCHANGED mods
    /\ exchange' = exchange \ {x}
    /\ UNCHANGED <<vars, cuts>>

(* A history does not replay, or the local one has grown since the session *)
(* began: the session fails.                                               *)
RefuseModeration(x) ==
    /\ \/ /\ x.stage = "admitted"
          /\ ~(Replays(x.server, x.mods) /\ ReadsModeration(x.server))
       \/ /\ x.stage = "update" /\ PolicySettled(x)
          /\ ~ModExtends(x.client, x.mods)
       \/ /\ x.stage = "conflict" /\ PolicySettled(x)
          /\ ~MaySave(x.client, x.mods)
    /\ EndSession(x)
    /\ UNCHANGED cuts

Receiver(x) == IF x.stage = "admitted" THEN x.server ELSE x.client

(* The receiver of a history crashes while it appends or saves it.         *)
CrashInModeration(x) ==
    /\ x \in exchange
    /\ x.stage \in {"update", "conflict"} => PolicySettled(x)
    /\ LET n == Receiver(x) IN
       \/ /\ x.stage \in {"admitted", "update"}
          /\ ModExtends(n, x.mods) /\ ModSuffix(n, x.mods) # << >>
          /\ AppendCutShort(n, ModSuffix(n, x.mods))
          /\ UNCHANGED modSaved
       \/ /\ \/ x.stage = "conflict"
             \/ x.stage = "admitted" /\ ReadsModeration(n) /\ ModFork(n, x.mods)
          /\ MaySave(n, x.mods)
          /\ modSaved' = [modSaved EXCEPT ![n] = @ \ {x.mods}]
          /\ Cut
          /\ UNCHANGED mods
    /\ Disconnect(x)

-----------------------------------------------------------------------------
PolicyMaintenance ==
    \/ \E n \in Node, a \in Actions : append_policy_action(n, a)
    \/ \E n \in Node : rebuild_policy_cache(n)

SessionPart(x) ==
    ServerModeration(x) \/ ClientModeration(x) \/ RefuseModeration(x) \/ Hangup(x)

SyncNext ==
    \/ \E d \in Dials : SendBothHistories(d[1], d[2])
    \/ \E f \in net : PolicyPart(f) \/ DropSession(f)
    \/ \E x \in exchange : SessionPart(x)

ModerationNext ==
    \/ \E e \in ModEdits : append_moderation_action(e[1], e[2])
    \/ \E n \in Node : \E h \in modSaved[n] : resolve_moderation_conflict(n, h)

ModerationCrash ==
    \/ \E e \in ModEdits : CrashInModerate(e[1], e[2])
    \/ \E n \in Node : \E h \in modSaved[n] : CrashInSelect(n, h)
    \/ \E x \in exchange : CrashInModeration(x)

SelectPolicy ==
    \E n \in Node : \E h \in saved[n] : resolve_policy_conflict(n, h)

MNext ==
    \/ (PolicyMaintenance \/ SelectPolicy) /\ UNCHANGED mvars
    \/ SyncNext
    \/ ModerationNext
    \/ ModerationCrash

MSpec == MInit /\ [][MNext]_allvars

(* A step of the session of c with v, as long as it is not lost.           *)
SessionStep(c, v) ==
    \/ \E f \in net : {f.from, f.to} = {c, v} /\ SessionOf(f) \subseteq Between(c, v)
                      /\ PolicyPart(f)
    \/ \E x \in Between(c, v) :
          ServerModeration(x) \/ ClientModeration(x) \/ RefuseModeration(x)

(* auto_sync_worker begins a session again and again; the frames of a      *)
(* session that is not lost are handled, by tasks of the two nodes.        *)
MFairness ==
    \A d \in Dials :
       /\ SF_allvars(SendBothHistories(d[1], d[2]))
       /\ WF_allvars(SessionStep(d[1], d[2]))

MFairSpec == MSpec /\ MFairness

-----------------------------------------------------------------------------
MTypeOK ==
    /\ \A n \in Node : mods[n].exists /\ mods[n].tail \in {"clean", "open", "bad"}
    /\ \A n \in Node : \A h \in {moderation(n)} \cup modSaved[n] :
         \A i \in 1..Len(h) : /\ h[i].actor \in Identity
                              /\ IsHistory(h[i].head)
                              /\ h[i].action \in {e[2] : e \in ModEdits}
    /\ \A x \in exchange : /\ {x.client, x.server} \subseteq Node
                           /\ x.stage \in {"status", "admitted", "update", "conflict"}
                           /\ Between(x.client, x.server) = {x}
    /\ cuts \in 0..MaxCuts

(* ADR-009: replay evaluates authority "at the event's historical policy   *)
(* state".  A node can always replay the moderation history it has taken,  *)
(* however a crash cut it short, and the branches it has saved: else it    *)
(* can neither read nor synchronise the channel.                           *)
ModerationReplays ==
    \A n \in Node : Readable(n) =>
       \A h \in modSaved[n] \cup {moderation(n)} : ValidModeration(history(n), h)

ModRecoverable(n) ==
    modSaved[n] \cup (IF ModReadable(n) THEN {moderation(n)} ELSE {})

(* ADR-009: "without destroying data"; ADR-015: both branches remain       *)
(* recoverable.  No step but a crash loses a moderation event of the       *)
(* current or of a saved history, while the file can be read.              *)
ModerationKept ==
    [][\/ \A n \in Node : ModReadable(n)' =>
            \A h \in ModRecoverable(n) :
               \E g \in ModRecoverable(n)' : Prefix(h, g)
       \/ ModerationCrash]_allvars

(* Once no two nodes are on different branches, all can read what they     *)
(* have and only sessions change it, tombstones made on any node while     *)
(* roles change on another are on every node, whatever crashes came        *)
(* before.                                                                 *)
ModerationConverges ==
    /\ <>[](\A n, m \in Node : /\ ModReadable(n)
                               /\ ~Fork(n, history(m)) /\ ~ModFork(n, moderation(m)))
    /\ <>[][exchange' = exchange => UNCHANGED <<mods, modSaved>>]_allvars
    => <>[](\A n, m \in Node : moderation(n) = moderation(m))

(* Nodes whose policy has one editor at a time end up with one history, by *)
(* sessions that no moderation history which cannot be read ends early.    *)
HistoriesConverge ==
    <>[](\A n \in Node : ModReadable(n))
    => <>[](\A n, m \in Node : history(n) = history(m))
=============================================================================
