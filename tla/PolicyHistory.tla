---------------------------- MODULE PolicyHistory ----------------------------
(***************************************************************************)
(* policy.ndjson, policy.json and policy-conflicts/ of one channel on      *)
(* several nodes, and the exchange of histories at the start of a sync.    *)
(*                                                                         *)
(* Each node signs with its own identity.  An operation on the files of a  *)
(* node holds the locks of log.ndjson and policy.lock from its first read  *)
(* to its last write, so it is one action; what a crash leaves of its      *)
(* writes is the subject of the actions named Crash...                     *)
(***************************************************************************)
EXTENDS PolicyChain

CONSTANTS
    Node,           \* the nodes that hold the channel
    IdentityOf,     \* the identity of a node
    Edits,          \* the events operators try to make
    Dials,          \* the pairs <<client, server>> that synchronise
    Legacy,         \* per node, its policy.json from before signed histories
    NoPolicy,       \* no policy.json
    MaxEvents,      \* bound: events in a history
    MaxInFlight     \* bound: frames under way

ASSUME HistoryConstantsOK ==
    /\ IdentityOf \in [Node -> Identity]
    /\ Edits \subseteq PolicyEvent
    /\ Legacy \in [Node -> Policy \cup {NoPolicy}]
    /\ Dials \subseteq Node \X Node
    /\ MaxEvents \in Nat /\ MaxInFlight \in Nat

VARIABLES
    file,           \* policy.ndjson of each node
    cache,          \* policy.json of each node
    saved,          \* per node, the whole files in policy-conflicts/, by head
    net             \* frames between nodes

vars == <<file, cache, saved, net>>

-----------------------------------------------------------------------------
(* The file: the complete JSON lines, and what follows the last newline:   *)
(* nothing, a whole event ("open"), or anything that is not one ("bad").   *)

NoFile == [exists |-> FALSE, events |-> << >>, tail |-> "clean"]

Readable(n) == file[n].tail # "bad"

history(n) == file[n].events

(* Mutant: a file that is created is not yet taken for one.                *)
AppendTo_absent(f, evs) ==
    [exists |-> f.exists,
     events |-> f.events \o evs,
     tail   |-> IF f.tail = "open" /\ evs # << >> THEN "bad" ELSE f.tail]

(* Appending to a file whose last event has no newline puts two events on  *)
(* one line, which is no event.                                            *)
AppendTo(f, evs) ==
    [exists |-> TRUE,
     events |-> f.events \o evs,
     tail   |-> IF f.tail = "open" /\ evs # << >> THEN "bad" ELSE f.tail]

(* What a crash leaves of it: the file created, k whole lines, and maybe   *)
(* part of the next one.                                                   *)
PartsOf(f, evs) ==
    {AppendTo(f, << >>)}
    \cup {[AppendTo(f, SubSeq(evs, 1, k)) EXCEPT
             !.tail = IF @ = "bad" THEN @ ELSE t] :
             k \in 1..Len(evs), t \in {"clean", "open"}}
    \cup {[AppendTo(f, SubSeq(evs, 1, k)) EXCEPT !.tail = "bad"] :
             k \in 0..(Len(evs) - 1)}

(* read_channel_policy: the cache counts only while there is no history    *)
(* file.                                                                   *)
policy(n) ==
    IF file[n].exists THEN derive_policy(history(n))
    ELSE IF cache[n] = NoPolicy THEN DefaultPolicy
    ELSE cache[n]

write_policy_cache(n, p) == cache' = [cache EXCEPT ![n] = p]

Init ==
    /\ file = [n \in Node |-> NoFile]
    /\ cache = Legacy
    /\ saved = [n \in Node |-> {}]
    /\ net = {}

-----------------------------------------------------------------------------
(* Local changes.                                                          *)

(* What append_policy_action will write: a legacy policy is adopted first, *)
(* by its owner only.                                                      *)
NeedsAdoption(n) ==
    history(n) = << >> /\ cache[n] # NoPolicy /\ cache[n].mode = "restricted"

NewEvents(n, action) ==
    (IF NeedsAdoption(n) THEN <<Event(IdentityOf[n], Adopt(cache[n]))>> ELSE << >>)
        \o <<Event(IdentityOf[n], action)>>

(* Mutant: the change is checked against the cache, not by a replay.       *)
MayChange_by_cache(n, action) ==
    /\ Event(IdentityOf[n], action) \in Edits
    /\ Readable(n)
    /\ accepts(IF cache[n] = NoPolicy THEN DefaultPolicy ELSE cache[n],
               IdentityOf[n], action)
    /\ Len(history(n)) < MaxEvents

(* The checks that come before the first write.                            *)
MayChange(n, action) ==
    /\ Event(IdentityOf[n], action) \in Edits
    /\ Readable(n)
    /\ Len(history(n) \o NewEvents(n, action)) <= MaxEvents
    /\ NeedsAdoption(n) => cache[n].owner = IdentityOf[n]
    /\ ValidHistory(history(n) \o NewEvents(n, action))

append_policy_action(n, action) ==
    /\ MayChange(n, action)
    /\ file' = [file EXCEPT ![n] = AppendTo(@, NewEvents(n, action))]
    /\ write_policy_cache(n, derive_policy(history(n) \o NewEvents(n, action)))
    /\ UNCHANGED <<saved, net>>

CrashInAppend(n, action) ==
    /\ MayChange(n, action)
    /\ \E f \in PartsOf(file[n], NewEvents(n, action)) :
         file' = [file EXCEPT ![n] = f]
    /\ UNCHANGED <<cache, saved, net>>

rebuild_policy_cache(n) ==
    /\ Readable(n)
    /\ write_policy_cache(n, derive_policy(history(n)))
    /\ UNCHANGED <<file, saved, net>>

-----------------------------------------------------------------------------
(* Remote histories.                                                       *)

(* Mutant: the arguments of the prefix test are swapped.                   *)
Extends_swapped(n, remote) == Readable(n) /\ Prefix(remote, history(n))

(* append_remote_policy_history returns Ok.                                *)
Extends(n, remote) == Readable(n) /\ Prefix(history(n), remote)

(* Mutant: the first event that is new is left out.                        *)
Suffix_short(n, remote) == SubSeq(remote, Len(history(n)) + 2, Len(remote))

Suffix(n, remote) == SubSeq(remote, Len(history(n)) + 1, Len(remote))

append_remote_policy_history(n, remote) ==
    /\ Extends(n, remote)
    /\ file' = IF Suffix(n, remote) = << >> THEN file
               ELSE [file EXCEPT ![n] = AppendTo(@, Suffix(n, remote))]
    /\ write_policy_cache(n, derive_policy(remote))

save_policy_conflict(n, h) == saved' = [saved EXCEPT ![n] = @ \cup {h}]

Frame(kind, from, to, h) == [kind |-> kind, from |-> from, to |-> to, events |-> h]

Fork(n, h) == ~Prefix(history(n), h) /\ ~Prefix(h, history(n))

(* A client sends its status with the history it has read.                 *)
SendStatus(n, m) ==
    /\ Readable(n)
    /\ Cardinality(net) < MaxInFlight
    /\ net' = net \cup {Frame("status", n, m, history(n))}
    /\ UNCHANGED <<file, cache, saved>>

(* The session ends, or the frame is lost with its connection.             *)
Drop(f) ==
    /\ f \in net
    /\ net' = net \ {f}
    /\ UNCHANGED <<file, cache, saved>>

(* run_sync refuses: the server cannot read its history, or the requester  *)
(* is not a member.                                                        *)
RefuseStatus(f) ==
    /\ f \in net /\ f.kind = "status"
    /\ ~Readable(f.to) \/ ~policy_allows_read(policy(f.to), IdentityOf[f.from])
    /\ net' = net \ {f}
    /\ UNCHANGED <<file, cache, saved>>

Admitted(f) ==
    /\ f \in net /\ f.kind = "status"
    /\ Readable(f.to)
    /\ policy_allows_read(policy(f.to), IdentityOf[f.from])

(* Mutant: the branches are swapped.                                       *)
ServerFork_swapped(f) ==
    /\ Admitted(f)
    /\ Fork(f.to, f.events)
    /\ history(f.to) # << >>
    /\ save_policy_conflict(f.to, history(f.to))
    /\ net' = (net \ {f}) \cup {Frame("conflict", f.to, f.from, f.events)}
    /\ UNCHANGED <<file, cache>>

(* run_sync finds a fork: it keeps the client's branch and sends its own.  *)
ServerFork(f) ==
    /\ Admitted(f)
    /\ Fork(f.to, f.events)
    /\ save_policy_conflict(f.to, f.events)
    /\ net' = (net \ {f}) \cup {Frame("conflict", f.to, f.from, history(f.to))}
    /\ UNCHANGED <<file, cache>>

(* run_sync takes what the client has more, checks the membership again    *)
(* under the new policy, and answers with what it now has.                 *)
ServerReconcile(f) ==
    /\ Admitted(f)
    /\ ~Fork(f.to, f.events)
    /\ IF Prefix(history(f.to), f.events) /\ Len(f.events) > Len(history(f.to))
       THEN /\ append_remote_policy_history(f.to, f.events)
            /\ net' = IF policy_allows_read(derive_policy(f.events), IdentityOf[f.from])
                      THEN (net \ {f}) \cup {Frame("update", f.to, f.from, f.events)}
                      ELSE net \ {f}
       ELSE /\ net' = (net \ {f}) \cup {Frame("update", f.to, f.from, history(f.to))}
            /\ UNCHANGED <<file, cache>>
    /\ UNCHANGED saved

(* The client's policy_sync handler.                                       *)
ClientConflict(f) ==
    /\ f \in net /\ f.kind = "conflict"
    /\ f.events # << >>
    /\ save_policy_conflict(f.to, f.events)
    /\ net' = net \ {f}
    /\ UNCHANGED <<file, cache>>

ClientUpdate(f) ==
    /\ f \in net /\ f.kind = "update"
    /\ append_remote_policy_history(f.to, f.events)
    /\ net' = net \ {f}
    /\ UNCHANGED saved

(* "remote policy history does not extend the local history", or the local *)
(* one cannot be read: the session fails.                                  *)
RefuseUpdate(f) ==
    /\ f \in net /\ f.kind = "update"
    /\ ~Extends(f.to, f.events)
    /\ net' = net \ {f}
    /\ UNCHANGED <<file, cache, saved>>

CrashInUpdate(f) ==
    /\ f \in net /\ f.kind \in {"status", "update"}
    /\ f.kind = "status" => Admitted(f)
    /\ Extends(f.to, f.events) /\ Suffix(f.to, f.events) # << >>
    /\ \E x \in PartsOf(file[f.to], Suffix(f.to, f.events)) :
         file' = [file EXCEPT ![f.to] = x]
    /\ net' = net \ {f}
    /\ UNCHANGED <<cache, saved>>

(* save_policy_conflict writes the file in place: a crash leaves it short, *)
(* also when it was whole before.                                          *)
CrashInSave(f) ==
    /\ f \in net
    /\ \/ f.kind = "status" /\ Admitted(f) /\ Fork(f.to, f.events)
       \/ f.kind = "conflict" /\ f.events # << >>
    /\ saved' = [saved EXCEPT ![f.to] = @ \ {f.events}]
    /\ net' = net \ {f}
    /\ UNCHANGED <<file, cache>>

-----------------------------------------------------------------------------
(* Forks.                                                                  *)

(* Mutant: the current branch is overwritten.                              *)
Displaced_nothing(n, h) == {}

(* The operator of n selects a saved branch; the current one takes its     *)
(* place among the saved ones.                                             *)
Displaced(n, h) ==
    IF history(n) # << >> /\ history(n) # h THEN {history(n)} ELSE {}

resolve_policy_conflict(n, h) ==
    /\ h \in saved[n]
    /\ Readable(n)
    /\ saved' = [saved EXCEPT ![n] = @ \cup Displaced(n, h)]
    /\ file' = [file EXCEPT ![n] =
                 [exists |-> TRUE, events |-> h, tail |-> "clean"]]
    /\ write_policy_cache(n, derive_policy(h))
    /\ UNCHANGED net

(* A crash before the rename that installs the branch: the displaced one   *)
(* is saved, or its file was being written, but remains current.           *)
CrashInResolve(n, h) ==
    /\ h \in saved[n]
    /\ Readable(n)
    /\ \/ saved' = [saved EXCEPT ![n] = @ \cup Displaced(n, h)]
       \/ saved' = [saved EXCEPT ![n] = @ \ Displaced(n, h)]
    /\ UNCHANGED <<file, cache, net>>

-----------------------------------------------------------------------------
Actions == {e.action : e \in Edits}

Receive(f) ==
    \/ RefuseStatus(f) \/ ServerFork(f) \/ ServerReconcile(f)
    \/ ClientConflict(f) \/ ClientUpdate(f) \/ RefuseUpdate(f)

Next ==
    \/ \E n \in Node, a \in Actions : append_policy_action(n, a)
    \/ \E n \in Node : rebuild_policy_cache(n)
    \/ \E d \in Dials : SendStatus(d[1], d[2])
    \/ \E f \in net : Receive(f) \/ Drop(f)
    \/ \E n \in Node : \E h \in saved[n] : resolve_policy_conflict(n, h)

Crash ==
    \/ \E n \in Node, a \in Actions : CrashInAppend(n, a)
    \/ \E f \in net : CrashInUpdate(f) \/ CrashInSave(f)
    \/ \E n \in Node : \E h \in saved[n] : CrashInResolve(n, h)

Spec == Init /\ [][Next]_vars

CrashSpec == Init /\ [][Next \/ Crash]_vars

(* auto_sync_worker retries every saved peer every three seconds; frames   *)
(* may be lost, but not every time.                                        *)
ReceiveFrom(n, m, kinds) ==
    \E f \in net : f.from = n /\ f.to = m /\ f.kind \in kinds /\ Receive(f)

Fairness ==
    \A d \in Dials :
       /\ SF_vars(SendStatus(d[1], d[2]))
       /\ SF_vars(ReceiveFrom(d[1], d[2], {"status"}))
       /\ SF_vars(ReceiveFrom(d[2], d[1], {"update", "conflict"}))

FairSpec == CrashSpec /\ Fairness

-----------------------------------------------------------------------------
IsHistory(h) == h \in Seq(PolicyEvent) /\ Len(h) <= MaxEvents

TypeOK ==
    /\ \A n \in Node :
         /\ file[n].exists \in BOOLEAN
         /\ IsHistory(history(n))
         /\ file[n].tail \in {"clean", "open", "bad"}
         /\ ~file[n].exists => file[n] = NoFile
         /\ cache[n] \in Policy \cup {NoPolicy}
         /\ \A h \in saved[n] : IsHistory(h) /\ h # << >>
    /\ \A f \in net : /\ f.kind \in {"status", "update", "conflict"}
                      /\ {f.from, f.to} \subseteq Node
                      /\ IsHistory(f.events)

(* Whatever was appended, taken from a peer, saved, selected or left by a  *)
(* crash: a history that can be read replays, and so does every saved      *)
(* branch (derive_policy runs on every read).                              *)
HistoriesReplay ==
    \A n \in Node : /\ Readable(n) => ValidHistory(history(n))
                   /\ \A h \in saved[n] : ValidHistory(h)

(* A node that has seen the channel restricted never again lets everybody  *)
(* write: not by a shorter history, a selected branch, a rewritten cache,  *)
(* or a crash.                                                             *)
RestrictedStays ==
    [][\A n \in Node :
         Readable(n) /\ policy(n).mode = "restricted" =>
            ~Readable(n)' \/ policy(n)'.mode = "restricted"]_vars

Recoverable(n) == saved[n] \cup (IF Readable(n) THEN {history(n)} ELSE {})

(* ADR-015: "both valid branches remain recoverable".  What a node had as  *)
(* its history or as a saved branch is, after any step that is not a       *)
(* crash, still the start of one of them, while its file can be read.      *)
BranchesKept ==
    [][~Crash => \A n \in Node : Readable(n)' =>
         \A h \in Recoverable(n) : \E g \in Recoverable(n)' : Prefix(h, g)]_vars

(* Without crashes, sessions only carry histories from nodes that hold     *)
(* them, however long a frame was under way and whatever was selected      *)
(* meanwhile: SharedHistory.                                               *)
Shared == INSTANCE SharedHistory WITH
    Start <- [n \in Node |-> << >>], Replays <- ValidHistory,
    branch <- [n \in Node |-> history(n)]

SharedSpec == Shared!Spec

Admits(n, m) == policy_allows_read(policy(n), IdentityOf[m])

(* ADR-008: "Each peer stores the other valid chain": two nodes left on    *)
(* different branches each come to have the other's, whatever crashes came *)
(* before, if the server admits the client at all.                         *)
ForksSurface ==
    \A d \in Dials :
       /\ <>[](/\ Fork(d[1], history(d[2]))
              /\ Readable(d[1]) /\ Readable(d[2])
              /\ Admits(d[2], d[1]))
       /\ <>[][file' = file /\ ~Crash]_vars
       => <>[](/\ history(d[2]) \in saved[d[1]]
               /\ history(d[1]) \in saved[d[2]])

-----------------------------------------------------------------------------
(* What the documents say and the code does not do.                        *)

(* ADR-007: policy history is "reconstructable".  An append that succeeds  *)
(* leaves a history that can be read.                                      *)
OkIsReadable ==
    [][\A n \in Node : cache'[n] # cache[n] => Readable(n)']_vars

(* protocol.md: "Legacy restricted policies require a signed adoption      *)
(* event from their existing owner".  Until there is one, the policy in    *)
(* policy.json stays in force in every step of a synchronisation.          *)
LegacyKept ==
    [][net' # net => \A n \in Node :
         /\ ~file[n].exists
         /\ cache[n] # NoPolicy
         /\ cache[n].mode = "restricted"
         => \/ policy(n)' = policy(n)
            \/ /\ history(n)' # << >>
               /\ history(n)'[1].actor = cache[n].owner]_vars
=============================================================================
