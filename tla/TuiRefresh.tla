------------------------------ MODULE TuiRefresh ------------------------------
(***************************************************************************)
(* What the terminal client shows, and when it reads it again.  The client *)
(* reads the parts of the selected channel one after the other, then takes *)
(* a fingerprint of the files (refresh); twice a second it compares the    *)
(* fingerprint with the files.  Meanwhile its own synchronisations, a      *)
(* local server and other processes write the files.                       *)
(*                                                                         *)
(* A file is the number of its changes.                                    *)
(***************************************************************************)
EXTENDS Integers, FiniteSets

CONSTANTS
    Channel,        \* numbered in the order of the list
    None,           \* no channel
    MaxWrites,      \* bound: changes of the files
    MaxFaults       \* bound: reads that fail

ASSUME TuiConstantsOK ==
    /\ Channel \subseteq Nat /\ IsFiniteSet(Channel)
    /\ None \notin Channel
    /\ MaxWrites \in Nat /\ MaxFaults \in Nat

VARIABLES
    disk,           \* per channel, its files
    listed,         \* list_readable_channels
    sealed,         \* channels with a message whose key is missing
    event,          \* what the background synchronisation has sent
    app,            \* App
    step,           \* where refresh is, and whether its failure ends the client
    typed,          \* history: the channel for which an input was opened
    astray,         \* history: the fingerprint was not of what is shown
    writes, faults  \* counted for the bounds

files == <<disk, listed, sealed, writes>>
rest == <<astray, faults>>
vars == <<disk, listed, sealed, event, app, step, typed, astray, writes, faults>>

File == {"log", "moderation", "policy", "conflicts"}
Part == {"messages", "role", "conflicts"}

(* What refresh reads of channel c.                                        *)
Content(c) == [messages |-> <<c, disk[c]["log"], disk[c]["moderation"]>>,
               role |-> <<c, disk[c]["policy"]>>,
               conflicts |-> <<c, disk[c]["conflicts"]>>]

Position(c, list) == Cardinality({d \in list : d < c})

(* App::channel                                                            *)
Selected(a) ==
    IF a.selected < Cardinality(a.channels)
    THEN CHOOSE c \in a.channels : Position(c, a.channels) = a.selected
    ELSE None

(* Mutant: tombstones are forgotten.                                       *)
local_state_fingerprint_untombed ==
    [channels |-> listed, selected |-> Selected(app),
     files |-> [f \in File \ {"moderation"} |->
                  IF Selected(app) = None THEN 0 ELSE disk[Selected(app)][f]]]

local_state_fingerprint ==
    [channels |-> listed, selected |-> Selected(app),
     files |-> [f \in File |->
                  IF Selected(app) = None THEN 0 ELSE disk[Selected(app)][f]]]

Idle == step.at = "idle"
Running == step.at # "quit"

(* The channel an input is for, until that channel leaves the list.        *)
Typed ==
    IF app'.mode = "normal" THEN None
    ELSE IF app.mode = "normal" THEN Selected(app)
    ELSE IF typed \in app'.channels THEN typed ELSE None

(* refresh begins, with a for the App.  Without a channel there is nothing *)
(* to read; the counts of conflicts stay.                                  *)
Refresh(a, fatal) ==
    IF Selected(a) = None
    THEN /\ app' = [a EXCEPT !.view = [@ EXCEPT !["messages"] = <<None>>,
                                                !["role"] = <<None>>]]
         /\ step' = [at |-> "fingerprint", fatal |-> fatal]
    ELSE /\ app' = a
         /\ step' = [at |-> "messages", fatal |-> fatal]

Begin(a, fatal) == Refresh(a, fatal) /\ typed' = Typed

(* App::load, which ends with a refresh.                                   *)
Init ==
    /\ disk = [c \in Channel |-> [f \in File |-> 0]]
    /\ listed \in SUBSET Channel
    /\ sealed = {}
    /\ event = "none"
    /\ app = [channels |-> listed, selected |-> 0, mode |-> "normal",
              view |-> [p \in Part |-> <<None>>], fingerprint |-> None]
    /\ step = [at |-> IF listed = {} THEN "fingerprint" ELSE "messages",
               fatal |-> TRUE]
    /\ typed = None
    /\ astray = FALSE
    /\ writes = 0 /\ faults = 0

-----------------------------------------------------------------------------
(* refresh                                                                 *)

After == [messages |-> "role", role |-> "conflicts", conflicts |-> "fingerprint"]

Read(p) ==
    /\ step.at = p
    /\ p = "messages" => Selected(app) \notin sealed
    /\ app' = [app EXCEPT !.view[p] = Content(Selected(app))[p]]
    /\ step' = [step EXCEPT !.at = After[p]]
    /\ UNCHANGED <<files, event, typed, rest>>

(* The list is what is listed, and the selected channel what is in its     *)
(* files; one is selected, if any is listed.                               *)
Shown ==
    /\ app.channels = listed
    /\ IF Selected(app) = None THEN listed = {}
       ELSE app.view = Content(Selected(app))

TakeFingerprint ==
    /\ step.at = "fingerprint"
    /\ app' = [app EXCEPT !.fingerprint = local_state_fingerprint]
    /\ step' = [step EXCEPT !.at = "idle"]
    /\ astray' = ~Shown
    /\ UNCHANGED <<files, event, typed, faults>>

(* A message cannot be decrypted; or any read fails.  In a handler of a    *)
(* key, and in load, the error ends the client; else it is reported, and   *)
(* the fingerprint from before stays.                                      *)
Fail ==
    /\ step.at \in Part \cup {"fingerprint"}
    /\ \/ step.at = "messages" /\ Selected(app) \in sealed /\ UNCHANGED faults
       \/ faults < MaxFaults /\ faults' = faults + 1
    /\ step' = [step EXCEPT !.at = IF step.fatal THEN "quit" ELSE "idle"]
    /\ astray' = (astray \/ (~step.fatal /\ app.channels # app.fingerprint.channels))
    /\ UNCHANGED <<files, event, app, typed>>

-----------------------------------------------------------------------------
(* run_loop: events first, then the poll, then one key.                    *)

(* Mutant: the index is kept.                                              *)
Follow_index(a, list, otherwise) == [a EXCEPT !.channels = list]

(* The selected channel stays selected where it is still listed.           *)
Follow(a, list, otherwise) ==
    [a EXCEPT !.channels = list,
              !.selected = IF Selected(a) \in list THEN Position(Selected(a), list)
                           ELSE otherwise]

Clamp(i, list) ==
    IF i < Cardinality(list) THEN i
    ELSE IF list = {} THEN 0 ELSE Cardinality(list) - 1

(* apply_auto_sync                                                         *)
ApplyEvent ==
    /\ Idle /\ event # "none"
    /\ event' = "none"
    /\ IF listed # app.channels \/ event = "received"
       THEN Begin(Follow(app, listed, app.selected), FALSE)
       ELSE UNCHANGED <<app, step, typed>>
    /\ UNCHANGED <<files, rest>>

(* The list cannot be read: the event is gone.                             *)
LoseEvent ==
    /\ Idle /\ event # "none"
    /\ faults < MaxFaults /\ faults' = faults + 1
    /\ event' = "none"
    /\ UNCHANGED <<files, app, step, typed, astray>>

(* refresh_if_local_state_changed                                          *)
Poll ==
    /\ Idle /\ event = "none"
    /\ local_state_fingerprint # app.fingerprint
    /\ Begin(Follow(app, listed, Clamp(app.selected, listed)), FALSE)
    /\ UNCHANGED <<files, event, rest>>

(* handle_key                                                              *)
Key(mode) == Idle /\ event = "none" /\ app.mode = mode

Up ==
    /\ Key("normal") /\ app.selected > 0
    /\ Begin([app EXCEPT !.selected = @ - 1], TRUE)
    /\ UNCHANGED <<files, event, rest>>

(* Mutant: off by one.                                                     *)
Down_past ==
    /\ Key("normal") /\ app.selected < Cardinality(app.channels)
    /\ Begin([app EXCEPT !.selected = @ + 1], TRUE)
    /\ UNCHANGED <<files, event, rest>>

Down ==
    /\ Key("normal") /\ app.selected + 1 < Cardinality(app.channels)
    /\ Begin([app EXCEPT !.selected = @ + 1], TRUE)
    /\ UNCHANGED <<files, event, rest>>

(* Key a: the list is not read again.                                      *)
ToggleAudit ==
    /\ Key("normal")
    /\ Begin(app, TRUE)
    /\ UNCHANGED <<files, event, rest>>

(* Key r.                                                                  *)
ManualRefresh ==
    /\ Key("normal")
    /\ Begin([app EXCEPT !.channels = listed, !.selected = Clamp(@, listed)], TRUE)
    /\ UNCHANGED <<files, event, rest>>

OpenInput ==
    /\ Key("normal") /\ Selected(app) # None
    /\ \E mode \in {"post", "peer"} : app' = [app EXCEPT !.mode = mode]
    /\ typed' = Selected(app)
    /\ UNCHANGED <<files, event, step, rest>>

(* Esc, an empty input, or a message that is refused.                      *)
CloseInput ==
    /\ Key("post") \/ Key("peer")
    /\ app' = [app EXCEPT !.mode = "normal"] /\ typed' = None
    /\ UNCHANGED <<files, event, step, rest>>

Changed(c, f) == [disk EXCEPT ![c][f] = @ + 1]

(* apply: the message is appended to the channel that is selected now.     *)
Post ==
    /\ Key("post") /\ Selected(app) # None
    /\ writes < MaxWrites
    /\ disk' = Changed(Selected(app), "log")
    /\ writes' = writes + 1
    /\ Begin([app EXCEPT !.mode = "normal"], FALSE)
    /\ UNCHANGED <<listed, sealed, event, rest>>

(* The session of a peer that was typed runs in the background; no channel *)
(* or an invalid URL ends the client.                                      *)
SyncWith ==
    /\ Key("peer")
    /\ app' = [app EXCEPT !.mode = "normal"] /\ typed' = None
    /\ \/ Selected(app) # None /\ UNCHANGED step
       \/ step' = [step EXCEPT !.at = "quit"]
    /\ UNCHANGED <<files, event, rest>>

(* Key q or a signal.                                                      *)
Quit ==
    /\ Idle
    /\ step' = [step EXCEPT !.at = "quit"]
    /\ UNCHANGED <<files, event, app, typed, rest>>

-----------------------------------------------------------------------------
(* Other tasks and processes.  A change of the policy may admit the user   *)
(* or not; a message may come before its key.                              *)
Write(c, f) ==
    /\ Running
    /\ writes < MaxWrites
    /\ disk' = Changed(c, f)
    /\ writes' = writes + 1
    /\ listed' \in IF f = "policy" THEN {listed \cup {c}, listed \ {c}} ELSE {listed}
    /\ sealed' \in IF f = "log" THEN {sealed, sealed \cup {c}} ELSE {sealed}
    /\ UNCHANGED <<event, app, step, typed, rest>>

KeyArrives(c) ==
    /\ Running
    /\ c \in sealed
    /\ sealed' = sealed \ {c}
    /\ UNCHANGED <<disk, listed, writes, event, app, step, typed, rest>>

SendEvent ==
    /\ Running
    /\ event = "none"
    /\ event' \in {"received", "nothing"}
    /\ UNCHANGED <<files, app, step, typed, rest>>

Refreshing == (\E p \in Part : Read(p)) \/ TakeFingerprint \/ Fail

Handle ==
    \/ Up \/ Down \/ ToggleAudit \/ ManualRefresh
    \/ OpenInput \/ CloseInput \/ Post \/ SyncWith \/ Quit

Others ==
    \/ \E c \in Channel : (\E f \in File : Write(c, f)) \/ KeyArrives(c)
    \/ SendEvent

Next == Refreshing \/ ApplyEvent \/ LoseEvent \/ Poll \/ Handle \/ Others

Spec == Init /\ [][Next]_vars

(* The client waits for a key a tenth of a second at most, and polls twice *)
(* a second.                                                               *)
Fairness == WF_vars(Refreshing) /\ SF_vars(ApplyEvent \/ LoseEvent) /\ SF_vars(Poll)

FairSpec == Spec /\ Fairness
-----------------------------------------------------------------------------
TypeOK ==
    /\ disk \in [Channel -> [File -> 0..MaxWrites]]
    /\ listed \cup sealed \cup app.channels \subseteq Channel
    /\ event \in {"none", "received", "nothing"}
    /\ app.selected \in {0} \cup 1..(Cardinality(Channel) - 1)
    /\ app.mode \in {"normal", "post", "peer"}
    /\ DOMAIN app.view = Part
    /\ step.at \in Part \cup {"idle", "fingerprint", "quit"}
    /\ typed \in Channel \cup {None}
    /\ faults \in 0..MaxFaults

(* Whatever the list does between two keys, an input goes to the channel   *)
(* for which it was opened, unless that channel has left the list.         *)
InputStays == typed # None => Selected(app) = typed

(* A poll that finds the fingerprint as it was hides nothing: whatever     *)
(* changed, or was half read when a refresh failed, what is shown is what  *)
(* is in the files, unless the client has lost track.                      *)
UnchangedIsShown ==
    Idle /\ ~astray /\ app.fingerprint = local_state_fingerprint => Shown

(* ADR-011: "Local changes appear without a manual refresh".  A change is  *)
(* shown in the end, after any failures to read it, or the client has lost *)
(* track: its fingerprint was of something else than what it shows, and    *)
(* the files are again, or still, as they were.                            *)
LocalChangesAppear ==
    <>[](sealed = {}) =>
       []<>(\/ Shown \/ step.at = "quit"
            \/ astray /\ app.fingerprint = local_state_fingerprint)
=============================================================================
