-------------------------------- MODULE Peers --------------------------------
(***************************************************************************)
(* peers.json: commands that read it, change the list and replace it, each *)
(* in a process of its own, under the lock of peers.lock.  Readers take no *)
(* lock: they see the file before or after the rename.                     *)
(***************************************************************************)
CONSTANTS
    Url,            \* normalized peer URLs
    Spelling,       \* what users type
    normalize_peer_url,
    Key,            \* identities
    Absent,         \* no record
    Unpinned,       \* a record without an identity
    Process,        \* processes that run commands
    Commands,       \* the commands they run
    Idle            \* no command

Record == Key \cup {Absent, Unpinned}

(* peer-add names a key; adding from the terminal client does not.         *)
Add(url, key) == [op |-> "add", url |-> url, key |-> key]
Remove(url) == [op |-> "remove", url |-> url, key |-> Unpinned]

Command == {Add(s, k) : s \in Spelling, k \in Key \cup {Unpinned}}
             \cup {Remove(s) : s \in Spelling}

ASSUME PeersConstantsOK ==
    /\ normalize_peer_url \in [Spelling -> Url]
    /\ Commands \subseteq Command
    /\ Absent \notin Key /\ Unpinned \notin Key /\ Absent # Unpinned
    /\ Idle \notin Command

VARIABLES
    peers,          \* peers.json, as list_peer_records returns it
    running         \* per process, its command and the list it has read

peersVars == <<peers, running>>

PeersInit ==
    /\ peers \in [Url -> Record]
    /\ running = [p \in Process |-> Idle]

Target(c) == normalize_peer_url[c.url]

(* "peer is already pinned; remove it before trusting a new identity"      *)
Conflict(list, c) ==
    c.op = "add" /\ c.key \in Key /\ list[Target(c)] \in Key \ {c.key}

Changed(list, c) ==
    [list EXCEPT ![Target(c)] =
        IF c.op = "remove" THEN Absent
        ELSE IF c.key \in Key THEN c.key
        ELSE IF @ = Absent THEN Unpinned
        ELSE @]

(* Mutant: the lock is not taken.                                          *)
LockFree_always == TRUE

LockFree == \A p \in Process : running[p] = Idle

(* add_peer and remove_peer: lock_config waits for the lock, and the list  *)
(* is read under it.                                                       *)
Begin(p, c) ==
    /\ running[p] = Idle
    /\ LockFree
    /\ running' = [running EXCEPT ![p] = [command |-> c, list |-> peers]]
    /\ UNCHANGED peers

(* write_peers replaces the file by rename; the lock goes with the return. *)
write_peers(p) ==
    /\ running[p] # Idle
    /\ ~Conflict(running[p].list, running[p].command)
    /\ peers' = Changed(running[p].list, running[p].command)
    /\ running' = [running EXCEPT ![p] = Idle]

(* The command fails, or its process is killed before the rename; its      *)
(* temporary file stays.                                                   *)
GiveUp(p) ==
    /\ running[p] # Idle
    /\ running' = [running EXCEPT ![p] = Idle]
    /\ UNCHANGED peers

PeersNext ==
    \E p \in Process :
       \/ \E c \in Commands : Begin(p, c)
       \/ write_peers(p)
       \/ GiveUp(p)

PeersSpec == PeersInit /\ [][PeersNext]_peersVars

(* expected_peer_key: an unsaved URL has no expected key, a record without *)
(* one is an error.                                                        *)
expected_peer_key(u) ==
    IF peers[u] = Absent THEN [ok |-> TRUE, key |-> Absent]
    ELSE [ok |-> peers[u] # Unpinned, key |-> peers[u]]

-----------------------------------------------------------------------------
Running == [command : Commands, list : [Url -> Record]]

PeersTypeOK ==
    /\ peers \in [Url -> Record]
    /\ running \in [Process -> Running \cup {Idle}]

(* The lock of peers.lock: one process at most has it, and what it has     *)
(* read is still in the file.                                              *)
ReadIsCurrent ==
    \A p \in Process : running[p] # Idle =>
       /\ running[p].list = peers
       /\ \A q \in Process \ {p} : running[q] = Idle

(* ADR-016: "Changing a pin requires removing the peer and adding it       *)
(* again".  Whatever processes change the list at once, each of its        *)
(* changes is one that PinBook allows, and none is lost.                   *)
Book == INSTANCE PinBook

BookSpec == Book!Spec
=============================================================================
