# EmberNet in TLA+

EmberNet is a peer-to-peer message board: every node keeps each of its channels
in a directory of plain files, signs what it writes, and synchronises channels
with the peers it knows over WebSocket.  These modules model its storage and its
synchronisation protocol; TLC checks them on small instances and TLAPS proves
theorems about the core.  Paths below are relative to the repository.

## The system

### Components

| Component | State | Operations | Here |
|---|---|---|---|
| Channel log and message index (`src/store.rs`) | `log.ndjson`, `index.redb` | `append_message`, `read_channel_tail_with_options`, `read_message_by_id`, `chunk_summaries`, `chunk_ids`, `ensure_index` / `rebuild_index` | `ChannelLog`, `DedupLog` |
| Channel policy (`src/store.rs`) | `policy.ndjson` (signed events), `policy.json` (cache), `policy-conflicts/` | `append_policy_action` and its wrappers, `rebuild_policy_cache`, `append_remote_policy_history`, `save_policy_conflict`, `resolve_policy_conflict` | `PolicyChain`, `PolicyHistory` |
| Moderation (`src/store.rs`) | `moderation.ndjson`, `moderation-conflicts/` | `append_moderation_action`, `append_remote_moderation_history`, `save_moderation_conflict`, `resolve_moderation_conflict` | `Moderation` |
| Synchronisation of a channel (`src/sync.rs`) | one session per connection: what each end has sent and expects | `run_sync` (server), `sync_from_peer_inner` (client) | `PolicyHistory`, `Moderation`, `KeyRing`, `SyncSession` |
| Background synchronisation (`src/tui.rs`, `src/sync.rs`) | the peers and channels to visit | `auto_sync_worker`, `sync_all_from_peer`, discovery | `BackgroundSync` |
| Channel keys (`src/crypto.rs`, `src/store.rs`) | `channel-keys.json` | `generate_channel_key`, `make_key_offers`, `accept_key_offers`, encrypt, decrypt; the policy changes that rotate the key | `KeyRing` |
| HTTP and WebSocket server (`src/server.rs`) | table of discovery challenges | issue, consume, route | `Discovery` (the table); `/sync` is the server's end in the sync modules |
| Peer configuration (`src/peers.rs`) | `peers.json`, pinned identities | add, list, pin | `Peers`, `PinBook` |
| Terminal interface (`src/tui.rs`) | what is displayed and the fingerprint it came from | refresh, poll, apply events, select, type, post | `TuiRefresh` |
| Envelopes, identities (`src/proto.rs`) | none | sign, verify, hash | ideal: only what verifies is represented |
| Command line, MCP server (`src/main.rs`, `src/mcp.rs`) | none | one storage operation per command or call | not modelled |
| Paths (`src/util.rs`) | none | join, create directories | not modelled |

### How they interact

The command line, the MCP server, the terminal interface and every sync session
are separate processes or tokio tasks that share the files of a channel.  They
are kept apart by advisory locks: every append and every indexed read takes the
exclusive lock of `log.ndjson`; policy and moderation operations take it too,
and then the lock of their own history (`policy.lock`, `moderation.lock`).  No
state is kept in memory between operations: each reads the files, replays the
signed histories, checks and writes.

A sync session compares the policy histories first (equal, one a prefix of the
other, or a fork), then the moderation histories, then exchanges keys, and last
compares per-bucket hashes of the message ids, exchanges the ids of the buckets
that differ, streams the envelopes the client lacks and collects those the
server lacks.  The two ends read local state at different moments of the
session, while local operations and other sessions go on.

In the terminal client `auto_sync_worker` is a task of its own: every three seconds it
reads `peers.json`, asks each peer for a challenge, discovers its channels with the
signed answer, and synchronises them one after the other.  It reports to the loop of
the interface by events; the interface also polls a fingerprint of the files twice a
second, for commands and the local server write them too.

### What is hard, and what must hold

* *The log and its index.*  Processes race to append the same envelope; a kill
  or power loss falls between write, `sync_data` and the commit of the index; a
  stale index is recognised by the length of the file only.  No id may be in the
  log twice, an index that looks fresh must be exact, what was acknowledged must
  survive, and no author may write after losing the right.
* *Signed histories.*  Operators change policies apart from each other; nodes
  then hold prefixes, extensions or forks, and see stale statuses.  Whatever a
  node takes, saves or selects must replay; neither branch of a fork may be
  lost; both sides must come to hold both; a restricted channel must stay so.
* *Moderation over policy.*  An event is replayed against whatever policy history
  the node has at that moment.  A node must always be able to replay what it
  has, or it can neither read nor synchronise the channel.
* *Sessions.*  Both logs grow while they are compared; both ends may send at
  once; connections fail and are retried.  A session that reports success must
  have transferred everything; neither end may wait for a frame that will not
  come; retries must converge.

* *Keys.*  A rotation and the exchanges of several sessions rewrite one keyring;
  a key is generated before the change that calls for it is in the history, two
  nodes may encrypt with different keys, and a message may come before its key,
  which makes the decrypted tail of the whole channel fail.  No key may be lost, an
  exchange must be complete, and lasting members must come to read everything.
* *The worker and its peers.*  The list of peers, a peer's record and a challenge are
  read at three moments of a round, while commands change the list, others use up the
  responder's table and time passes on two clocks.  No command may lose another's
  change, a pin must hold whenever something is signed or exchanged, a challenge must
  be good for as long as it said, and no failing peer may keep another from its turn.
* *The interface.*  The parts of a channel and the fingerprint are read one after the
  other from files that change in between, and the list of channels changes under an
  index and under an input.  What is written must be shown in the end, and what is
  typed must go where it was meant to.

`PROJECT.json` lists each hazard at its line with the properties that cover it.

## The modules

| Module | What it is |
|---|---|
| `DedupLog` | What the log promises: an append-only list without duplicates that may lose unacknowledged tails, and what each kind of read returns |
| `ChannelLog` | The log, the index, the lock, and every operation as the steps between which a process can be killed |
| `ChannelLogProofs` | Theorems about `ChannelLog` |
| `PolicyChain` | The policy as a function of its signed history: authorisation and effect of each action, replay, prefixes |
| `PolicyChainProofs` | Theorems about a replay, by induction over the events |
| `SharedHistory` | What synchronisation promises about signed histories: a node goes on by events it signs or that some node holds, and keeps the branches it has |
| `PolicyHistory` | The policy files of several nodes, their local operations, the policy part of a session, and the effect of a crash in each write |
| `PolicyHistoryProofs` | Theorems about `PolicyHistory` |
| `Moderation` | Extends `PolicyHistory` with the moderation files and the moderation part of the same sessions |
| `ModerationProofs` | Theorems about `Moderation` |
| `SharedLog` | What synchronisation promises about the logs: a message enters where it is posted and spreads along the links, unless the receiver refuses its author |
| `SyncSession` | The frames of one or more sessions, bounded queues in both directions, posts in between, failures, deadlines and retries |
| `SyncSessionProofs` | Theorems about `SyncSession` |
| `KeyRing` | The keyrings, the commands that rotate and use keys, and sessions with their policy part, key exchange and messages |
| `KeyRingProofs` | Theorems about `KeyRing` |
| `PinBook` | What the saved peers promise: one command at a time, and a pin goes only with its peer |
| `Peers` | `peers.json`, its lock, and the commands as read and replace |
| `Discovery` | The table of challenges of each responder |
| `BackgroundSync` | The worker's rounds, composed with `Peers` and `Discovery` |
| `BackgroundSyncProofs` | Theorems about `Peers` and `BackgroundSync` |
| `TuiRefresh` | What the interface shows, its fingerprint, its selection and its inputs |
| `TuiRefreshProofs` | Theorems about `TuiRefresh` |
| `MC...` | Constants for TLC |

### ChannelLog

`log` is the sequence of whole records with their byte offsets, `eof` the length
of the file (it exceeds the records after a torn write), `synced` the part that is
durable, `index` the five things `index.redb` records (locations, buckets, count,
log length, schema).  A process goes through `pc` = lock, authorize, index, write,
sync, insert for an append, and lock, index, read for a read: the steps of
`append_message` and of the readers in their order.  `TornWrite`, `Abort`,
`PowerLoss` and `LoseIndex` are the failures; a redb transaction is taken as
atomic and durable.  `kept` and `dupOk` record which appends were answered Ok,
because they wrote or because the id was there.  A policy operation replaces the
set of writers under the same lock.  A reader of the tail has read its tombstones
before it takes the lock (`hidden`).

### PolicyChain and PolicyHistory

The id of an event is a hash over the previous id, so an id stands for the
history up to it and comparing ids position by position is comparing prefixes.
Timestamps are left out.  `file` has the complete events and what
follows the last newline: nothing, a whole event without its newline, or
something that is no event.  In that last case every operation on the channel
fails.  Each operation holds the locks from its first read to its last write and
is one action; the actions `Crash...` stop it after any of its writes.

Two simplifications of the server: it takes the client's history and answers in
one action, although the code takes the locks twice (to append, and to read the
history it sends); and the client's status is read in one action.  A change
between the two reads gives the client a longer history, which is the answer of a
later session in the model.

`PolicyHistory` implements `SharedHistory` as long as nothing crashes: its `branch` is the
readable history of each node (`history(n)`), its `saved` the branches in
`policy-conflicts/`.  `SharedHistory` has neither sessions nor frames: a history that a node
takes is one that some node holds *at that moment*, or the beginning of one, although the frame
that brought it may be arbitrarily old.  With `saved` empty it is also what the short
policy part of `KeyRing` implements, so that the two modules are tied to one abstraction.

### Moderation

A moderation event names the head of the policy history that gave its actor the
right; `ValidModeration` is `derive_moderation`.  `exchange` carries each session
through its stages, tied to the policy frames in `net`: the session ends where
its policy part fails.  `mods` is `moderation.ndjson` in the form `PolicyHistory`
gives `policy.ndjson`, and what a crash leaves of an append is the same `PartsOf`; the
crashes of the policy files are left to `PolicyHistory`.  Lost sessions and crashes
together happen at most `MaxCuts` times.  `moderation.json` is written and never read,
so it has no variable.

### SyncSession

A log is the set of its ids.  `client` and `server` are the two ends, `out` what an
end still has to send before it reads again, `toServer` and `toClient` the frames
the connection holds, at most `BufferCap` each way (the socket buffers and the
queue of the WebSocket library; only their finiteness matters).  The client reads
its summaries when it connects; the server reads its own after the handshake and
the ids of the differing buckets later still.  The policy and moderation parts
and the keys appear as frames without content.  `refused` is what
`authorize_append` of a node turns down at the moment: a policy change on either node
may come at any time, and an envelope by a revoked author ends the session of
whoever receives it.  `had` is a history variable for one property.

`Expected` is what `run_sync` waits for at each of its stages; in the code every other frame
ends the session with an error.  `Alone(s)` says that no other session touches the two nodes of
session s.  `SharedLog` is `SyncSession` without the sessions: its `log` and `refused` are the ones
here, and `Link` the pairs of nodes a session connects.

### KeyRing

`keys` is each node's keyring, oldest key first.  Loading it and replacing it are two
steps under `lock` (`channel-keys.lock`), for the command of a node and for every
session that accepts offers on it; reading it to offer or to encrypt takes no
lock, as in the code.  `op` is the command under way: a change that rotates the key
goes through load, push and then `append_policy_action`, a post through an optional
key generation, encryption and `append_message`.  `Kill` ends a command at any step.
`session` has the server's stages and the client's apart, with the frames between
them; the server judges the client's offers by the policy it read before it made its
own (`session.policy`).  The rest of a session is short: the policy is reconciled in
one action, a fork ends the session (`PolicyHistory` has what is saved of it), and the
logs are compared in one action (`SyncSession` has the frames).  Messages of public
channels need no key and are left out.

### Peers, Discovery and BackgroundSync

`peers` is the list as `list_peer_records` returns it: for each URL no record, a record
without an identity, or a pinned one.  `running` has what each command read under
`peers.lock`; `write_peers` replaces the file by rename, so readers, who take no lock,
see the list before or after.  Times in `challenges` are relative to the responder's
clock and pass in ticks; the handlers hold one mutex, so that a request is one action.
`worker` is the worker's program counter, the peers still to come, the peer at hand,
its nonce and channel.  The steps are those of the code: list, ask, verify (the expected
identity and the expiry, by the client's clock, which is `Skew` ahead), sign and ask
for the channels, and for each channel check the identity again and run a session.
Sessions succeed or fail here.  `Fail` may happen at every request; other clients of
the responder ask and answer at any time.  Deadlines are 5 s, so that a request takes
less than a tick.  Nonces are random in the code; here one that nobody holds is taken.

### TuiRefresh

A file is the number of its changes.  `disk` has the four files that count per
channel, `listed` the channels the user may read, `sealed` those with a message whose
key is missing.  `app` is `App`: list, index, mode, what was read (`view`) and the
fingerprint.  `step` says where `refresh` is: it reads messages (with tombstones), role and
conflicts in that order and then takes the fingerprint, and files may change between
any two.  The loop handles an event, then polls, then takes one key.  Three
simplifications: a fingerprint is taken in one instant, messages and
tombstones are read in one step, and scrolling and drawing are left out.
`typed` and `astray` are history variables for the properties.

## What is checked

| Run | Instance | Shows |
|---|---|---|
| `channel_log` | 2 processes, 2 envelopes of 2 authors, lengths and buckets, tails of 1 and 2 with and without a hidden message; every failure, any number of times | `NoDuplicateIds`, `IndexTrusted`, `KeptSurvives`, `AppendAuthorized`; `ChannelLog` implements `DedupLog` |
| `policy` | 2 nodes dialling each other, 3 events per history: a moderator is appointed, the branches part, one may turn private; 1 frame under way; a crash in every write | `HistoriesReplay`, `BranchesKept` and `RestrictedStays`, and `ForksSurface` under fairness |
| `sync_one_session` | 1 client, 5 messages in 2 buckets, a post on each side, an author revoked and reinstated on either node at any time, 2 failures, connections of one frame | `CompleteIsConverged`, `StuckOnlyByBacklog`, `FramesExpected`; `SyncSession` implements `SharedLog` |
| `sync_both_ways` | each node is client of one session and server of another, a post, a failure, connections of 2 frames | `CompleteIsConverged`, and `Converges` under fairness |
| `moderation` | 2 nodes dialling each other, both moderate while the channel changes hands and its former owner becomes a moderator; a lost session or a crash in a moderation write | `ModerationReplays`, `ModerationKept`; the policy part implements `SharedHistory`; `ModerationConverges`, `HistoriesConverge` under fairness |
| `key_ring` | 2 nodes, n2 dials n1; the channel turns private, is rotated by a revocation or handed over; 2 keys, a message of each node, kills at any step, a lost session | `KeysKept`, `RingsExchanged`; `KeyRing` implements `SharedHistory`; `MessagesReadable` under fairness |
| `background` | 2 URLs, one of them offline, a second spelling of the other; 2 processes that add, pin and remove; a table of 2 challenges, a lifetime of 2 ticks, a client's clock ahead by one; 2 channels | `StrictUnlessRemoved`, `ChallengesHonoured`; `Peers` implements `PinBook`; `Reached` under fairness |
| `tui` | 2 channels, listed or not, 2 changes of any files, a failed read | `InputStays`, `UnchangedIsShown`, and `LocalChangesAppear` under fairness |

Each module that has state is also checked for its types.

*Why these bounds are enough to be interesting.*  Two appenders of the same
envelope, one of them killed at any step, plus a reader's rebuild, is the whole
content of the index hazards; lengths 2 and 3 make lengths ambiguous on purpose
(a torn record of the longer one can have the length of the shorter).  A fork
needs two nodes with a common first event and two second ones; three events per
history make prefixes, extensions and forks after a common prefix, and a crash in
any write, any number of times, leaves each of them with each kind of tail.  A
session is stressed by the difference between the logs compared to `BufferCap`, so
1 and 2 with one to three differing messages on each side reach all the regimes: no
backlog, one-sided, two-sided.  Three policy events let both operators gain and
one of them lose the right to moderate, with a moderation event of either before or
after each; one event per history is enough for forks and for a history behind,
ahead of and beside the policy; a second one behind an event without its newline is
what `PolicyHistory` has.  For the keys it takes a
first key, one more from either node, and a message under each: the two can be
generated, exchanged and used in any order, and the commands of both ends compete with
the session for the lock.  For the worker, one peer behind an offline one, two channels
of which either can fail, and a table that two other clients can fill are the smallest
instance of each hazard; nonces are one more than the table holds.  In the interface two
channels suffice for a list that shrinks above, at or below the selected one, and two
changes for one that falls between a read and the fingerprint and one that hides it.

*Deadlock* is checked except where the system may stop: with crashes of the policy files
(`policy`, `policy_ok_unreadable`) every node may end with a history that cannot be read, and
every operation then refuses; in `tui` the user may quit.

*Fairness.*  `auto_sync_worker` starts a session with every saved peer every three
seconds, and both ends of a session are tasks of an executor that runs what is
ready, so each end takes a step it can take (weak fairness) and starting recurs
(strong fairness, as a session may be under way).  In `PolicyHistory` frames may be
lost any number of times, but not every time (strong fairness of their handling);
in `SyncSession` and `Moderation` failures are bounded instead (`MaxFailures`,
`MaxCuts`).  In `KeyRing` a step that waits for the lock of the keyring is enabled again
and again, whenever the lock is released; the kernel gives it to who waits (strong fairness).  The client's 15 s deadline is only certain for a session that
is stuck.  Nothing makes operators post, edit or select.
In `BackgroundSync` the interval ticks, time passes, and every request ends, by an answer or its
deadline; `Reached` asks in its premise that nobody else uses up the challenges and that
the sessions of the channel and those before it do not fail.  In `TuiRefresh` the loop
waits a tenth of a second for a key and polls twice a second, so that reading goes
on (weak fairness), and events and polls have their turn between keys (strong fairness).

### Disagreements with the documents

Four runs expect a violation.

* `policy_ok_unreadable`.  An event and its newline are two writes.  After a crash
  in between, the next append puts two events on one line and answers Ok; the
  history can no longer be read.
* `policy_legacy`.  `append_remote_policy_history` looks at `policy.ndjson` only: a
  node with a legacy restricted `policy.json` takes a history signed by somebody
  else, though ADR-007 lets only the owner adopt it.  The same check lets two more
  things happen to a legacy policy: a synchronisation that brings an empty history
  overwrites it with the open default (so does `rebuild_policy_cache`), and an adoption
  that is cut short after `policy.ndjson` was created puts it out of force.
* `sync_deadlock`.  The server streams all it has before it reads an upload
  and the client uploads all that is wanted before it reads on.  With a backlog
  on both sides larger than the connection holds, both block until the deadline
  and each retry does the same.  `StuckOnlyByBacklog` shows that nothing else blocks.
* `moderation_policy_fork`.  Selecting another policy branch leaves moderation
  events that name heads of the displaced one; they no longer replay, and the
  channel can be neither read by tail nor synchronised.

More was met that has no run of its own:

* A duplicate is not durable (`src/store.rs:286`).  ADR-003 says that a successful append
  is on durable storage.  A process is killed after `write_all`; a second one appends
  the same envelope, finds the id and answers Ok without `sync_data`; power is lost and
  so is the message.  `EveryOkSurvives` states it and is false; `KeptSurvives` is about the
  appends that wrote.
* A saved branch is rewritten in place on every retried session, so a crash can
  lose a branch that was saved before (`CrashInSave`, `CrashInResolve`, `CrashInSelect`,
  `CrashInModeration`).  `BranchesKept` and `ModerationKept` are therefore about steps other
  than crashes.
* Two private branches that exclude each other's nodes never surface as a fork: the
  membership check comes first (`src/sync.rs:194`).  `ForksSurface` asks that the dialled
  node admits the client.
* A moderation history that cannot be read ends every session, and may do so before the
  client has taken the policy: `HistoriesConverge` asks for readable ones.
* A challenge expires 60 s after the responder's clock, and a client refuses one that
  expires more than 60 s after its own: a client whose clock is a second behind
  never synchronises (`src/sync.rs:749`).  With `Skew = -1`, `Reached` is false.
* The list of peers is read once a round and the record of a peer when its answer has
  come; a peer removed in between counts as one that was never saved, for which
  any identity will do (`src/sync.rs:816`).  ADR-016 says that automatic synchronisation is
  strict; it is until the peer is removed, hence `StrictUnlessRemoved`.
* A peer added with `s` in the interface is saved without a pin, after which every
  synchronisation with it is refused; before, without a record, it was not.
* One channel whose policy cannot be read empties the list of them all, and the round
  is reported complete (`src/server.rs:173`, `ListsNothing`).
* ADR-011 says "Local changes appear without a manual refresh".  The interface loses
  track in three ways, which `astray` marks.  A change between a read and the fingerprint is
  covered by the fingerprint and not shown.  A key reads the channel again, not the list,
  but the fingerprint is of the list too, so that a new channel stays hidden.  A
  failed refresh leaves the new list with the old fingerprint, and the files may go
  back to it.  `LocalChangesAppear` says that nothing else keeps a change from appearing.
* An event of the worker does not clamp the index, so the view may be empty although
  channels are listed (`src/tui.rs:406`); a message typed for a channel that has left the list
  goes to the one that took its index (`InputStays` ends there); a message
  without its key, met on a key press, ends the client, and so does Enter in the peer
  input with no channel selected or an invalid URL.

## What is proved

All theorems hold for every value of the constants that satisfies the named assumptions,
which only give the constants their types except where said.  Every property of the passing
runs that is not a liveness property is the statement of a theorem.

### The log

`ChannelLogProofs`, from `ConstantsOK` (types, and a record
has at least two bytes, its content and the newline):

| Theorem | Statement |
|---|---|
| `Invariance` | `Spec => []IInv` |
| `TypeCorrect` | `Spec => []TypeOK` |
| `NoDuplicates` | `Spec => []NoDuplicateIds` |
| `LengthCheckSuffices` | `Spec => []IndexTrusted` |
| `KeptIsDurable` | `Spec => []KeptSurvives` |
| `AppendsAreAuthorized` | `Spec => AppendAuthorized` |
| `ImplementsDedupLog` | `Spec => AbstractSpec` |

None of the safety properties is inductive.  `IInv` strengthens them with
four facts.  `LockInv`: exactly the process inside an operation holds the lock, so
what it has learned stays true until it releases it.  `FileInv`: records follow one
another in the file and end at or before `eof`.  `IndexInv`: an index of the current
schema is the index of the first k records, for some k, or records a length
beyond the end of the file; the second case is what a power loss leaves of an index
that was rebuilt over bytes nobody had synchronised, and it is harmless because
the next operation, append or read, rebuilds before it adds a byte.  `WriteInv`: a
process about to write or to read has the exact index of a file without torn bytes, and
after the write one that lacks its record only.  Since records have positive length,
the length of the file determines k, which is why comparing lengths suffices,
and why an id that a fresh index lacks is not in the log.  `KeptInv` places every
acknowledged record below `synced`.

`AuthInv` adds that a process past `authorize_append` has an author who may still write: a
policy change needs the lock that process holds.

For the refinement every action is one step of `DedupLog` or leaves it as it is: `write_all`
adds, `AppendOk` acknowledges, a torn write damages, a power loss loses what `KeptInv` does
not protect, a read answers.  What takes work is the tail.  The code ranks locations by their
offsets and takes them from the end; `DedupLog` strikes the hidden messages from the list and
takes its end.  `WithoutLists` says by induction what the second computes (the positions of
the visible messages, in order), `TailOf` counts for the first how many visible messages
lie after each, and `TailIsNewest` brings the two together through `WholeIndex`.

### Policy

`PolicyChainProofs` is about the policy as a function of its history.

| Theorem | Statement |
|---|---|
| `PoliciesType` | the policies after the events of a well-formed history are policies |
| `ValidIsControlled` | after the first event of a valid history the channel is restricted and has an owner, to the end |

These are inductions over the events.  The induction theorems of the library that take
a predicate cannot be instantiated, so the proofs use the minimum of a set instead
(`WFMin`, whence `LeastNumber` and `UpTo`): the set of the positions
where the claim holds contains 0 and is closed under successor.  `ReplayExists` shows in
the same way that the recursion of `Policies` defines a function, without
which nothing about its values follows.  A recursion over offers (`KeyRing`) and one over
messages (`DedupLog`) are treated alike.

`PolicyHistoryProofs`, from `HistoryConstantsOK`; `CrashSpec` has a crash in any write, `Spec`
none:

| Theorem | Statement |
|---|---|
| `PolicyTypes` | `CrashSpec => []TypeOK` |
| `HistoriesAlwaysReplay` | `CrashSpec => []HistoriesReplay` |
| `BranchesSurvive` | `CrashSpec => BranchesKept` |
| `RestrictionStays` | `CrashSpec => RestrictedStays`, where no legacy policy restricts the channel |
| `ImplementsSharedHistory` | `Spec => SharedSpec` |

`HistoriesReplay` is not inductive: a history taken from a frame is only as good as the
frame, and what a crash leaves of an append is a prefix of what was checked.  `ReplayInv`
asks the same of the frames under way and of the files that cannot be read.  An append
checks the whole new history by a replay, so that what matters is that replay is closed
under prefixes (`PrefixReplays`: event i is accepted by the policy of the events before
it, which the prefix shares), and that the suffix of a history that extends the local one
completes it (`SuffixCompletes`).  `BranchesKept` follows step by step from `Grown`: the
current branch only grows, or is among the saved ones after the step, and those stay.
`RestrictedStays` rests on `ValidIsControlled`: no step makes a history that has an event
empty.  Its assumption is needed, for a legacy policy that restricts the channel can be lost
(run `policy_legacy`); the run checks the property under the same assumption.

The refinement needs one more invariant, `FramesHeld`: the history in every frame under way is
still held by some node, as its current branch, the beginning of it, or a saved one.  The
frame goes out with what its sender has, and `HoldingStays` says that nothing gives a
history up: a file grows, or is replaced by a branch after being saved itself (`Replaced`,
`SavedStay`).  Then what a node takes from a frame is a `Take` and what it saves a `Save`, although
the sender may have gone on or selected another branch since; an operator's change is
a `Sign` (with the event that adopts a legacy policy before it, if there is one), a selection a
`Select`, and the rest leaves the branches alone.  A crash in `save_policy_conflict` can lose a
branch, and with it what a frame names; the theorem is therefore about `Spec`.

### Moderation

`ModerationProofs`, with `ModerationConstantsOK` as well:

| Theorem | Statement |
|---|---|
| `ModerationTypes` | `MSpec => []MTypeOK` |
| `ModerationSurvives` | `MSpec => ModerationKept` |
| `ModerationSharesHistory` | `MSpec => SharedSpec` |
| `ModerationAlwaysReplays` | `MSpec /\ [][~SelectPolicy]_allvars => []ModerationReplays` |

`ModInv` is `ReplayInv` below it (every step of `MSpec` is one of `CrashSpec` or leaves the
policies alone, `PolicyUnderneath`) with the types of the moderation part.
`ModerationMonotone` says that moderation that replays still does when
the policy history grows: the roles are looked up at the heads the events name.  So
`HeldReplays`, the property for the files that cannot be read too, is inductive as long as the
policy only grows, that is, until an operator selects another branch; then it
is false (run `moderation_policy_fork`).  A step that is not a crash keeps or saves what is there
(`HeldStays`), from which `ModerationKept` follows.  `SharedUnderneath` takes the refinement of
`SharedHistory` from `PolicyHistory` over to `MSpec`: each step is one of `PolicyHistory` without
its crashes, or loses a frame, or leaves the policies alone.  The run checks it on an instance
without forks, where a frame may be behind both ends; the theorem has the forks, and branches selected
while a frame is under way.

### The exchange of messages

`SyncSessionProofs`, for any sessions between any nodes at once, posts,
policy changes, failures and capacity, from `SyncConstantsOK`:

| Theorem | Statement |
|---|---|
| `SyncTypes` | `Spec => []TypeOK` |
| `SyncConverges` | `Spec => []CompleteIsConverged` |
| `FramesAlwaysExpected` | `Spec => []FramesExpected` |
| `ImplementsSharedLog` | `Spec => SharedSpec` |
| `BlockedOnlyByBacklog` | `Spec => []StuckOnlyByBacklog` |

`CompleteIsConverged` speaks of the end of a session.  `SessionInv` follows what either end
had at the beginning (`had`) through it.  Until the buckets are compared it is in the
client's summary or with the server; what lies in a bucket that does not differ is with
both; when the ids have been exchanged the rest is with the server or wanted by it, and
with the client or in an envelope that waits or is under way to it; `complete` is the last frame
of its queue, behind every envelope.  `DiffInv` adds that the buckets and the answer
are those of this session, although queues are reused.

`FramesExpected` speaks of the next frame only.  `PhaseInv` is the protocol, stage by
stage of the server: what each queue may hold, in what order, and what the client still has to
send, with the envelopes of an upload exactly those the server wants and has not read, once
each.  A client that ends leaves frames behind, so that the stages hold for its remains too.

`SourceInv` says that what a frame names its sender holds: ids and envelopes that go
up are in the client's log, those that go down in the server's.  Logs never shrink, so they still
are when the frame is read, and an append by either end is a `Copy` of `SharedLog`; the
receiver's own `refused` guards it.

`StuckOnlyByBacklog` follows from all three.  By `PhaseInv` two ends are both blocked only
while each has a connection full of envelopes before it and one more to send
(in every other stage one of them has a frame to read or room for one), so more than
`BufferCap` different messages are on the way in either direction.  By `SourceInv` their senders hold
them.  That the receivers lack them is `ApartInv`, and needs `Alone`: another session
could bring a message that is on its way here.  It also needs what `SyncConstantsOK` says of
posts, that a message is posted once, at one node, and was nowhere before (ids are hashes over
author, time and text); `LogsInv` has that, and that logs are finite, without which a
cardinality says nothing.  `Stuck` is stated by what each end waits for, not by `ENABLED`, which the
prover does not treat.

### Keys

`KeyRingProofs`, for any nodes, edits and sessions, from `KeyRingOK` (the
founding history is valid):

| Theorem | Statement |
|---|---|
| `KeyRingTypes` | `Spec => []TypeOK` |
| `RingsAreExchanged` | `Spec => []RingsExchanged` |
| `KeysStay` | `Spec => KeysKept` |
| `KeysOverSharedHistory` | `Spec => SharedSpec` |

The heart of `IInv` is `RingsLocked`: what the holder of a lock has loaded is what is in the
file.  A process that saves holds the lock (`CommandsSound`, `SessionLocks`), so it adds to
the keyring and takes nothing away; and since no keyring ever shrinks (`Grows`), what a session
has received stays received.  `SessionsSound` says of each stage of a session which keys are
in the offers under way and which in the rings.  No
key is generated twice: those made so far are in a ring, lost, or in the hands of one
command (`PendingDistinct`).  `AcceptedRing` is what accepting offers computes:
the old keys and the new ones, once each, however the offers repeat.

For `SharedHistory` no session may pass on a history its sender has given up.  `FramesCurrent`
says that the history in a status or an update is still the beginning of its sender's: it was
when the frame went out, and no step shortens a history (`Lengthens`), whichever other sessions and
commands go on there.  Sessions that are killed at any step are included, for they leave no
frame behind.

### Peers and the background synchronisation

`BackgroundSyncProofs`, from `PeersConstantsOK`, `DiscoveryConstantsOK`
and `BackgroundConstantsOK` (types, and distinct marks for no record,
no pin and no command):

| Theorem | Statement |
|---|---|
| `CommandsSerialised` | `PeersSpec => []ReadIsCurrent` |
| `PeersImplementBook` | `PeersSpec => BookSpec` |
| `BackgroundTypes` | `Spec => []TypeOK` |
| `AutomaticSyncIsStrict` | `Spec => []StrictUnlessRemoved` |
| `BackgroundImplementsBook` | `Spec => BookSpec` |
| `ChallengesAreHonoured` | `Spec => []ChallengesHonoured` |

`ReadIsCurrent` with the types is inductive: a command starts only where no other is
under way, and whoever replaces the list has read the one that is there, from which
each replacement is a step of `PinBook`.  `StrictUnlessRemoved` is not: it needs
`AbsentIsRemoved`, that a URL whose record is missing while the worker deals with it is
among the `removed` (a round's list has only URLs that had a record, and whatever
disappears later is noted), and the shape of the worker's state.  Then a check of the
identity passes with the pin or in a removal, and a pin that was checked can only
go by one.  `ChallengesInv` adds to `ChallengesHonoured` what
the worker has waited: nothing before it asks, at most one tick until it answers, and the
lifetime is at least one; then requests by others, which drop from a table only what
has expired or what they hold themselves, leave the worker's challenge alone.
The types say that a table never exceeds its limit (`TablesOK`, by cardinalities) and that the worker
stands at a channel of the peer's list.

### The interface

`TuiRefreshProofs`, for any finite set of numbered
channels, the empty one included, and any changes of the list, from `TuiConstantsOK`:

| Theorem | Statement |
|---|---|
| `TuiTypes` | `Spec => []TypeOK` |
| `InputsStay` | `Spec => []InputStays` |
| `NothingHidden` | `Spec => []UnchangedIsShown` |

The index of a channel is
the number of listed channels before it, which increases along the list
(`PositionIncreases`, by the cardinality of strict subsets), so that the index
determines the channel (`PositionSelects`), and every index below their number has a channel
(`PositionExists`, by the pigeonhole principle).  The invariant adds that only an open input
has a channel, for what opens or keeps one never moves the index without the list.

`UnchangedIsShown` is the safety half of `LocalChangesAppear`: when a poll finds the
fingerprint as it was, and the client has not lost track, what is shown is what is in the files.
It is not inductive, as a refresh reads part by part and may fail after any.  `FaithInv`
says that between and during refreshes each part shown is as in its files unless these have changed
since the fingerprint (`Faithful`); a part that is read again is up to date, and
since the counts of a file only go up, it cannot come to equal the old fingerprint with
other contents.  A refresh that rebuilt the list and then failed is not `Faithful`; its list differs
from the one in the fingerprint, so that the next poll reads again, unless the
client has lost track in one of the ways above.

### What the proofs corrected

A few statements that hold on the instances of the runs failed for other constants, and the modules
were corrected:

* The type of a legacy policy adopted into a history: the event it makes need not be among the
  `Edits` an operator tries.  `PolicyEvent` is now the type of an event.
* `RingsExchanged` with three nodes: n1 learns from n2, while n2 takes the policy that makes the
  channel private from n3 after n1 has read its own, still public one, so that n1 offers
  nothing.  The property leaves out a session in which the client found the
  channel public.
* `accept_key_offers` looks for each key in the keyring as it grows, so that
  an offer that repeats a key adds it once; `Accepted` compared with the keyring at the beginning.
* The index of an interface without any channel is 0, which is no position.
* A nonce another holds in the same table is never handed out again, whatever `Nonce` is.

### Only model-checked

* Liveness: `ForksSurface`, `Converges`, `ModerationConverges`, `HistoriesConverge`,
  `MessagesReadable`, `Reached`, `LocalChangesAppear`.  Fairness is out of the prover's reach.
* The four violations, which are counterexamples.

`RECURSIVE` is not used anywhere: replay and its like are recursive functions.

## What is not modelled

* Signatures and hashes: ideal.  Events and envelopes that fail to verify are not
  represented, for the code drops them before any state changes.
* The reads used by tests only (`read_channel_from`, `count_messages`).
* The frames that authenticate the two ends of a session, and the limits on frame and
  inventory sizes: a session only goes on or ends there.  Two inventories that
  differ by more than `MAX_DIFFERING_IDS` (`src/sync.rs:368`) can never be reconciled; a bound in
  `SyncSession` would restate the check.
* Messages of a public channel in `KeyRing`; a keyring beyond `MAX_KEY_OFFERS` (4096): the
  code has no way back from there, every session of the channel fails.
* A `peers.json` that cannot be parsed: every command refuses it.
* Axum's routing, starting and stopping the listener, drawing and scrolling, argument
  parsing, JSON-RPC framing: no state of the system is kept there.  The command line and
  the MCP server call one operation of the modules above per command or call.
* `src/util.rs`: it joins paths and creates directories.

## Plan

Written in this order, because the log is below everything and the histories
decide what a session may do: `DedupLog`, `ChannelLog`, its proofs; `PolicyChain`,
`PolicyHistory`, their proofs; `SyncSession`; `Moderation`; `KeyRing`; `PinBook`, `Peers`, `Discovery`,
`BackgroundSync`, their proofs; `TuiRefresh`, its proof; the crashes of `Moderation`;
the proofs of `SyncSession`, `Moderation` and `KeyRing`; the refinement of `DedupLog`; `SharedLog`,
`SharedHistory` and their refinements.  What could follow:

1. `KeyRing`: the visibility read as a step of its own, with plaintext messages.
2. The server's reconciliation in two steps, and a policy change of `PolicyHistory`
   during the inventory part of a session.
3. Proofs: the safety half of `ForksSurface`, that two branches are both saved when
   their fork has been seen; a `SharedHistory` with losses, for the runs with crashes.
