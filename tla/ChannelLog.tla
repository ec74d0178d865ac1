----------------------------- MODULE ChannelLog -----------------------------
(***************************************************************************)
(* One channel's log.ndjson and index.redb on one node, shared by the      *)
(* processes and tasks that append to it and read it (CLI, MCP server,     *)
(* sync sessions, TUI).  Every operation takes the exclusive advisory lock *)
(* of the log, brings the index up to date, and then uses it.  A process   *)
(* can be killed, or an I/O call can fail, between any two steps; a power  *)
(* loss drops bytes of the log that were not synchronised.                 *)
(*                                                                         *)
(* A record is an envelope and its byte offset; sizes are in bytes, small. *)
(* A redb transaction is atomic and durable (external).                    *)
(***************************************************************************)
EXTENDS Naturals, Sequences, FiniteSets

CONSTANTS
    Process,        \* the threads and processes that use the channel
    Envelope,       \* envelopes that pass Envelope::verify for this channel
    Identity,       \* the authors
    Bucket,         \* Merkle buckets (first byte of the id)
    From,           \* the author of an envelope
    Size,           \* the length of its record, newline included
    BucketOf,       \* the bucket of its id
    Hidden,         \* tombstone sets a reader may have read beforehand
    TailSizes,      \* tail lengths a reader may ask for
    NoProcess       \* the lock is free

ASSUME ConstantsOK ==
    /\ From \in [Envelope -> Identity]
    /\ Size \in [Envelope -> Nat \ {0, 1}]
    /\ BucketOf \in [Envelope -> Bucket]
    /\ NoProcess \notin Process
    /\ TailSizes \subseteq Nat
    /\ Hidden \subseteq SUBSET Envelope

VARIABLES
    log,            \* complete records of log.ndjson, in file order
    eof,            \* length of the file, an incomplete record included
    synced,         \* length known to be on durable storage
    index,          \* index.redb as of its last commit
    lock,           \* holder of the exclusive lock on log.ndjson
    pc,             \* next step of each process
    op,             \* the operation each process is in
    writers,        \* identities authorize_append accepts
    kept,           \* envelopes whose own append returned Ok
    dupOk,          \* envelopes an append answered Ok to as duplicates
    reply           \* the last answer a reader got

vars == <<log, eof, synced, index, lock, pc, op, writers, kept, dupOk, reply>>
disk == <<log, eof, synced, index>>
acks == <<kept, dupOk>>

-----------------------------------------------------------------------------
(* The file.                                                               *)

Record == [id : Envelope, offset : Nat]

Ids(s) == {s[i].id : i \in 1..Len(s)}

EndOf(r) == r.offset + Size[r.id]

(* The length of the complete records of s.                                *)
End(s) == IF s = << >> THEN 0 ELSE EndOf(s[Len(s)])

(* scan_verified_file succeeds: the file is a sequence of whole records.   *)
Scannable == eof = End(log)

(* The index.  Schema FALSE stands for a missing database or one written   *)
(* by a build with another INDEX_SCHEMA_VERSION.                           *)
NoIndex == [loc |-> << >>, chunks |-> [b \in Bucket |-> {}],
            count |-> 0, logLen |-> 0, schema |-> FALSE]

(* The transaction of rebuild_index: every scanned record, the buckets and *)
(* the metadata.                                                           *)
rebuild_index(s, len) ==
    [loc    |-> [e \in Ids(s) |->
                   [offset |-> s[CHOOSE i \in 1..Len(s) :
                                   /\ s[i].id = e
                                   /\ \A j \in 1..Len(s) : s[j].id = e => j <= i].offset,
                    length |-> Size[e]]],
     chunks |-> [b \in Bucket |-> {e \in Ids(s) : BucketOf[e] = b}],
     count  |-> Len(s),
     logLen |-> len,
     schema |-> TRUE]

(* Mutant: the bucket of the new id is not updated.                        *)
index_insert_no_chunk(e, offset, len) ==
    [loc    |-> [x \in DOMAIN index.loc \cup {e} |->
                   IF x = e THEN [offset |-> offset, length |-> Size[e]]
                            ELSE index.loc[x]],
     chunks |-> index.chunks,
     count  |-> index.count + 1,
     logLen |-> len,
     schema |-> TRUE]

(* The transaction of index_insert.                                        *)
index_insert(e, offset, len) ==
    [loc    |-> [x \in DOMAIN index.loc \cup {e} |->
                   IF x = e THEN [offset |-> offset, length |-> Size[e]]
                            ELSE index.loc[x]],
     chunks |-> [index.chunks EXCEPT ![BucketOf[e]] = @ \cup {e}],
     count  |-> index.count + 1,
     logLen |-> len,
     schema |-> TRUE]

(* Mutant: only the schema is compared, not the length.                    *)
IndexFresh_schema_only == index.schema

(* ensure_index keeps the index it finds.                                  *)
IndexFresh == index.schema /\ index.logLen = eof

index_contains(e) == e \in DOMAIN index.loc

-----------------------------------------------------------------------------
(* Operations.                                                             *)

Idle == [kind |-> "none"]

NoReply == [kind |-> "none"]

(* What a reader asks: read_channel_tail_with_options (with the tombstones *)
(* it has read before), read_message_by_id, or chunk_summaries/chunk_ids.  *)
Query == [kind : {"tail"}, hidden : Hidden, n : TailSizes]
            \cup [kind : {"get"}, env : Envelope]
            \cup [kind : {"chunks"}]

Op == {Idle} \cup [kind : {"append"}, env : Envelope]
             \cup [kind : {"policy"}]
             \cup Query

Init ==
    /\ log = << >>
    /\ eof = 0
    /\ synced = 0
    /\ index = NoIndex
    /\ lock = NoProcess
    /\ pc = [p \in Process |-> "idle"]
    /\ op = [p \in Process |-> Idle]
    /\ writers = Identity
    /\ kept = {}
    /\ dupOk = {}
    /\ reply = NoReply

Goto(p, l) == pc' = [pc EXCEPT ![p] = l]

(* The file handle is dropped, which releases the lock.                    *)
Finish(p) ==
    /\ Goto(p, "idle")
    /\ op' = [op EXCEPT ![p] = Idle]
    /\ lock' = IF lock = p THEN NoProcess ELSE lock

(* append_message up to the lock; a reader has read the moderation state   *)
(* before it; append_policy_action and its like also take this lock.       *)
Start(p) ==
    /\ pc[p] = "idle"
    /\ \E o \in Op \ {Idle} : op' = [op EXCEPT ![p] = o]
    /\ Goto(p, "lock")
    /\ reply' = NoReply
    /\ UNCHANGED <<disk, lock, writers, acks>>

(* Mutant: a policy change does not take the lock of the log.              *)
lock_exclusive_not_for_policy(p) ==
    /\ pc[p] = "lock"
    /\ op[p].kind = "policy" \/ lock = NoProcess
    /\ lock' = IF op[p].kind = "policy" THEN lock ELSE p
    /\ Goto(p, CASE op[p].kind = "append" -> "authorize"
                 [] op[p].kind = "policy" -> "policy"
                 [] OTHER                 -> "index")
    /\ UNCHANGED <<disk, op, writers, acks, reply>>

lock_exclusive(p) ==
    /\ pc[p] = "lock"
    /\ lock = NoProcess
    /\ lock' = p
    /\ Goto(p, CASE op[p].kind = "append" -> "authorize"
                 [] op[p].kind = "policy" -> "policy"
                 [] OTHER                 -> "index")
    /\ UNCHANGED <<disk, op, writers, acks, reply>>

(* A policy operation replaces the set of identities that may write.       *)
ChangePolicy(p) ==
    /\ pc[p] = "policy"
    /\ writers' \in SUBSET Identity
    /\ Finish(p)
    /\ UNCHANGED <<disk, acks, reply>>

authorize_append(p) ==
    /\ pc[p] = "authorize"
    /\ From[op[p].env] \in writers
    /\ Goto(p, "index")
    /\ UNCHANGED <<disk, lock, op, writers, acks, reply>>

(* "author is not allowed to write channel"                                *)
RefuseAppend(p) ==
    /\ pc[p] = "authorize"
    /\ From[op[p].env] \notin writers
    /\ Finish(p)
    /\ UNCHANGED <<disk, writers, acks, reply>>

ensure_index(p) ==
    /\ pc[p] = "index"
    /\ IndexFresh \/ Scannable
    /\ index' = IF IndexFresh THEN index ELSE rebuild_index(log, eof)
    /\ Goto(p, IF op[p].kind = "append" THEN "write" ELSE "read")
    /\ UNCHANGED <<log, eof, synced, lock, op, writers, acks, reply>>

(* The scan meets a truncated record: the operation fails.                 *)
ScanFails(p) ==
    /\ pc[p] = "index"
    /\ ~IndexFresh
    /\ ~Scannable
    /\ Finish(p)
    /\ UNCHANGED <<disk, writers, acks, reply>>

(* "duplicate id, skipping": Ok without touching the file.                 *)
SkipDuplicate(p) ==
    /\ pc[p] = "write"
    /\ index_contains(op[p].env)
    /\ dupOk' = dupOk \cup {op[p].env}
    /\ Finish(p)
    /\ UNCHANGED <<disk, writers, kept, reply>>

write_all(p) ==
    /\ pc[p] = "write"
    /\ ~index_contains(op[p].env)
    /\ log' = Append(log, [id |-> op[p].env, offset |-> eof])
    /\ eof' = eof + Size[op[p].env]
    /\ Goto(p, "sync")
    /\ UNCHANGED <<synced, index, lock, op, writers, acks, reply>>

(* write_all fails, or the process is killed, after part of the record.    *)
TornWrite(p) ==
    /\ pc[p] = "write"
    /\ ~index_contains(op[p].env)
    /\ \E n \in 1..(Size[op[p].env] - 1) : eof' = eof + n
    /\ Finish(p)
    /\ UNCHANGED <<log, synced, index, writers, acks, reply>>

(* Mutant: the record is flushed but not synchronised.                     *)
sync_data_skipped(p) ==
    /\ pc[p] = "sync"
    /\ Goto(p, "insert")
    /\ UNCHANGED <<disk, lock, op, writers, acks, reply>>

sync_data(p) ==
    /\ pc[p] = "sync"
    /\ synced' = eof
    /\ Goto(p, "insert")
    /\ UNCHANGED <<log, eof, index, lock, op, writers, acks, reply>>

(* Mutant: the offset forgets the newline of the record.                   *)
AppendOk_no_newline(p) ==
    /\ pc[p] = "insert"
    /\ index' = index_insert(op[p].env, eof - Size[op[p].env] - 1, eof)
    /\ kept' = kept \cup {op[p].env}
    /\ Finish(p)
    /\ UNCHANGED <<log, eof, synced, writers, dupOk, reply>>

(* index_insert commits, then append_message returns Ok.                   *)
AppendOk(p) ==
    /\ pc[p] = "insert"
    /\ index' = index_insert(op[p].env, eof - Size[op[p].env], eof)
    /\ kept' = kept \cup {op[p].env}
    /\ Finish(p)
    /\ UNCHANGED <<log, eof, synced, writers, dupOk, reply>>

-----------------------------------------------------------------------------
(* Readers.                                                                *)

Visible(h) == {e \in DOMAIN index.loc : e \notin h}

(* The ids the tail loop collects: index entries newest first, without the *)
(* tombstoned ones, at most n.                                             *)
TailIds(h, n) ==
    {e \in Visible(h) :
       Cardinality({x \in Visible(h) :
                      index.loc[x].offset > index.loc[e].offset}) < n}

(* Mutant: the collected envelopes are not reversed.                       *)
ReadTail_newest_first(h, n) ==
    LET t == TailIds(h, n)
    IN  [k \in 1..Cardinality(t) |->
           CHOOSE e \in t :
             Cardinality({x \in t : index.loc[x].offset >= index.loc[e].offset}) = k]

(* read_channel_tail_with_options returns them oldest first.               *)
ReadTail(h, n) ==
    LET t == TailIds(h, n)
    IN  [k \in 1..Cardinality(t) |->
           CHOOSE e \in t :
             Cardinality({x \in t : index.loc[x].offset <= index.loc[e].offset}) = k]

(* read_indexed_envelope succeeds: the record at that byte range is e.     *)
read_indexed_envelope(e) ==
    \E i \in 1..Len(log) :
       /\ log[i].id = e
       /\ log[i].offset = index.loc[e].offset
       /\ EndOf(log[i]) = index.loc[e].offset + index.loc[e].length

ReadTailOk(p) ==
    /\ pc[p] = "read"
    /\ op[p].kind = "tail"
    /\ \A e \in TailIds(op[p].hidden, op[p].n) : read_indexed_envelope(e)
    /\ reply' = [kind |-> "tail", envs |-> ReadTail(op[p].hidden, op[p].n)]
    /\ Finish(p)
    /\ UNCHANGED <<disk, writers, acks>>

(* "message is not indexed" is an answer too.                              *)
read_message_by_id(p) ==
    /\ pc[p] = "read"
    /\ op[p].kind = "get"
    /\ index_contains(op[p].env) => read_indexed_envelope(op[p].env)
    /\ reply' = [kind |-> "get", env |-> op[p].env,
                 found |-> index_contains(op[p].env)]
    /\ Finish(p)
    /\ UNCHANGED <<disk, writers, acks>>

(* A bucket's hash stands for its members: BLAKE3 of the sorted ids.       *)
chunk_summaries(p) ==
    /\ pc[p] = "read"
    /\ op[p].kind = "chunks"
    /\ reply' = [kind |-> "chunks", members |-> index.chunks]
    /\ Finish(p)
    /\ UNCHANGED <<disk, writers, acks>>

-----------------------------------------------------------------------------
(* Failures.                                                               *)

(* The process is killed, or an I/O call of its next step returns Err.     *)
Abort(p) ==
    /\ pc[p] # "idle"
    /\ Finish(p)
    /\ UNCHANGED <<disk, writers, acks, reply>>

(* The machine stops: every process is gone, and of the bytes that were    *)
(* not synchronised only some reached the disk.                            *)
PowerLoss ==
    /\ eof' \in synced..eof
    /\ synced' = eof'
    /\ \E n \in 0..Len(log) :
         /\ log' = SubSeq(log, 1, n)
         /\ n > 0 => EndOf(log[n]) <= eof'
         /\ n < Len(log) => EndOf(log[n + 1]) > eof'
    /\ lock' = NoProcess
    /\ pc' = [p \in Process |-> "idle"]
    /\ op' = [p \in Process |-> Idle]
    /\ UNCHANGED <<index, writers, acks, reply>>

(* The index file is removed or comes from another schema version.         *)
LoseIndex ==
    /\ lock = NoProcess
    /\ index' = NoIndex
    /\ UNCHANGED <<log, eof, synced, lock, pc, op, writers, acks, reply>>

-----------------------------------------------------------------------------
Step(p) ==
    \/ lock_exclusive(p)
    \/ ChangePolicy(p)
    \/ authorize_append(p) \/ RefuseAppend(p)
    \/ ensure_index(p) \/ ScanFails(p)
    \/ SkipDuplicate(p) \/ write_all(p) \/ sync_data(p) \/ AppendOk(p)
    \/ ReadTailOk(p) \/ read_message_by_id(p) \/ chunk_summaries(p)

Next ==
    \/ \E p \in Process : Start(p) \/ Step(p) \/ TornWrite(p) \/ Abort(p)
    \/ PowerLoss
    \/ LoseIndex

Spec == Init /\ [][Next]_vars
-----------------------------------------------------------------------------
TypeOK ==
    /\ log \in Seq(Record)
    /\ eof \in Nat
    /\ synced \in Nat
    /\ DOMAIN index = {"loc", "chunks", "count", "logLen", "schema"}
    /\ DOMAIN index.loc \subseteq Envelope
    /\ \A e \in DOMAIN index.loc : index.loc[e] \in [offset : Nat, length : Nat]
    /\ index.chunks \in [Bucket -> SUBSET Envelope]
    /\ index.count \in Nat
    /\ index.logLen \in Nat
    /\ index.schema \in BOOLEAN
    /\ lock \in Process \cup {NoProcess}
    /\ pc \in [Process -> {"idle", "lock", "policy", "authorize", "index",
                           "write", "sync", "insert", "read"}]
    /\ op \in [Process -> Op]
    /\ writers \in SUBSET Identity
    /\ kept \in SUBSET Envelope
    /\ dupOk \in SUBSET Envelope

(* No id is in the log twice: two appends of the same envelope, from any   *)
(* two processes and across kills, power losses and rebuilt indexes, never *)
(* both write (append_message checks under the lock, against an index it   *)
(* has just brought up to date).                                           *)
NoDuplicateIds ==
    \A i, j \in 1..Len(log) : log[i].id = log[j].id => i = j

(* An index whose recorded length is the length of the file is exactly the *)
(* index of that file.  The length is the only thing ensure_index compares *)
(* (store.rs:1280), so whatever was lost, torn or rebuilt in between, equal *)
(* lengths must mean equal contents.                                       *)
IndexTrusted ==
    index.schema /\ index.logLen = eof =>
        /\ Scannable
        /\ index = rebuild_index(log, eof)

(* An envelope whose append wrote it and returned Ok stays in the log:     *)
(* sync_data comes before the answer (store.rs:293).                       *)
KeptSurvives == kept \subseteq Ids(log)

(* Every record enters the log while its author may write: a policy change *)
(* cannot fall between authorize_append and write_all, since both hold the *)
(* log's lock (store.rs:282, 577).                                         *)
AppendAuthorized ==
    [][\A e \in Ids(log') \ Ids(log) : From[e] \in writers]_vars

(* ADR-003: "A successful append is flushed to durable storage before its  *)
(* lock is released."  That includes the answer to a duplicate.            *)
EveryOkSurvives == kept \cup dupOk \subseteq Ids(log)

(* The channel log implements the abstract deduplicated log, reads         *)
(* included.                                                               *)
Abstract == INSTANCE DedupLog WITH
    ids <- [i \in 1..Len(log) |-> log[i].id],
    damaged <- ~Scannable

AbstractSpec == Abstract!Spec
=============================================================================
