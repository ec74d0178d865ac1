----------------------------- MODULE SyncSession -----------------------------
(***************************************************************************)
(* The exchange of messages over /sync: run_sync on the server,            *)
(* sync_from_peer_inner on the client, the two queues of frames between    *)
(* them, and the retries of auto_sync_worker.                              *)
(*                                                                         *)
(* A log is the set of its message ids (ChannelLog models the file), and   *)
(* grows between any two steps of a session: by local posts, and by other  *)
(* sessions.  The two nodes agree on their histories when a session begins *)
(* (PolicyHistory and Moderation model that part), and the client is a     *)
(* member; later the policy of either may change.                          *)
(***************************************************************************)
EXTENDS Naturals, Sequences, FiniteSets

CONSTANTS
    Node,
    Message,
    Bucket,         \* the buckets of the inventory
    BucketOf,       \* the bucket of a message
    Session,        \* the sessions, each of one client and one server
    ClientOf,
    ServerOf,
    Known,          \* per node, the log at the start
    Posts,          \* the pairs <<node, message>> of later local posts
    Revocable,      \* the messages of an author who may lose the right to write
    BufferCap,      \* frames a connection holds in one direction
    MaxFailures     \* bound: connections that fail for no fault of the protocol

(* The id of a message is the hash of its signed content: a post is a new  *)
(* message, and made at one node.                                          *)
ASSUME SyncConstantsOK ==
    /\ BucketOf \in [Message -> Bucket]
    /\ ClientOf \in [Session -> Node]
    /\ ServerOf \in [Session -> Node]
    /\ Known \in [Node -> SUBSET Message]
    /\ \A n \in Node : IsFiniteSet(Known[n])
    /\ Posts \subseteq Node \X Message
    /\ \A p, r \in Posts : p[2] = r[2] => p = r
    /\ \A p \in Posts, n \in Node : p[2] \notin Known[n]
    /\ Revocable \subseteq Message
    /\ BufferCap \in Nat \ {0}
    /\ MaxFailures \in Nat

VARIABLES
    log,            \* log.ndjson of each node
    refused,        \* per node, the messages authorize_append refuses
    client,         \* the client's end of each session
    server,         \* the server's end
    toServer,       \* frames under way to the server
    toClient,       \* frames under way to the client
    failures        \* connections that have failed

vars == <<log, refused, client, server, toServer, toClient, failures>>

-----------------------------------------------------------------------------
(* Frames carry a set: bucket summaries, bucket indices or message ids.    *)

Frame(kind, body) == [kind |-> kind, body |-> body]

Envelopes(ids) == {Frame("envelope", {m}) : m \in ids}

(* chunk_summaries: the hash of a bucket stands for the ids it holds, and  *)
(* an empty bucket has none.                                               *)
InBucket(ids, b) == {m \in ids : BucketOf[m] = b}

(* Mutant: only the server's buckets are compared, not the client's too.   *)
Differing_server_buckets(ids1, ids2) ==
    {b \in Bucket : /\ InBucket(ids2, b) # {}
                    /\ InBucket(ids1, b) # InBucket(ids2, b)}

Differing(ids1, ids2) == {b \in Bucket : InBucket(ids1, b) # InBucket(ids2, b)}

(* Mutant: the bucket filter is forgotten.                                 *)
chunk_ids_all(ids, buckets) == ids

chunk_ids(ids, buckets) == {m \in ids : BucketOf[m] \in buckets}

IdleClient == [pc |-> "idle", out |-> {}, had |-> {}]

IdleServer == [pc |-> "idle", out |-> {}, summary |-> {}, differing |-> {},
               ids |-> {}, wanted |-> {}]

Init ==
    /\ log = Known
    /\ refused = [n \in Node |-> {}]
    /\ client = [s \in Session |-> IdleClient]
    /\ server = [s \in Session |-> IdleServer]
    /\ toServer = [s \in Session |-> << >>]
    /\ toClient = [s \in Session |-> << >>]
    /\ failures = 0

(* Mutant: an envelope is appended whoever its author is.                  *)
Accepts_any(n, m) == TRUE

(* authorize_append, by the policy of the node at that moment.             *)
Accepts(n, m) == m \notin refused[n]

append_message(n, m) == log' = [log EXCEPT ![n] = @ \cup {m}]

(* A local post, between any two steps of a session.                       *)
Post(n, m) ==
    /\ <<n, m>> \in Posts
    /\ m \notin log[n]
    /\ Accepts(n, m)
    /\ append_message(n, m)
    /\ UNCHANGED <<refused, client, server, toServer, toClient, failures>>

(* The policy of a node changes: the author is revoked, or reinstated.     *)
ChangePolicy(n) ==
    /\ refused' = [refused EXCEPT ![n] = Revocable \ @]
    /\ refused' # refused
    /\ UNCHANGED <<log, client, server, toServer, toClient, failures>>

-----------------------------------------------------------------------------
(* The client.                                                             *)

(* The summaries are read before the connection is made.  had is history:  *)
(* what the two nodes held at that moment.                                 *)
Connect(s) ==
    /\ client[s].pc \in {"idle", "done"}
    /\ server[s].pc = "idle"
    /\ client' = [client EXCEPT ![s] =
                    [pc |-> "read", out |-> {},
                     had |-> log[ClientOf[s]] \cup log[ServerOf[s]]]]
    /\ server' = [server EXCEPT ![s] = [IdleServer EXCEPT !.pc = "status"]]
    /\ toServer' = [toServer EXCEPT ![s] = <<Frame("status", log[ClientOf[s]])>>]
    /\ toClient' = [toClient EXCEPT ![s] = << >>]
    /\ UNCHANGED <<log, refused, failures>>

ClientSend(s) ==
    /\ client[s].pc = "read"
    /\ Len(toServer[s]) < BufferCap
    /\ \E f \in client[s].out :
         /\ toServer' = [toServer EXCEPT ![s] = Append(@, f)]
         /\ client' = [client EXCEPT ![s].out = @ \ {f}]
    /\ UNCHANGED <<log, refused, server, toClient, failures>>

(* The loop reads the next frame when the answer to the last one is sent.  *)
ClientTakes(s, kind) ==
    /\ client[s].pc = "read"
    /\ client[s].out = {}
    /\ toClient[s] # << >>
    /\ Head(toClient[s]).kind = kind
    /\ toClient' = [toClient EXCEPT ![s] = Tail(@)]
    /\ UNCHANGED <<refused, server, toServer, failures>>

ClientHistory(s) ==
    /\ \/ ClientTakes(s, "policy_sync")
       \/ ClientTakes(s, "moderation_sync")
    /\ UNCHANGED <<log, client>>

(* Mutant: a client of a public channel sees no need to answer.            *)
ClientKeySync_silent(s) ==
    /\ ClientTakes(s, "key_sync")
    /\ UNCHANGED <<log, client>>

ClientKeySync(s) ==
    /\ ClientTakes(s, "key_sync")
    /\ client' = [client EXCEPT ![s].out = {Frame("key_sync", {})}]
    /\ UNCHANGED log

ClientChunkDiff(s) ==
    /\ ClientTakes(s, "chunk_diff")
    /\ client' = [client EXCEPT ![s].out =
                    {Frame("chunk_ids",
                           chunk_ids(log[ClientOf[s]], Head(toClient[s]).body))}]
    /\ UNCHANGED log

(* Every wanted envelope is uploaded before another frame is read.         *)
ClientWant(s) ==
    /\ ClientTakes(s, "want")
    /\ client' = [client EXCEPT ![s].out = Envelopes(Head(toClient[s]).body)]
    /\ UNCHANGED log

(* Mutant: an envelope whose author may not write is skipped.              *)
ClientEnvelope_skip(s) ==
    /\ ClientTakes(s, "envelope")
    /\ \E m \in Head(toClient[s]).body :
         IF Accepts(ClientOf[s], m) THEN append_message(ClientOf[s], m) ELSE UNCHANGED log
    /\ UNCHANGED client

(* An envelope whose author may not write ends the session.                *)
ClientEnvelope(s) ==
    /\ ClientTakes(s, "envelope")
    /\ \E m \in Head(toClient[s]).body :
         IF Accepts(ClientOf[s], m)
         THEN append_message(ClientOf[s], m) /\ UNCHANGED client
         ELSE client' = [client EXCEPT ![s] = IdleClient] /\ UNCHANGED log

ClientComplete(s) ==
    /\ ClientTakes(s, "complete")
    /\ client' = [client EXCEPT ![s].pc = "done"]
    /\ UNCHANGED log

(* "peer closed before sync completion"                                    *)
ClientClosed(s) ==
    /\ client[s].pc = "read"
    /\ server[s].pc = "idle"
    /\ toClient[s] = << >> \/ client[s].out # {}
    /\ client' = [client EXCEPT ![s] = IdleClient]
    /\ UNCHANGED <<log, refused, server, toServer, toClient, failures>>

-----------------------------------------------------------------------------
(* The server.                                                             *)

ServerTakes(s, pc, kind) ==
    /\ server[s].pc = pc
    /\ toServer[s] # << >>
    /\ Head(toServer[s]).kind = kind
    /\ toServer' = [toServer EXCEPT ![s] = Tail(@)]
    /\ UNCHANGED <<refused, client, toClient, failures>>

ServerSends(s, pc, frame) ==
    /\ server[s].pc = pc
    /\ Len(toClient[s]) < BufferCap
    /\ toClient' = [toClient EXCEPT ![s] = Append(@, frame)]
    /\ UNCHANGED <<log, refused, client, toServer, failures>>

ServerStatus(s) ==
    /\ ServerTakes(s, "status", "status")
    /\ server' = [server EXCEPT ![s].pc = "policy_sync",
                                ![s].summary = Head(toServer[s]).body]
    /\ UNCHANGED log

(* Mutant: the inventory is compared without waiting for the client's keys. *)
HandshakeAfter_unanswered ==
    [policy_sync |-> "moderation_sync", moderation_sync |-> "key_sync",
     key_sync |-> "chunk_diff"]

(* policy_sync, moderation_sync and key_sync go out one after the other.   *)
HandshakeAfter ==
    [policy_sync |-> "moderation_sync", moderation_sync |-> "key_sync",
     key_sync |-> "keys"]

ServerHandshake(s) ==
    \E pc \in DOMAIN HandshakeAfter :
       /\ ServerSends(s, pc, Frame(pc, {}))
       /\ server' = [server EXCEPT ![s].pc = HandshakeAfter[pc]]

(* The summaries are compared, but the ids of the buckets that differ are  *)
(* read afterwards.                                                        *)
ServerKeySync(s) ==
    /\ ServerTakes(s, "keys", "key_sync")
    /\ server' = [server EXCEPT ![s].pc = "chunk_diff",
                    ![s].differing = Differing(server[s].summary, log[ServerOf[s]])]
    /\ UNCHANGED log

ServerChunkDiff(s) ==
    /\ ServerSends(s, "chunk_diff", Frame("chunk_diff", server[s].differing))
    /\ server' = [server EXCEPT ![s].pc = "batch",
                    ![s].ids = chunk_ids(log[ServerOf[s]], server[s].differing)]

ServerBatch(s) ==
    /\ ServerTakes(s, "batch", "chunk_ids")
    /\ server' = [server EXCEPT ![s].pc = "want",
                    ![s].wanted = Head(toServer[s]).body \ server[s].ids,
                    ![s].out = Envelopes(server[s].ids \ Head(toServer[s]).body)]
    /\ UNCHANGED log

ServerWant(s) ==
    /\ ServerSends(s, "want", Frame("want", server[s].wanted))
    /\ server' = [server EXCEPT ![s].pc = "stream"]

(* The server sends all it has for the client before it reads an upload.   *)
ServerStream(s) ==
    \E f \in server[s].out :
       /\ ServerSends(s, "stream", f)
       /\ server' = [server EXCEPT ![s].out = @ \ {f}]

Collecting(s) == server[s].pc = "stream" /\ server[s].out = {}

(* accept_requested_id, then append_message; either may end the session.   *)
ServerCollect(s) ==
    /\ Collecting(s) /\ server[s].wanted # {}
    /\ ServerTakes(s, "stream", "envelope")
    /\ \E m \in Head(toServer[s]).body :
         IF m \in server[s].wanted /\ Accepts(ServerOf[s], m)
         THEN /\ append_message(ServerOf[s], m)
              /\ server' = [server EXCEPT ![s].wanted = @ \ {m}]
         ELSE server' = [server EXCEPT ![s] = IdleServer] /\ UNCHANGED log

ServerComplete(s) ==
    /\ Collecting(s) /\ server[s].wanted = {}
    /\ ServerSends(s, "stream", Frame("complete", {}))
    /\ server' = [server EXCEPT ![s] = IdleServer]

(* "peer closed": reads and sends fail once the client is gone.  Until     *)
(* they do, the server goes on with what is under way.                     *)
ServerClosed(s) ==
    /\ server[s].pc # "idle"
    /\ client[s].pc = "idle"
    /\ server' = [server EXCEPT ![s] = IdleServer]
    /\ UNCHANGED <<log, refused, client, toServer, toClient, failures>>

-----------------------------------------------------------------------------
ClientStep(s) ==
    \/ Connect(s) \/ ClientSend(s) \/ ClientHistory(s) \/ ClientKeySync(s)
    \/ ClientChunkDiff(s) \/ ClientWant(s) \/ ClientEnvelope(s)
    \/ ClientComplete(s) \/ ClientClosed(s)

ServerStep(s) ==
    \/ ServerStatus(s) \/ ServerHandshake(s) \/ ServerKeySync(s)
    \/ ServerChunkDiff(s) \/ ServerBatch(s) \/ ServerWant(s)
    \/ ServerStream(s) \/ ServerCollect(s) \/ ServerComplete(s)
    \/ ServerClosed(s)

(* What each end waits for: a frame to read, or room for one to send.      *)
ClientWaits(s) ==
    /\ client[s].pc = "read"
    /\ IF client[s].out = {} THEN toClient[s] = << >>
       ELSE Len(toServer[s]) >= BufferCap

ServerReads(s) ==
    \/ server[s].pc \in {"status", "keys", "batch"}
    \/ Collecting(s) /\ server[s].wanted # {}

ServerWaits(s) ==
    /\ server[s].pc # "idle"
    /\ IF ServerReads(s) THEN toServer[s] = << >>
       ELSE Len(toClient[s]) >= BufferCap

(* Neither end can go on: each waits for the other.                        *)
Stuck(s) == ClientWaits(s) /\ ServerWaits(s)

(* The deadline of sync_from_peer, 15 s: certain for a session that is     *)
(* stuck.                                                                  *)
Timeout(s) ==
    /\ Stuck(s)
    /\ client' = [client EXCEPT ![s] = IdleClient]
    /\ UNCHANGED <<log, refused, server, toServer, toClient, failures>>

(* The deadline passes for a slow session, the connection is lost, or one  *)
(* of the processes ends.                                                  *)
Disconnect(s) ==
    /\ failures < MaxFailures
    /\ failures' = failures + 1
    /\ \/ /\ client[s].pc = "read"
          /\ client' = [client EXCEPT ![s] = IdleClient]
          /\ UNCHANGED server
       \/ /\ server[s].pc # "idle"
          /\ server' = [server EXCEPT ![s] = IdleServer]
          /\ UNCHANGED client
    /\ UNCHANGED <<log, refused, toServer, toClient>>

Next ==
    \/ \E n \in Node, m \in Message : Post(n, m)
    \/ \E n \in Node : ChangePolicy(n)
    \/ \E s \in Session :
         ClientStep(s) \/ ServerStep(s) \/ Timeout(s) \/ Disconnect(s)

(* auto_sync_worker calls again every three seconds, and both ends run as  *)
(* tasks of an executor.  Nothing makes a post or a failure happen.        *)
Fairness ==
    \A s \in Session :
       /\ WF_vars(ClientStep(s))
       /\ WF_vars(ServerStep(s))
       /\ WF_vars(Timeout(s))

Spec == Init /\ [][Next]_vars

FairSpec == Spec /\ Fairness

-----------------------------------------------------------------------------
TypeOK ==
    /\ log \in [Node -> SUBSET Message]
    /\ refused \in [Node -> {{}, Revocable}]
    /\ \A s \in Session :
         /\ client[s].pc \in {"idle", "read", "done"}
         /\ client[s].had \subseteq Message
         /\ server[s].pc \in {"idle", "status", "policy_sync", "moderation_sync",
                              "key_sync", "keys", "chunk_diff", "batch", "want",
                              "stream"}
         /\ server[s].differing \subseteq Bucket
         /\ server[s].wanted \cup server[s].ids \cup server[s].summary \subseteq Message
         /\ \A m \in server[s].wanted : BucketOf[m] \in server[s].differing
         /\ Len(toServer[s]) <= BufferCap /\ Len(toClient[s]) <= BufferCap
    /\ failures \in 0..MaxFailures

(* A session that reports success has made up for every difference there   *)
(* was when it began: what either node held then, both hold now, whatever  *)
(* was posted or brought by other sessions in between.                     *)
CompleteIsConverged ==
    \A s \in Session :
       client[s].pc = "done" =>
          client[s].had \subseteq log[ClientOf[s]] \cap log[ServerOf[s]]

(* No other session concerns the two nodes.                                *)
Alone(s) ==
    /\ ClientOf[s] # ServerOf[s]
    /\ \A t \in Session \ {s} :
          {ClientOf[s], ServerOf[s]} \cap {ClientOf[t], ServerOf[t]} = {}

(* Neither end ever waits for a frame the other will not send: both can be *)
(* blocked only while each has more messages that the other lacks than a   *)
(* connection holds.  (Another session may bring some of them meanwhile.)  *)
StuckOnlyByBacklog ==
    \A s \in Session :
       LET c == log[ClientOf[s]]
           v == log[ServerOf[s]]
       IN Alone(s) /\ Stuck(s) => /\ Cardinality(c \ v) > BufferCap
                                  /\ Cardinality(v \ c) > BufferCap

Expected ==
    [status |-> "status", keys |-> "key_sync", batch |-> "chunk_ids", stream |-> "envelope"]

(* run_sync never gives up over a frame of a client that keeps to the      *)
(* protocol: "expected type=key_sync", "message id does not belong to      *)
(* chunk" and "client uploaded unrequested envelope" are for others,       *)
(* although either log grows while they talk and the client may be gone    *)
(* when its frames are read.                                               *)
FramesExpected ==
    \A s \in Session :
       ServerReads(s) /\ toServer[s] # << >> =>
          LET f == Head(toServer[s]) IN
             /\ f.kind = Expected[server[s].pc]
             /\ f.kind = "chunk_ids" => \A m \in f.body : BucketOf[m] \in server[s].differing
             /\ f.kind = "envelope" => f.body \subseteq server[s].wanted

(* The sessions move messages between the logs and do nothing else to      *)
(* them: SharedLog.                                                        *)
Shared == INSTANCE SharedLog WITH
    Link <- UNION {{<<ClientOf[s], ServerOf[s]>>, <<ServerOf[s], ClientOf[s]>>} : s \in Session}

SharedSpec == Shared!Spec

(* ADR-002: "Divergent peers converge without assuming a shared prefix".   *)
(* Once posts and failures have stopped, the logs become equal.            *)
Converges ==
    <>[](\A s \in Session : log[ClientOf[s]] = log[ServerOf[s]])
=============================================================================
