--------------------------- MODULE BackgroundSync ---------------------------
(***************************************************************************)
(* auto_sync_worker of one terminal client: every round it lists the saved *)
(* peers, and of each one after the other discovers the channels and       *)
(* synchronises them (sync_all_from_peer), while commands change the list  *)
(* (Peers) and others ask the same responders for challenges (Discovery).  *)
(* What a session does is the subject of SyncSession; here it succeeds or  *)
(* fails.                                                                  *)
(***************************************************************************)
EXTENDS Peers, Discovery, Sequences

CONSTANTS
    Rank,           \* the order of the URLs
    Identity,       \* the identity that answers at a URL
    Online,         \* the URLs where one answers
    Channels,       \* per URL, the sorted channels its status lists
    Skew,           \* the client's clock less the responders', in ticks
    NoUrl,
    NoNonce

ASSUME BackgroundConstantsOK ==
    /\ Responder = Url
    /\ Rank \in [Url -> Nat]
    /\ \A u, v \in Url : Rank[u] = Rank[v] => u = v
    /\ Identity \in [Url -> Key]
    /\ Online \subseteq Url
    /\ \A u \in Url : Channels[u] \in Seq(Range(Channels[u]))
    /\ Skew \in Int
    /\ NoUrl \notin Url /\ NoNonce \notin Nonce

VARIABLES
    worker,         \* auto_sync_worker
    removed         \* history: URLs without a record at some time in the round

vars == <<peers, running, challenges, worker, removed>>

(* pc is what the worker does with peer url, todo are the peers to come,   *)
(* channel is the index of the peer's channel at hand.  waited is the age  *)
(* of the challenge, and signed what it was when the answer was signed.    *)
(* event is what was last said about a peer.                               *)
Asleep == [pc |-> "asleep", todo |-> {}, url |-> NoUrl, nonce |-> NoNonce,
           waited |-> 0, signed |-> 0, channel |-> 0, event |-> "none"]

Init ==
    /\ PeersInit
    /\ DiscoveryInit
    /\ worker = Asleep
    /\ removed = {}

At(pc, u) == worker.pc = pc /\ worker.url = u

Peerless == <<peers, running, removed>>

(* An AutoSyncEvent is sent, and the loop takes the next peer.             *)
Event(e) == [Asleep EXCEPT !.pc = "next", !.todo = worker.todo, !.event = e]

(* list_peers, at each tick of the interval.                               *)
StartRound ==
    /\ worker.pc = "asleep"
    /\ worker' = [Asleep EXCEPT !.pc = "next",
                                !.todo = {u \in Url : peers[u] # Absent}]
    /\ removed' = {}
    /\ UNCHANGED <<peers, running, challenges>>

NextPeer(u) ==
    /\ worker.pc = "next"
    /\ u \in worker.todo
    /\ \A v \in worker.todo : Rank[u] <= Rank[v]
    /\ worker' = [worker EXCEPT !.pc = "ask", !.url = u, !.event = "none",
                                !.todo = @ \ {u}]
    /\ UNCHANGED <<challenges, Peerless>>

EndRound ==
    /\ worker.pc = "next"
    /\ worker.todo = {}
    /\ worker' = Asleep
    /\ UNCHANGED <<challenges, Peerless>>

-----------------------------------------------------------------------------
(* 32 random bytes: a nonce that nobody has; which one does not matter.    *)
Fresh(r) == CHOOSE n \in Nonce : n \notin Issued(r) \cup {worker.nonce}

(* discover_peer_channels.                                                 *)

RequestChallenge(u) ==
    /\ At("ask", u) /\ u \in Online
    /\ \/ /\ challenge(u, Fresh(u))
          /\ worker' = [worker EXCEPT !.pc = "verify", !.nonce = Fresh(u)]
       \/ TooManyChallenges(u) /\ worker' = Event("refused")
    /\ UNCHANGED Peerless

(* verify_auth_challenge, by the client's clock.                           *)
ValidExpiry ==
    LET left == Lifetime - worker.waited - Skew IN 0 <= left /\ left <= Lifetime

(* Mutant: a record without an identity expects none.                      *)
Expected_unpinned(u) == peers[u] \in {Absent, Unpinned, Identity[u]}

Expected(u) ==
    /\ expected_peer_key(u).ok
    /\ expected_peer_key(u).key \in {Absent, Identity[u]}

VerifyChallenge(u) ==
    /\ At("verify", u)
    /\ worker' = IF Expected(u) /\ ValidExpiry
                 THEN [worker EXCEPT !.pc = "status", !.signed = worker.waited]
                 ELSE Event("refused")
    /\ UNCHANGED <<challenges, Peerless>>

(* When the request was signed, by the responder's clock.                  *)
Timestamp == Skew - (worker.waited - worker.signed)

RequestStatus(u) ==
    /\ At("status", u)
    /\ \/ /\ discovery_requester(u, worker.nonce, Timestamp)
          /\ worker' = IF Channels[u] = << >> THEN Event("complete")
                       ELSE [Asleep EXCEPT !.pc = "connect", !.todo = worker.todo,
                                           !.url = u, !.channel = 1]
       \/ /\ Unauthorized(u, worker.nonce, Timestamp)
          /\ worker' = Event("refused")
    /\ UNCHANGED Peerless

(* The responder cannot read the policy of one of its channels, and lists  *)
(* none (unwrap_or_default).                                               *)
ListsNothing(u) ==
    /\ At("status", u)
    /\ discovery_requester(u, worker.nonce, Timestamp)
    /\ worker' = Event("complete")
    /\ UNCHANGED Peerless

-----------------------------------------------------------------------------
(* sync_all_from_peer: create_channel and sync_from_peer for each channel. *)

Connect(u) ==
    /\ At("connect", u)
    /\ worker' = IF Expected(u) THEN [worker EXCEPT !.pc = "session"]
                 ELSE Event("refused")
    /\ UNCHANGED <<challenges, Peerless>>

Complete(u) ==
    /\ At("session", u)
    /\ worker' = IF worker.channel = Len(Channels[u]) THEN Event("complete")
                 ELSE [worker EXCEPT !.pc = "connect", !.channel = @ + 1]
    /\ UNCHANGED <<challenges, Peerless>>

(* No connection, no answer in time, a session that ends with an error.    *)
Fail(u) ==
    /\ worker.url = u
    /\ worker.pc # "verify"
    /\ worker' = Event("lost")
    /\ UNCHANGED <<challenges, Peerless>>

-----------------------------------------------------------------------------
(* Other clients of a responder: they ask for challenges, and answer them  *)
(* or not.                                                                 *)
AskedByOther(r) ==
    /\ challenge(r, Fresh(r)) \/ TooManyChallenges(r)
    /\ UNCHANGED <<worker, Peerless>>

AnsweredByOther(r) ==
    /\ \E n \in Nonce \ {worker.nonce} : discovery_requester(r, n, 0)
    /\ UNCHANGED <<worker, Peerless>>

(* A request takes less than a tick: the deadlines are 5 s.                *)
Tick ==
    /\ worker.pc \in {"verify", "status"} => worker.waited = 0
    /\ PassTime
    /\ worker' = IF worker.pc \in {"verify", "status"}
                 THEN [worker EXCEPT !.waited = 1] ELSE worker
    /\ UNCHANGED Peerless

Manage ==
    /\ PeersNext
    /\ removed' = removed \cup {u \in Url : peers'[u] = Absent}
    /\ UNCHANGED <<challenges, worker>>

Exchange(u) ==
    \/ NextPeer(u) \/ RequestChallenge(u) \/ VerifyChallenge(u)
    \/ RequestStatus(u) \/ Connect(u) \/ Complete(u)

Next ==
    \/ StartRound \/ EndRound
    \/ \E u \in Url : Exchange(u) \/ ListsNothing(u) \/ Fail(u)
    \/ \E r \in Online : AskedByOther(r) \/ AnsweredByOther(r)
    \/ Tick
    \/ Manage

Spec == Init /\ [][Next]_vars

(* The interval ticks and every request has a deadline, after which the    *)
(* worker goes on.                                                         *)
Fairness ==
    /\ WF_vars(StartRound) /\ WF_vars(EndRound)
    /\ \A u \in Url : WF_vars(Exchange(u) \/ ListsNothing(u) \/ Fail(u))
    /\ WF_vars(Tick)

FairSpec == Spec /\ Fairness
-----------------------------------------------------------------------------
TypeOK ==
    /\ PeersTypeOK
    /\ DiscoveryTypeOK
    /\ worker.pc \in {"asleep", "next", "ask", "verify", "status", "connect",
                     "session"}
    /\ worker.pc \in {"asleep", "next"} <=> worker.url = NoUrl
    /\ worker.pc \in {"verify", "status"} <=> worker.nonce # NoNonce
    /\ worker.todo \cup removed \subseteq Url
    /\ worker.pc \in {"connect", "session"} =>
          worker.channel \in DOMAIN Channels[worker.url]
    /\ worker.event \in {"none", "complete", "refused", "lost"}

(* ADR-016: "persistent automatic synchronization is strict".  Whoever the *)
(* worker answers or exchanges a channel with is still the identity pinned *)
(* for the URL, however old its list and its check are, unless the peer    *)
(* was removed since the round began.                                      *)
StrictUnlessRemoved ==
    worker.pc \in {"status", "session"} =>
       worker.url \in removed \/ peers[worker.url] = Identity[worker.url]

(* ADR-015: challenges are single-use and their number is bounded.  Yet    *)
(* one that was handed out is honoured for as long as it said, whatever    *)
(* others ask for in the meantime.                                         *)
ChallengesHonoured ==
    worker.pc \in {"verify", "status"} =>
       /\ worker.nonce \in Live(worker.url)
       /\ challenges[worker.url][worker.nonce] = Lifetime - worker.waited

(* ADR-011: "A saved peer is sufficient for channels and new messages to   *)
(* appear", and "Offline peers [...] do not stop the client".  Once a peer *)
(* is pinned, a channel it lists is synchronised again and again, however  *)
(* the other peers fail and full its table of challenges once was; but     *)
(* only if the sessions of the channels before it do not fail.             *)
Reached ==
    \A u \in Online : \A i \in DOMAIN Channels[u] :
       /\ <>[](peers[u] = Identity[u])
       /\ <>[][~(Fail(u) /\ worker.channel <= i)]_vars
       /\ <>[][~ListsNothing(u) /\ ~\E r \in Online : AskedByOther(r)]_vars
       => []<><<Complete(u) /\ worker.channel = i>>_vars
=============================================================================
