------------------------------- MODULE KeyRing -------------------------------
(***************************************************************************)
(* channel-keys.json of a private channel on several nodes (crypto.rs),    *)
(* the operations that rotate the key (store.rs), and the key exchange of  *)
(* a sync session with the policy part before it and the messages behind   *)
(* it (sync.rs).                                                           *)
(*                                                                         *)
(* A key is its id, a number in the order of generation, and a message is  *)
(* its author and the key it is encrypted with.  An offer carries one key  *)
(* and only its recipient can open it.  What PolicyHistory and SyncSession *)
(* detail is short here: the server reconciles the policy in one action,   *)
(* the logs are compared in one action, and a fork only ends the session.  *)
(***************************************************************************)
EXTENDS PolicyChain

SE == INSTANCE SequencesExt

CONSTANTS
    Node, IdentityOf,   \* the nodes and their identities
    Edits,              \* the events operators try to make
    Founded,            \* the history every node has at first
    Dials,              \* the pairs <<client, server>> that synchronise
    MAX_KEY_OFFERS,     \* the most offers an end accepts in one frame
    MaxEvents,          \* bound: events in a history
    MaxKeys,            \* bound: keys generated
    MaxPosts,           \* bound: messages of a node
    MaxCuts             \* bound: sessions lost

ASSUME KeyRingOK ==
    /\ IdentityOf \in [Node -> Identity]
    /\ Edits \subseteq PolicyEvent
    /\ Dials \subseteq Node \X Node
    /\ Founded \in Seq(PolicyEvent) /\ ValidHistory(Founded)
    /\ {MAX_KEY_OFFERS, MaxEvents, MaxKeys, MaxPosts, MaxCuts} \subseteq Nat

VARIABLES
    history,        \* policy.ndjson of each node
    keys,           \* channel-keys.json of each node, oldest first
    lock,           \* channel-keys.lock of each node: who holds it
    seen,           \* the keys the holder has loaded
    op,             \* the command under way on each node
    log,            \* the messages of each node
    session,        \* per dial, the session under way
    made, cuts      \* keys generated and sessions lost so far

rings == <<keys, lock, seen>>
vars == <<history, keys, lock, seen, op, log, session, made, cuts>>

Nobody == <<"nobody">>
Operator(n) == <<n, "operator">>
Client(d) == <<d, "client">>
Server(d) == <<d, "server">>
Process == {Operator(n) : n \in Node} \cup {Client(d) : d \in Dials}
              \cup {Server(d) : d \in Dials}

Ring(n) == SE!ToSet(keys[n])
policy(n) == derive_policy(history[n])

Idle == [step |-> "idle"]
NoSession == [client |-> "idle", server |-> "idle", toClient |-> << >>,
              toServer |-> << >>, policy |-> DefaultPolicy,
              had |-> {}, download |-> {}, upload |-> {}]

Init ==
    /\ history = [n \in Node |-> Founded]
    /\ keys = [n \in Node |-> << >>]
    /\ lock = [n \in Node |-> Nobody]
    /\ seen = [p \in Process |-> << >>]
    /\ op = [n \in Node |-> Idle]
    /\ log = [n \in Node |-> {}]
    /\ session = [d \in Dials |-> NoSession]
    /\ made = 0 /\ cuts = 0

-----------------------------------------------------------------------------
(* The keyring: load_keys and save_keys under the lock.                    *)

(* Mutant: the keyring is not locked.                                      *)
Free_always(n) == TRUE

Free(n) == lock[n] = Nobody

(* lock_keyring and load_keys.                                             *)
LoadKeys(p, n) ==
    /\ Free(n)
    /\ lock' = [lock EXCEPT ![n] = p]
    /\ seen' = [seen EXCEPT ![p] = keys[n]]
    /\ UNCHANGED keys

(* save_keys replaces the file by a rename, and the lock is dropped.       *)
SaveKeys(p, n, ks) ==
    /\ keys' = [keys EXCEPT ![n] = ks]
    /\ lock' = [lock EXCEPT ![n] = Nobody]
    /\ seen' = [seen EXCEPT ![p] = << >>]

(* A process that ends leaves its locks.                                   *)
Release(ps) ==
    /\ lock' = [n \in Node |-> IF lock[n] \in ps THEN Nobody ELSE lock[n]]
    /\ seen' = [p \in Process |-> IF p \in ps THEN << >> ELSE seen[p]]
    /\ UNCHANGED keys

(* Mutant: an offered key is stored although it is there.                  *)
Accepted_again(ring, offers) == ring \o offers

(* Mutant: a node that has keys takes no more.                             *)
Accepted_first(ring, offers) == IF ring = << >> THEN offers ELSE ring

(* accept_key_offers: the keys that are new, in the order of the offers.   *)
Accepted(ring, offers) ==
    LET after[i \in 0..Len(offers)] ==
            IF i = 0 THEN ring
            ELSE IF offers[i] \in SE!ToSet(after[i - 1]) THEN after[i - 1]
            ELSE Append(after[i - 1], offers[i])
    IN  after[Len(offers)]

(* Mutant: only the current key is offered.                                *)
Offers_current(n) == IF keys[n] = << >> THEN << >> ELSE <<SE!Last(keys[n])>>

(* make_key_offers wraps every key.                                        *)
Offers(n) == keys[n]

-----------------------------------------------------------------------------
(* Commands.                                                               *)

(* The changes that begin with a new key.                                  *)
Rotates(p, action) ==
    \/ action.type \in {"revoke", "transfer_owner"} /\ p.visibility = "private"
    \/ action = SetVisibility("private")

(* revoke_role, transfer_ownership and set_channel_visibility check before *)
(* the key is generated, and grant_role only when the event is appended.   *)
StartChange(n, action) ==
    /\ op[n] = Idle
    /\ Event(IdentityOf[n], action) \in Edits
    /\ Len(history[n]) < MaxEvents
    /\ accepts(policy(n), IdentityOf[n], action)
    /\ IF Rotates(policy(n), action)
       THEN /\ made < MaxKeys
            /\ made' = made + 1
            /\ op' = [op EXCEPT ![n] = [step |-> "generate", key |-> made + 1,
                                        then |-> [step |-> "change", action |-> action]]]
       ELSE /\ op' = [op EXCEPT ![n] = [step |-> "change", action |-> action]]
            /\ UNCHANGED made
    /\ UNCHANGED <<history, rings, log, session, cuts>>

(* sign_message_for_channel has read that the channel is private: an owner *)
(* without keys generates one, others without keys are refused.  (In a     *)
(* public channel no key comes into it.)                                   *)
StartPost(n) ==
    /\ op[n] = Idle
    /\ Cardinality({m \in log[n] : m.author = n}) < MaxPosts
    /\ policy(n).visibility = "private"
    /\ IF keys[n] = << >> /\ policy(n).owner = IdentityOf[n]
       THEN /\ made < MaxKeys
            /\ made' = made + 1
            /\ op' = [op EXCEPT ![n] = [step |-> "generate", key |-> made + 1,
                                        then |-> [step |-> "encrypt"]]]
       ELSE /\ keys[n] # << >>
            /\ op' = [op EXCEPT ![n] = [step |-> "encrypt"]]
            /\ UNCHANGED made
    /\ UNCHANGED <<history, rings, log, session, cuts>>

(* generate_channel_key.                                                   *)
LoadToGenerate(n) ==
    /\ op[n].step = "generate"
    /\ LoadKeys(Operator(n), n)
    /\ op' = [op EXCEPT ![n].step = "push"]
    /\ UNCHANGED <<history, log, session, made, cuts>>

generate_channel_key(n) ==
    /\ op[n].step = "push"
    /\ SaveKeys(Operator(n), n, Append(seen[Operator(n)], op[n].key))
    /\ op' = [op EXCEPT ![n] = @.then]
    /\ UNCHANGED <<history, log, session, made, cuts>>

(* append_policy_action replays the history as it is by now.               *)
append_policy_action(n) ==
    /\ op[n].step = "change"
    /\ LET h == Append(history[n], Event(IdentityOf[n], op[n].action)) IN
         history' = IF ValidHistory(h) THEN [history EXCEPT ![n] = h] ELSE history
    /\ op' = [op EXCEPT ![n] = Idle]
    /\ UNCHANGED <<rings, log, session, made, cuts>>

(* encrypt_message uses the current key, the last of the keyring.          *)
encrypt_message(n) ==
    /\ op[n].step = "encrypt"
    /\ op' = [op EXCEPT ![n] = [step |-> "append", key |-> SE!Last(keys[n])]]
    /\ UNCHANGED <<history, rings, log, session, made, cuts>>

Message(n, k) == [author |-> n, key |-> k]

append_message(n) ==
    /\ op[n].step = "append"
    /\ log' = IF may_append(policy(n), IdentityOf[n])
              THEN [log EXCEPT ![n] = @ \cup {Message(n, op[n].key)}]
              ELSE log
    /\ op' = [op EXCEPT ![n] = Idle]
    /\ UNCHANGED <<history, rings, session, made, cuts>>

(* The process is killed: what it has saved stays.                         *)
Kill(n) ==
    /\ op[n] # Idle
    /\ op' = [op EXCEPT ![n] = Idle]
    /\ Release({Operator(n)})
    /\ UNCHANGED <<history, log, session, made, cuts>>

-----------------------------------------------------------------------------
(* A session of dial d = <<client, server>>.                               *)

Frame(kind, content) == [kind |-> kind, content |-> content]

Update(d, fields) ==
    session' = [session EXCEPT ![d] =
                  [f \in DOMAIN @ |-> IF f \in DOMAIN fields THEN fields[f] ELSE @[f]]]

(* Either end fails, and with it the connection.                           *)
EndSession(d) ==
    /\ session' = [session EXCEPT ![d] = NoSession]
    /\ Release({Client(d), Server(d)})
    /\ UNCHANGED <<history, op, log, made>>

Fail(d) == EndSession(d) /\ UNCHANGED cuts

(* The client has read its history and sends its status.                   *)
Connect(d) ==
    /\ session[d] = NoSession
    /\ Update(d, [client |-> "policy", server |-> "policy",
                  toServer |-> <<Frame("status", history[d[1]])>>,
                  had |-> Ring(d[1]) \cup Ring(d[2])])
    /\ UNCHANGED <<history, rings, op, log, made, cuts>>

(* run_sync up to the policy_sync frame: it takes a longer history and     *)
(* asks before and after whether the client is a member.                   *)
ServerPolicy(d) ==
    LET s == d[2]
        remote == session[d].toServer[1].content
        merged == IF Prefix(history[s], remote) THEN remote ELSE history[s]
        member(h) == policy_allows_read(derive_policy(h), IdentityOf[d[1]])
    IN  /\ session[d].server = "policy"
        /\ IF member(history[s]) /\ (Prefix(history[s], remote) \/ Prefix(remote, history[s]))
           THEN /\ history' = [history EXCEPT ![s] = merged]
                /\ IF member(merged)
                   THEN Update(d, [server |-> "offer", toServer |-> << >>,
                                   toClient |-> <<Frame("update", merged)>>])
                        /\ UNCHANGED rings
                   ELSE session' = [session EXCEPT ![d] = NoSession]
                        /\ Release({Client(d), Server(d)})
                /\ UNCHANGED <<op, log, made, cuts>>
           ELSE Fail(d)

(* Mutant: the client takes any history that it is sent.                   *)
ClientPolicy_any(d) ==
    LET remote == Head(session[d].toClient).content
    IN  /\ session[d].client = "policy" /\ session[d].toClient # << >>
        /\ history' = [history EXCEPT ![d[1]] = remote]
        /\ Update(d, [client |-> "keys", toClient |-> Tail(session[d].toClient)])
        /\ UNCHANGED <<rings, op, log, made, cuts>>

ClientPolicy(d) ==
    LET c == d[1]
        remote == Head(session[d].toClient).content
    IN  /\ session[d].client = "policy" /\ session[d].toClient # << >>
        /\ IF Prefix(history[c], remote)
           THEN /\ history' = [history EXCEPT ![c] = remote]
                /\ Update(d, [client |-> "keys", toClient |-> Tail(session[d].toClient)])
                /\ UNCHANGED <<rings, op, log, made, cuts>>
           ELSE Fail(d)

(* The server reads the policy once more and judges the rest of the key    *)
(* exchange by it.                                                         *)
ServerOffer(d) ==
    LET s == d[2]
        p == policy(s)
    IN  /\ session[d].server = "offer"
        /\ IF policy_allows_read(p, IdentityOf[d[1]]) /\ policy_allows_read(p, IdentityOf[s])
           THEN /\ Update(d, [server |-> "keys", policy |-> p,
                              toClient |-> Append(session[d].toClient, Frame("keys",
                                 IF p.visibility = "private" THEN Offers(s) ELSE << >>))])
                /\ UNCHANGED <<history, rings, op, log, made, cuts>>
           ELSE Fail(d)

(* Offers that come from the other end and are fit to be taken, under the  *)
(* policy p.                                                               *)
Fit(p, sender, offers) ==
    /\ Len(offers) <= MAX_KEY_OFFERS
    /\ IF p.visibility = "private" THEN policy_allows_read(p, sender)
       ELSE offers = << >>

(* The client's key_sync handler: it checks, then takes the lock.          *)
ClientKeys(d) ==
    LET c == d[1]
        offers == Head(session[d].toClient).content
    IN  /\ session[d].client = "keys" /\ session[d].toClient # << >>
        /\ IF ~Fit(policy(c), IdentityOf[d[2]], offers) THEN Fail(d)
           ELSE IF policy(c).visibility = "private"
           THEN /\ LoadKeys(Client(d), c)
                /\ Update(d, [client |-> "accept"])
                /\ UNCHANGED <<history, op, log, made, cuts>>
           ELSE /\ Update(d, [client |-> "messages", toClient |-> << >>,
                              toServer |-> <<Frame("keys", << >>)>>, had |-> {}])
                /\ UNCHANGED <<history, rings, op, log, made, cuts>>

ClientAccept(d) ==
    /\ session[d].client = "accept"
    /\ SaveKeys(Client(d), d[1], Accepted(seen[Client(d)], Head(session[d].toClient).content))
    /\ Update(d, [client |-> "reply", toClient |-> << >>])
    /\ UNCHANGED <<history, op, log, made, cuts>>

(* It answers with its own keys.                                           *)
ClientReply(d) ==
    /\ session[d].client = "reply"
    /\ Update(d, [client |-> "messages", toServer |-> <<Frame("keys", Offers(d[1]))>>])
    /\ UNCHANGED <<history, rings, op, log, made, cuts>>

(* What follows the key exchange: the logs are compared.                   *)
Inventory(d) ==
    [server |-> "messages", toServer |-> << >>,
     download |-> log[d[2]] \ log[d[1]], upload |-> log[d[1]] \ log[d[2]]]

ServerKeys(d) ==
    LET p == session[d].policy
        offers == session[d].toServer[1].content
    IN  /\ session[d].server = "keys" /\ session[d].toServer # << >>
        /\ IF ~Fit(p, IdentityOf[d[1]], offers) THEN Fail(d)
           ELSE IF p.visibility = "private"
           THEN /\ LoadKeys(Server(d), d[2])
                /\ Update(d, [server |-> "accept"])
                /\ UNCHANGED <<history, op, log, made, cuts>>
           ELSE /\ Update(d, Inventory(d))
                /\ UNCHANGED <<history, rings, op, log, made, cuts>>

ServerAccept(d) ==
    /\ session[d].server = "accept"
    /\ SaveKeys(Server(d), d[2], Accepted(seen[Server(d)], session[d].toServer[1].content))
    /\ Update(d, Inventory(d))
    /\ UNCHANGED <<history, op, log, made, cuts>>

(* append_message on the receiving end; a refusal ends the session.        *)
Receive(d, n, m, rest) ==
    IF may_append(policy(n), IdentityOf[m.author])
    THEN /\ log' = [log EXCEPT ![n] = @ \cup {m}]
         /\ Update(d, rest)
         /\ UNCHANGED <<history, rings, op, made, cuts>>
    ELSE Fail(d)

Download(d) ==
    /\ session[d].server = "messages"
    /\ \E m \in session[d].download :
         Receive(d, d[1], m, [download |-> session[d].download \ {m}])

(* The server streams what it has before it reads an upload.               *)
Upload(d) ==
    /\ session[d].server = "messages" /\ session[d].download = {}
    /\ \E m \in session[d].upload :
         Receive(d, d[2], m, [upload |-> session[d].upload \ {m}])

Complete(d) ==
    /\ session[d].server = "messages"
    /\ session[d].download \cup session[d].upload = {}
    /\ Fail(d)

(* The connection is lost, or the process of either end.                   *)
Cut(d) ==
    /\ session[d] # NoSession
    /\ cuts < MaxCuts
    /\ cuts' = cuts + 1
    /\ EndSession(d)

-----------------------------------------------------------------------------
Actions == {e.action : e \in Edits}

Command(n) ==
    \/ LoadToGenerate(n) \/ generate_channel_key(n) \/ append_policy_action(n)
    \/ encrypt_message(n) \/ append_message(n)

ClientStep(d) == ClientPolicy(d) \/ ClientKeys(d) \/ ClientAccept(d) \/ ClientReply(d)

ServerStep(d) ==
    \/ ServerPolicy(d) \/ ServerOffer(d) \/ ServerKeys(d) \/ ServerAccept(d)
    \/ Download(d) \/ Upload(d) \/ Complete(d)

Next ==
    \/ \E n \in Node : \E a \in Actions : StartChange(n, a)
    \/ \E n \in Node : StartPost(n) \/ Command(n) \/ Kill(n)
    \/ \E d \in Dials : Connect(d) \/ ClientStep(d) \/ ServerStep(d) \/ Cut(d)

(* auto_sync_worker connects again and again; both ends and the commands   *)
(* are processes that run, and a lock that is free again and again is had. *)
Fairness ==
    /\ \A n \in Node : SF_vars(Command(n))
    /\ \A d \in Dials : WF_vars(Connect(d)) /\ SF_vars(ClientStep(d)) /\ SF_vars(ServerStep(d))

Spec == Init /\ [][Next]_vars /\ Fairness

-----------------------------------------------------------------------------
Key == 1..MaxKeys

TypeOK ==
    /\ \A n \in Node :
         /\ ValidHistory(history[n]) /\ Prefix(Founded, history[n])
         /\ keys[n] \in Seq(Key) /\ SE!IsInjective(keys[n])
         /\ lock[n] \in Process \cup {Nobody}
         /\ op[n].step \in {"idle", "generate", "push", "change", "encrypt", "append"}
         /\ log[n] \subseteq [author : Node, key : Key]
    /\ \A p \in Process : seen[p] \in Seq(Key)
    /\ \A d \in Dials :
         /\ session[d].client \in {"idle", "policy", "keys", "accept", "reply", "messages"}
         /\ session[d].server \in {"idle", "policy", "offer", "keys", "accept", "messages"}
    /\ made \in 0..MaxKeys /\ cuts \in 0..MaxCuts

(* ADR-014: "Historical keys remain available so retained history can      *)
(* still be decrypted".  A rotation and the exchanges of several sessions  *)
(* rewrite one file, and none of them drops a key.                         *)
KeysKept == [][\A n \in Node : Ring(n) \subseteq Ring(n)']_vars

(* A session that comes to compare the logs has given each end every key   *)
(* that either had when it began, unless the channel was public then for   *)
(* one of them (had is empty if it was for the client, whose policy may be *)
(* behind the server's).                                                   *)
RingsExchanged ==
    \A d \in Dials :
       session[d].server = "messages" /\ session[d].policy.visibility = "private" =>
          session[d].had \subseteq Ring(d[1]) \cap Ring(d[2])

(* The policy part of a session, in one action on each side, does nothing  *)
(* that the sessions of PolicyHistory do not: SharedHistory.               *)
Shared == INSTANCE SharedHistory WITH
    Start <- [n \in Node |-> Founded], Replays <- ValidHistory,
    branch <- history, saved <- [n \in Node |-> {}]

SharedSpec == Shared!Spec

Members(d) ==
    /\ history[d[1]] = history[d[2]]
    /\ \A n \in {d[1], d[2]} : /\ policy_allows_read(policy(n), IdentityOf[n])
                               /\ may_append(policy(n), IdentityOf[n])

Legible(n) == \A m \in log[n] : m.key \in Ring(n)

(* ADR-014: members "can read retained history".  read_channel_tail fails  *)
(* for the whole channel while one message lacks its key: a message may    *)
(* arrive before its key, but between nodes that stay members the key      *)
(* follows, whatever was rotated, by whom, and which sessions were lost.   *)
MessagesReadable ==
    \A d \in Dials : <>[]Members(d) => <>[](Legible(d[1]) /\ Legible(d[2]))
=============================================================================
