------------------------ MODULE BackgroundSyncProofs ------------------------
(***************************************************************************)
(* TLAPS proofs about the saved peers and the worker that uses them, for   *)
(* any URLs, identities, commands and number of processes.                 *)
(***************************************************************************)
EXTENDS BackgroundSync, FiniteSetTheorems, TLAPS

-----------------------------------------------------------------------------
(* The commands on peers.json, alone or as part of BackgroundSync.         *)

PeersInv == PeersTypeOK /\ ReadIsCurrent

LEMMA PeersInitially == PeersInit => PeersInv
  BY DEF PeersInit, PeersInv, PeersTypeOK, ReadIsCurrent, Record

(* What a command makes of a list is a list.                               *)
LEMMA ChangedType ==
  ASSUME NEW list \in [Url -> Record], NEW c \in Commands
  PROVE  /\ Target(c) \in Url
         /\ Changed(list, c) \in [Url -> Record]
  <1>1. c \in Command
    BY PeersConstantsOK DEF PeersConstantsOK
  <1>2. c.url \in Spelling /\ c.key \in Key \cup {Unpinned}
    BY <1>1 DEF Command, Add, Remove
  <1>3. Target(c) \in Url
    BY <1>2, PeersConstantsOK DEF PeersConstantsOK, Target
  <1> QED
    BY <1>2, <1>3 DEF Changed, Record

(* A process other than the one that has the lock neither reads nor writes *)
(* the list.                                                               *)
LEMMA PeersStep == PeersInv /\ [PeersNext]_peersVars => PeersInv'
  <1> SUFFICES ASSUME PeersInv, [PeersNext]_peersVars PROVE PeersInv'
    OBVIOUS
  <1> USE DEF PeersInv, PeersTypeOK, ReadIsCurrent
  <1>1. ASSUME NEW p \in Process, NEW c \in Commands, Begin(p, c)
        PROVE  PeersInv'
    <2>1. [command |-> c, list |-> peers] \in Running
      BY DEF Running
    <2>2. PeersTypeOK'
      BY <1>1, <2>1 DEF Begin
    <2>3. ASSUME NEW q \in Process, running'[q] # Idle
          PROVE  q = p /\ running'[q].list = peers'
      BY <1>1, <2>3 DEF Begin, LockFree
    <2> QED
      BY <2>2, <2>3
  <1>2. ASSUME NEW p \in Process, write_peers(p)
        PROVE  PeersInv'
    <2>1. running[p] \in Running
      BY <1>2 DEF write_peers
    <2>2. peers' \in [Url -> Record]
      BY <1>2, <2>1, ChangedType DEF write_peers, Running
    <2>3. \A q \in Process : running'[q] = Idle
      BY <1>2 DEF write_peers
    <2> QED
      BY <1>2, <2>2, <2>3 DEF write_peers
  <1>3. ASSUME NEW p \in Process, GiveUp(p)
        PROVE  PeersInv'
    <2>1. \A q \in Process : running'[q] = Idle
      BY <1>3 DEF GiveUp
    <2> QED
      BY <1>3, <2>1 DEF GiveUp
  <1>4. CASE UNCHANGED peersVars
    BY <1>4 DEF peersVars
  <1> QED
    BY <1>1, <1>2, <1>3, <1>4 DEF PeersNext

(* Each step of the commands is a step of PinBook.                         *)
LEMMA PeersRefine == PeersInv /\ [PeersNext]_peersVars => [Book!Next]_peers
  <1> SUFFICES ASSUME PeersInv, [PeersNext]_peersVars PROVE [Book!Next]_peers
    OBVIOUS
  <1> USE DEF PeersInv, PeersTypeOK, ReadIsCurrent
  <1>1. ASSUME NEW p \in Process, write_peers(p)
        PROVE  [Book!Next]_peers
    <2> DEFINE c == running[p].command
               u == Target(c)
    <2>1. running[p] \in Running /\ running[p].list = peers
      BY <1>1 DEF write_peers
    <2>2. c \in Commands /\ u \in Url
      BY <2>1, ChangedType DEF Running
    <2>3. c \in Command
      BY <2>2, PeersConstantsOK DEF PeersConstantsOK
    <2>4. peers' = Changed(peers, c) /\ ~Conflict(peers, c)
      BY <1>1, <2>1 DEF write_peers
    <2> HIDE DEF c
    <2>5. CASE c.op = "remove"
      <3>1. peers' = [peers EXCEPT ![u] = Absent]
        BY <2>4, <2>5 DEF Changed
      <3> QED
        BY <2>2, <3>1 DEF Book!Next, Book!Forget
    <2>6. CASE c.op = "add" /\ c.key \in Key
      <3>1. peers' = [peers EXCEPT ![u] = c.key]
        BY <2>4, <2>6 DEF Changed
      <3>2. peers[u] \notin Key \/ peers[u] = c.key
        BY <2>4, <2>6 DEF Conflict
      <3>3. CASE peers[u] \notin Key
        BY <2>2, <2>6, <3>1, <3>3 DEF Book!Next, Book!Pin
      <3>4. CASE peers[u] = c.key
        BY <3>1, <3>4
      <3> QED
        BY <3>2, <3>3, <3>4
    <2>7. CASE c.op = "add" /\ c.key = Unpinned
      <3>1. peers' = [peers EXCEPT ![u] =
                        IF peers[u] = Absent THEN Unpinned ELSE peers[u]]
        BY <2>4, <2>7, PeersConstantsOK DEF Changed, PeersConstantsOK
      <3>2. CASE peers[u] = Absent
        BY <2>2, <3>1, <3>2 DEF Book!Next, Book!Save
      <3>3. CASE peers[u] # Absent
        BY <3>1, <3>3
      <3> QED
        BY <3>2, <3>3
    <2> QED
      BY <2>3, <2>5, <2>6, <2>7 DEF Command, Add, Remove
  <1>2. ASSUME NEW p \in Process, NEW c \in Commands, Begin(p, c)
        PROVE  UNCHANGED peers
    BY <1>2 DEF Begin
  <1>3. ASSUME NEW p \in Process, GiveUp(p)
        PROVE  UNCHANGED peers
    BY <1>3 DEF GiveUp
  <1>4. CASE UNCHANGED peersVars
    BY <1>4 DEF peersVars
  <1> QED
    BY <1>1, <1>2, <1>3, <1>4 DEF PeersNext

(* The list of saved peers stays a list of records, and commands exclude   *)
(* each other.                                                             *)
THEOREM CommandsSerialised == PeersSpec => []ReadIsCurrent
  <1>1. PeersSpec => []PeersInv
    BY PeersInitially, PeersStep, PTL DEF PeersSpec
  <1> QED
    BY <1>1, PTL DEF PeersInv

(* peers.json under concurrent commands implements the promise of PinBook: *)
(* no change is lost, and a pin goes only with its peer.                   *)
THEOREM PeersImplementBook == PeersSpec => BookSpec
  <1>1. PeersInit => Book!Init
    BY DEF PeersInit, Book!Init, Record, Book!Record
  <1>2. PeersSpec => []PeersInv
    BY PeersInitially, PeersStep, PTL DEF PeersSpec
  <1> QED
    BY <1>1, <1>2, PeersRefine, PTL DEF PeersSpec, BookSpec, Book!Spec

-----------------------------------------------------------------------------
(* The worker.                                                             *)

(* What the worker has to do with: its peer, and those to come.            *)
Listed == worker.todo \cup {worker.url}

Fields == {"pc", "todo", "url", "nonce", "waited", "signed", "channel", "event"}

WorkerShape ==
    /\ worker = [x \in Fields |-> worker[x]]
    /\ worker.todo \subseteq Url
    /\ worker.pc \in {"verify", "status", "connect", "session"} => worker.url \in Url

(* A peer was saved when the round began: without a record, it has been    *)
(* removed since.  This is what makes the check of an unsaved URL, which   *)
(* expects no key, say something.                                          *)
AbsentIsRemoved ==
    \A u \in Listed \cap Url : peers[u] = Absent => u \in removed

StrictInv == PeersInv /\ WorkerShape /\ AbsentIsRemoved /\ StrictUnlessRemoved

LEMMA StrictInitially == Init => StrictInv
  <1> SUFFICES ASSUME Init PROVE StrictInv
    OBVIOUS
  <1>1. PeersInv
    BY PeersInitially DEF Init
  <1>2. worker = Asleep /\ removed = {}
    BY DEF Init
  <1>3. WorkerShape
    BY <1>2 DEF WorkerShape, Fields, Asleep
  <1>4. Listed \cap Url = {}
    BY <1>2, BackgroundConstantsOK DEF Listed, Asleep, BackgroundConstantsOK
  <1> QED
    BY <1>1, <1>2, <1>3, <1>4
    DEF StrictInv, AbsentIsRemoved, StrictUnlessRemoved, Asleep

(* What a step of the worker has to show, which reads the list of peers at *)
(* most.                                                                   *)
LEMMA WorkerOnly ==
  ASSUME StrictInv,
         UNCHANGED <<peers, running, removed>>,
         WorkerShape',
         Listed' \subseteq Listed \cup {NoUrl},
         worker'.pc \in {"status", "session"} =>
            worker'.url \in removed \/ peers[worker'.url] = Identity[worker'.url]
  PROVE  StrictInv'
  <1>1. PeersInv'
    BY DEF StrictInv, PeersInv, PeersTypeOK, ReadIsCurrent
  <1>2. AbsentIsRemoved'
    BY BackgroundConstantsOK DEF StrictInv, AbsentIsRemoved, BackgroundConstantsOK
  <1> QED
    BY <1>1, <1>2 DEF StrictInv, StrictUnlessRemoved

(* An event is sent: the worker has only the peers to come left.           *)
LEMMA EventStep ==
  ASSUME StrictInv, UNCHANGED <<peers, running, removed>>, NEW e, worker' = Event(e)
  PROVE  StrictInv'
  <1>1. WorkerShape'
    BY DEF StrictInv, WorkerShape, Fields, Event, Asleep
  <1>2. Listed' \subseteq Listed \cup {NoUrl}
    BY DEF Listed, Event, Asleep
  <1>3. worker'.pc = "next"
    BY DEF Event, Asleep
  <1> QED
    BY <1>1, <1>2, <1>3, WorkerOnly

(* The worker goes on with the peer at hand.                               *)
LEMMA SamePeer ==
  ASSUME StrictInv, UNCHANGED <<peers, running, removed>>,
         WorkerShape', worker'.url = worker.url, worker'.todo = worker.todo,
         worker'.pc \in {"status", "session"} =>
            worker.url \in removed \/ peers[worker.url] = Identity[worker.url]
  PROVE  StrictInv'
  <1>1. Listed' \subseteq Listed \cup {NoUrl}
    BY DEF Listed
  <1> QED
    BY <1>1, WorkerOnly

LEMMA WorkerStep ==
  ASSUME StrictInv, NEW u \in Url, Exchange(u) \/ ListsNothing(u) \/ Fail(u)
  PROVE  StrictInv'
  <1>1. UNCHANGED <<peers, running, removed>>
    BY DEF Exchange, NextPeer, RequestChallenge, VerifyChallenge, RequestStatus,
           Connect, Complete, ListsNothing, Fail, Peerless
  <1>2. WorkerShape
    BY DEF StrictInv
  <1>3. ASSUME Expected(u), worker.url = u
        PROVE  u \in removed \/ peers[u] = Identity[u]
    BY <1>3, PeersConstantsOK, BackgroundConstantsOK
    DEF Expected, expected_peer_key, PeersConstantsOK, BackgroundConstantsOK,
        StrictInv, AbsentIsRemoved, Listed
  <1>4. CASE NextPeer(u)
    <2>1. WorkerShape'
      BY <1>2, <1>4 DEF NextPeer, WorkerShape, Fields
    <2>2. worker'.pc = "ask" /\ worker'.url = u /\ worker'.todo = worker.todo \ {u}
      BY <1>2, <1>4 DEF NextPeer, WorkerShape, Fields
    <2>3. Listed' \subseteq Listed
      BY <1>4, <2>2 DEF NextPeer, Listed
    <2> QED
      BY <1>1, <2>1, <2>2, <2>3, WorkerOnly
  <1>5. CASE RequestChallenge(u)
    <2>1. CASE worker' = [worker EXCEPT !.pc = "verify", !.nonce = Fresh(u)]
      <3>1. worker.url = u
        BY <1>5 DEF RequestChallenge, At
      <3>2. WorkerShape'
        BY <1>2, <2>1, <3>1 DEF WorkerShape, Fields
      <3>3. worker'.pc = "verify" /\ worker'.url = worker.url /\ worker'.todo = worker.todo
        BY <1>2, <2>1 DEF WorkerShape, Fields
      <3> QED
        BY <1>1, <3>2, <3>3, SamePeer
    <2> QED
      BY <1>1, <1>5, <2>1, EventStep DEF RequestChallenge
  <1>6. CASE VerifyChallenge(u)
    <2>1. worker.url = u
      BY <1>6 DEF VerifyChallenge, At
    <2>2. CASE Expected(u) /\ ValidExpiry
      <3>1. worker' = [worker EXCEPT !.pc = "status", !.signed = worker.waited]
        BY <1>6, <2>2 DEF VerifyChallenge
      <3>2. WorkerShape'
        BY <1>2, <2>1, <3>1 DEF WorkerShape, Fields
      <3>3. worker'.url = worker.url /\ worker'.todo = worker.todo
        BY <1>2, <3>1 DEF WorkerShape, Fields
      <3> QED
        BY <1>1, <1>3, <2>1, <2>2, <3>2, <3>3, SamePeer
    <2> QED
      BY <1>1, <1>6, <2>2, EventStep DEF VerifyChallenge
  <1>7. CASE RequestStatus(u)
    <2>1. worker.url = u
      BY <1>7 DEF RequestStatus, At
    <2>2. CASE worker' = [Asleep EXCEPT !.pc = "connect", !.todo = worker.todo,
                                        !.url = u, !.channel = 1]
      <3>1. WorkerShape'
        BY <1>2, <2>2 DEF WorkerShape, Fields, Asleep
      <3>2. worker'.pc = "connect" /\ worker'.url = worker.url /\ worker'.todo = worker.todo
        BY <2>1, <2>2 DEF Asleep
      <3> QED
        BY <1>1, <3>1, <3>2, SamePeer
    <2> QED
      BY <1>1, <1>7, <2>2, EventStep DEF RequestStatus
  <1>8. CASE Connect(u)
    <2>1. worker.url = u
      BY <1>8 DEF Connect, At
    <2>2. CASE Expected(u)
      <3>1. worker' = [worker EXCEPT !.pc = "session"]
        BY <1>8, <2>2 DEF Connect
      <3>2. WorkerShape'
        BY <1>2, <2>1, <3>1 DEF WorkerShape, Fields
      <3>3. worker'.url = worker.url /\ worker'.todo = worker.todo
        BY <1>2, <3>1 DEF WorkerShape, Fields
      <3> QED
        BY <1>1, <1>3, <2>1, <2>2, <3>2, <3>3, SamePeer
    <2> QED
      BY <1>1, <1>8, <2>2, EventStep DEF Connect
  <1>9. CASE Complete(u)
    <2>1. worker.url = u
      BY <1>9 DEF Complete, At
    <2>2. CASE worker' = [worker EXCEPT !.pc = "connect", !.channel = @ + 1]
      <3>1. WorkerShape'
        BY <1>2, <2>1, <2>2 DEF WorkerShape, Fields
      <3>2. worker'.pc = "connect" /\ worker'.url = worker.url /\ worker'.todo = worker.todo
        BY <1>2, <2>2 DEF WorkerShape, Fields
      <3> QED
        BY <1>1, <3>1, <3>2, SamePeer
    <2> QED
      BY <1>1, <1>9, <2>2, EventStep DEF Complete
  <1>10. CASE ListsNothing(u) \/ Fail(u)
    BY <1>1, <1>10, EventStep DEF ListsNothing, Fail
  <1> QED
    BY <1>4, <1>5, <1>6, <1>7, <1>8, <1>9, <1>10 DEF Exchange

LEMMA StrictStep == StrictInv /\ [Next]_vars => StrictInv'
  <1> SUFFICES ASSUME StrictInv, [Next]_vars PROVE StrictInv'
    OBVIOUS
  <1> USE DEF StrictInv, WorkerShape, AbsentIsRemoved, StrictUnlessRemoved, Listed,
              Fields
  <1>1. CASE StartRound
    <2>1. PeersInv'
      BY <1>1 DEF StartRound, PeersInv, PeersTypeOK, ReadIsCurrent
    <2>2. WorkerShape' /\ StrictUnlessRemoved'
      BY <1>1 DEF StartRound, Asleep
    <2>3. AbsentIsRemoved'
      BY <1>1, BackgroundConstantsOK DEF StartRound, Asleep, BackgroundConstantsOK
    <2> QED
      BY <2>1, <2>2, <2>3
  <1>2. CASE EndRound
    <2>1. PeersInv'
      BY <1>2 DEF EndRound, Peerless, PeersInv, PeersTypeOK, ReadIsCurrent
    <2> QED
      BY <1>2, <2>1, BackgroundConstantsOK
      DEF EndRound, Peerless, Asleep, BackgroundConstantsOK
  <1>3. ASSUME NEW u \in Url, Exchange(u) \/ ListsNothing(u) \/ Fail(u)
        PROVE  StrictInv'
    BY <1>3, WorkerStep
  <1>4. ASSUME NEW r \in Online, AskedByOther(r) \/ AnsweredByOther(r)
        PROVE  StrictInv'
    <2>1. UNCHANGED <<peers, running, removed, worker>>
      BY <1>4 DEF AskedByOther, AnsweredByOther, Peerless
    <2> QED
      BY <2>1 DEF PeersInv, PeersTypeOK, ReadIsCurrent, Asleep
  <1>5. CASE Tick
    <2>1. UNCHANGED <<peers, running, removed>>
      BY <1>5 DEF Tick, Peerless
    <2>2. PeersInv'
      BY <2>1 DEF PeersInv, PeersTypeOK, ReadIsCurrent
    <2>3. CASE worker' = [worker EXCEPT !.waited = 1]
      <3>1. WorkerShape'
        BY <2>3
      <3>2. worker'.pc = worker.pc /\ worker'.url = worker.url /\ worker'.todo = worker.todo
        BY <2>3
      <3> QED
        BY <2>1, <3>1, <3>2, SamePeer
    <2>4. CASE worker' = worker
      BY <2>1, <2>2, <2>4
    <2> QED
      BY <1>5, <2>3, <2>4 DEF Tick
  <1>6. CASE Manage
    <2>1. [PeersNext]_peersVars /\ worker' = worker
      BY <1>6 DEF Manage
    <2>2. PeersInv' /\ [Book!Next]_peers
      BY <2>1, PeersStep, PeersRefine
    <2>3. \A u \in Url : peers'[u] = Absent => u \in removed'
      BY <1>6 DEF Manage
    <2>4. \A u \in Url : peers[u] \in Key => peers'[u] \in {Absent, peers[u]}
      BY <2>2, PeersConstantsOK
      DEF Book!Next, Book!Save, Book!Pin, Book!Forget, PeersInv, PeersTypeOK,
          PeersConstantsOK
    <2>5. removed \subseteq removed'
      BY <1>6 DEF Manage
    <2>6. WorkerShape' /\ AbsentIsRemoved'
      BY <2>1, <2>3 DEF Asleep
    <2>7. StrictUnlessRemoved'
      BY <2>1, <2>3, <2>4, <2>5, BackgroundConstantsOK DEF BackgroundConstantsOK
    <2> QED
      BY <2>2, <2>6, <2>7
  <1>7. CASE UNCHANGED vars
    BY <1>7 DEF vars, PeersInv, PeersTypeOK, ReadIsCurrent, Asleep
  <1> QED
    BY <1>1, <1>2, <1>3, <1>4, <1>5, <1>6, <1>7 DEF Next

(* Automatic synchronisation is strict: the worker answers and talks to    *)
(* the pinned identity only, unless the peer was removed in the round.     *)
THEOREM AutomaticSyncIsStrict == Spec => []StrictUnlessRemoved
  <1>1. Spec => []StrictInv
    BY StrictInitially, StrictStep, PTL DEF Spec
  <1> QED
    BY <1>1, PTL DEF StrictInv

(* The commands keep their promise while the worker reads the list.        *)
THEOREM BackgroundImplementsBook == Spec => BookSpec
  <1>1. Init => Book!Init
    BY DEF Init, PeersInit, Book!Init, Record, Book!Record
  <1>2. StrictInv /\ [Next]_vars => [Book!Next]_peers
    <2> SUFFICES ASSUME StrictInv, [Next]_vars, UNCHANGED peers \/ PeersNext
                 PROVE  [Book!Next]_peers
      BY DEF Next, vars, StartRound, EndRound, Exchange, NextPeer, RequestChallenge,
             VerifyChallenge, RequestStatus, Connect, Complete, ListsNothing, Fail,
             AskedByOther, AnsweredByOther, Tick, Manage, Peerless
    <2> QED
      BY PeersRefine DEF StrictInv
  <1>3. Spec => []StrictInv
    BY StrictInitially, StrictStep, PTL DEF Spec
  <1> QED
    BY <1>1, <1>2, <1>3, PTL DEF Spec, BookSpec, Book!Spec

-----------------------------------------------------------------------------
(* The table of challenges.                                                *)

ChallengesInv ==
    /\ StrictInv
    /\ challenges = [r \in Responder |-> challenges[r]]
    /\ worker.pc \in {"next", "ask"} => worker.waited = 0
    /\ worker.pc \in {"verify", "status"} => worker.waited \in {0, 1}
    /\ ChallengesHonoured

(* A responder's requests by others leave a live challenge where it is.    *)
LEMMA OthersKeep ==
  ASSUME challenges = [r \in Responder |-> challenges[r]],
         NEW r \in Responder, NEW n \in Live(r), NEW s \in Responder, NEW m, NEW t,
         \/ challenge(s, m)
         \/ TooManyChallenges(s)
         \/ discovery_requester(s, m, t) /\ m # n
  PROVE  /\ challenges' = [x \in Responder |-> challenges'[x]]
         /\ n \in Live(r)'
         /\ challenges'[r][n] = challenges[r][n]
  <1>1. n \in Issued(r) /\ challenges[r][n] >= 0
    BY DEF Live
  <1>2. CASE r # s
    <2>1. challenges'[r] = challenges[r] /\ challenges' = [x \in Responder |-> challenges'[x]]
      BY <1>2 DEF challenge, TooManyChallenges, discovery_requester
    <2> QED
      BY <1>1, <2>1 DEF Live, Issued
  <1>3. CASE r = s /\ challenge(s, m)
    <2>1. /\ challenges' = [x \in Responder |-> challenges'[x]]
          /\ challenges'[r] = [x \in DOMAIN retain(r) \cup {m} |->
                                 IF x = m THEN Lifetime ELSE challenges[r][x]]
      BY <1>3 DEF challenge
    <2>2. n \in DOMAIN retain(r) /\ n # m
      BY <1>1, <1>3 DEF challenge, retain, Restrict, Live
    <2> QED
      BY <1>1, <2>1, <2>2 DEF Live, Issued
  <1>4. CASE r = s /\ TooManyChallenges(s)
    <2>1. /\ challenges' = [x \in Responder |-> challenges'[x]]
          /\ challenges'[r] = retain(r)
      BY <1>4 DEF TooManyChallenges
    <2>2. n \in DOMAIN retain(r) /\ retain(r)[n] = challenges[r][n]
      BY <1>1 DEF retain, Restrict, Live
    <2> QED
      BY <1>1, <2>1, <2>2 DEF Live, Issued
  <1>5. CASE r = s /\ discovery_requester(s, m, t) /\ m # n
    <2>1. /\ challenges' = [x \in Responder |-> challenges'[x]]
          /\ challenges'[r] = Restrict(challenges[r], Issued(r) \ {m})
      BY <1>5 DEF discovery_requester
    <2>2. /\ n \in DOMAIN challenges'[r]
          /\ challenges'[r][n] = challenges[r][n]
      BY <1>1, <1>5, <2>1 DEF Restrict
    <2> QED
      BY <1>1, <2>1, <2>2 DEF Live, Issued
  <1> QED
    BY <1>2, <1>3, <1>4, <1>5

LEMMA ChallengesInitially == Init => ChallengesInv
  BY StrictInitially
  DEF Init, DiscoveryInit, ChallengesInv, ChallengesHonoured, Asleep

(* A step that leaves the tables alone, and the worker's challenge, if it  *)
(* has one after the step.                                                 *)
LEMMA TablesAlone ==
  ASSUME ChallengesInv, StrictInv', UNCHANGED challenges,
         worker'.pc \in {"next", "ask"} => worker'.waited = 0,
         worker'.pc \in {"verify", "status"} =>
            /\ worker.pc \in {"verify", "status"}
            /\ worker'.nonce = worker.nonce
            /\ worker'.url = worker.url
            /\ worker'.waited = worker.waited
  PROVE  ChallengesInv'
  BY DEF ChallengesInv, ChallengesHonoured, Live, Issued

(* The worker is done with its challenge.                                  *)
LEMMA ChallengeOver ==
  ASSUME ChallengesInv, StrictInv',
         challenges' = [r \in Responder |-> challenges'[r]],
         worker'.pc \notin {"ask", "verify", "status"},
         worker'.pc = "next" => worker'.waited = 0
  PROVE  ChallengesInv'
  BY DEF ChallengesInv, ChallengesHonoured

(* Whatever somebody else does at a responder.                             *)
LEMMA OthersStep ==
  ASSUME ChallengesInv, StrictInv', UNCHANGED worker, NEW s \in Responder, NEW m, NEW t,
         \/ challenge(s, m)
         \/ TooManyChallenges(s)
         \/ discovery_requester(s, m, t) /\ m # worker.nonce
  PROVE  ChallengesInv'
  <1>1. challenges' = [r \in Responder |-> challenges'[r]]
    BY DEF ChallengesInv, challenge, TooManyChallenges, discovery_requester
  <1>2. CASE worker.pc \in {"verify", "status"}
    <2>1. worker.url \in Responder /\ worker.nonce \in Live(worker.url)
      BY <1>2, BackgroundConstantsOK
      DEF ChallengesInv, ChallengesHonoured, StrictInv, WorkerShape, BackgroundConstantsOK
    <2>2. /\ worker.nonce \in Live(worker.url)'
          /\ challenges'[worker.url][worker.nonce] = challenges[worker.url][worker.nonce]
      BY <2>1, OthersKeep DEF ChallengesInv
    <2> QED
      BY <1>1, <2>2 DEF ChallengesInv, ChallengesHonoured, Live, Issued
  <1>3. CASE worker.pc \notin {"verify", "status"}
    BY <1>1, <1>3 DEF ChallengesInv, ChallengesHonoured
  <1> QED
    BY <1>2, <1>3

LEMMA RequestStep ==
  ASSUME ChallengesInv, StrictInv', NEW u \in Url, RequestChallenge(u)
  PROVE  ChallengesInv'
  <1>1. CASE challenge(u, Fresh(u)) /\
             worker' = [worker EXCEPT !.pc = "verify", !.nonce = Fresh(u)]
    <2> DEFINE n == Fresh(u)
    <2>1. worker.url = u /\ worker.pc = "ask" /\ worker.waited = 0
      BY <1>1 DEF RequestChallenge, At, ChallengesInv
    <2>2. /\ worker'.pc = "verify" /\ worker'.nonce = n
          /\ worker'.url = u /\ worker'.waited = 0
      BY <1>1, <2>1 DEF ChallengesInv, StrictInv, WorkerShape, Fields
    <2> HIDE DEF n
    <2>3. /\ challenges' = [r \in Responder |-> challenges'[r]]
          /\ challenges'[u] = [x \in DOMAIN retain(u) \cup {n} |->
                                 IF x = n THEN Lifetime ELSE challenges[u][x]]
      BY <1>1, BackgroundConstantsOK
      DEF challenge, ChallengesInv, BackgroundConstantsOK, n
    <2>4. n \in DOMAIN challenges'[u] /\ challenges'[u][n] = Lifetime
      BY <2>3
    <2>5. Lifetime >= 0 /\ Lifetime = Lifetime - 0
      BY DiscoveryConstantsOK DEF DiscoveryConstantsOK
    <2>6. n \in Live(u)'
      BY <2>4, <2>5 DEF Live, Issued
    <2>7. ChallengesHonoured'
      BY <2>2, <2>4, <2>5, <2>6 DEF ChallengesHonoured, Live, Issued
    <2> QED
      BY <2>2, <2>3, <2>7 DEF ChallengesInv
  <1>2. CASE TooManyChallenges(u) /\ worker' = Event("refused")
    BY <1>2, ChallengeOver DEF TooManyChallenges, ChallengesInv, Event, Asleep
  <1> QED
    BY <1>1, <1>2 DEF RequestChallenge

(* Time passes for the worker's challenge as it does for the worker.       *)
LEMMA TickStep == ChallengesInv /\ StrictInv' /\ Tick => ChallengesInv'
  <1> SUFFICES ASSUME ChallengesInv, StrictInv', Tick PROVE ChallengesInv'
    OBVIOUS
  <1>1. challenges' = [r \in Responder |-> challenges'[r]]
    BY DEF Tick, PassTime
  <1>2. CASE worker.pc \in {"verify", "status"}
    <2> DEFINE r == worker.url
               n == worker.nonce
    <2>1. /\ worker'.pc = worker.pc /\ worker'.url = r /\ worker'.nonce = n
          /\ worker.waited = 0 /\ worker'.waited = 1
      BY <1>2 DEF Tick, ChallengesInv, StrictInv, WorkerShape, Fields
    <2>2. r \in Responder /\ n \in DOMAIN challenges[r] /\ challenges[r][n] = Lifetime
      BY <1>2, <2>1, BackgroundConstantsOK, DiscoveryConstantsOK
      DEF ChallengesInv, ChallengesHonoured, StrictInv, WorkerShape, Live, Issued,
          BackgroundConstantsOK, DiscoveryConstantsOK
    <2> HIDE DEF r, n
    <2>3. n \in DOMAIN challenges'[r] /\ challenges'[r][n] = Lifetime - 1
      BY <2>2, DiscoveryConstantsOK DEF Tick, PassTime, Issued, DiscoveryConstantsOK
    <2>4. challenges'[r][n] >= 0
      BY <2>3, DiscoveryConstantsOK DEF DiscoveryConstantsOK
    <2>5. ChallengesHonoured'
      BY <2>1, <2>3, <2>4 DEF ChallengesHonoured, Live, Issued
    <2> QED
      BY <1>1, <1>2, <2>1, <2>5 DEF ChallengesInv
  <1>3. CASE worker.pc \notin {"verify", "status"}
    BY <1>1, <1>3 DEF Tick, ChallengesInv, ChallengesHonoured
  <1> QED
    BY <1>2, <1>3

LEMMA ChallengesStep == ChallengesInv /\ [Next]_vars => ChallengesInv'
  <1> SUFFICES ASSUME ChallengesInv, [Next]_vars PROVE ChallengesInv'
    OBVIOUS
  <1>1. StrictInv'
    BY StrictStep DEF ChallengesInv
  <1>2. /\ challenges = [r \in Responder |-> challenges[r]]
        /\ worker = [x \in Fields |-> worker[x]]
    BY DEF ChallengesInv, StrictInv, WorkerShape
  <1>3. CASE StartRound \/ EndRound
    <2>1. UNCHANGED challenges
      BY <1>3 DEF StartRound, EndRound
    <2>2. worker'.pc \in {"next", "asleep"} /\ worker'.waited = 0
      <3>1. CASE StartRound
        BY <3>1 DEF StartRound, Asleep
      <3>2. CASE EndRound
        BY <3>2 DEF EndRound, Asleep
      <3> QED
        BY <1>3, <3>1, <3>2
    <2> QED
      BY <1>1, <1>2, <2>1, <2>2, ChallengeOver
  <1>4. CASE Manage \/ UNCHANGED vars
    BY <1>1, <1>4, TablesAlone DEF Manage, vars, ChallengesInv
  <1>5. CASE Tick
    BY <1>1, <1>5, TickStep
  <1>6. ASSUME NEW r \in Online, AskedByOther(r) \/ AnsweredByOther(r)
        PROVE  ChallengesInv'
    <2>1. r \in Responder /\ UNCHANGED worker
      BY <1>6, BackgroundConstantsOK
      DEF AskedByOther, AnsweredByOther, BackgroundConstantsOK
    <2> QED
      BY <1>1, <1>6, <2>1, OthersStep DEF AskedByOther, AnsweredByOther
  <1>7. ASSUME NEW u \in Url, Exchange(u) \/ ListsNothing(u) \/ Fail(u)
        PROVE  ChallengesInv'
    <2>1. CASE NextPeer(u)
      <3>1. worker'.pc = "ask" /\ worker'.waited = worker.waited
        BY <1>2, <2>1 DEF NextPeer, Fields
      <3>2. worker.waited = 0 /\ UNCHANGED challenges
        BY <2>1 DEF NextPeer, ChallengesInv
      <3> QED
        BY <1>1, <3>1, <3>2, TablesAlone
    <2>2. CASE RequestChallenge(u)
      BY <1>1, <2>2, RequestStep
    <2>3. CASE VerifyChallenge(u)
      <3>1. worker.pc = "verify" /\ UNCHANGED challenges
        BY <2>3 DEF VerifyChallenge, At
      <3>2. CASE worker' = [worker EXCEPT !.pc = "status", !.signed = worker.waited]
        <4>1. /\ worker'.pc = "status" /\ worker'.nonce = worker.nonce
              /\ worker'.url = worker.url /\ worker'.waited = worker.waited
          BY <1>2, <3>2 DEF Fields
        <4> QED
          BY <1>1, <3>1, <4>1, TablesAlone
      <3>3. CASE worker' = Event("refused")
        BY <1>1, <1>2, <3>1, <3>3, ChallengeOver DEF Event, Asleep
      <3> QED
        BY <2>3, <3>2, <3>3 DEF VerifyChallenge
    <2>4. CASE RequestStatus(u) \/ ListsNothing(u)
      <3>1. challenges' = [r \in Responder |-> challenges'[r]]
        BY <1>2, <2>4
        DEF RequestStatus, ListsNothing, discovery_requester, Unauthorized
      <3>2. /\ worker'.pc \in {"connect", "next"}
            /\ worker'.pc = "next" => worker'.waited = 0
        BY <2>4 DEF RequestStatus, ListsNothing, Event, Asleep
      <3> QED
        BY <1>1, <3>1, <3>2, ChallengeOver
    <2>5. CASE Connect(u) \/ Complete(u) \/ Fail(u)
      <3>1. UNCHANGED challenges
        BY <2>5 DEF Connect, Complete, Fail
      <3>2. /\ worker'.pc \in {"session", "connect", "next"}
            /\ worker'.pc = "next" => worker'.waited = 0
        BY <1>2, <2>5 DEF Connect, Complete, Fail, Event, Asleep, Fields
      <3> QED
        BY <1>1, <1>2, <3>1, <3>2, ChallengeOver
    <2> QED
      BY <1>7, <2>1, <2>2, <2>3, <2>4, <2>5 DEF Exchange
  <1> QED
    BY <1>3, <1>4, <1>5, <1>6, <1>7 DEF Next

(* A challenge that was handed out stays good for as long as it said,      *)
(* for any limit of the table and any requests by others.                  *)
THEOREM ChallengesAreHonoured == Spec => []ChallengesHonoured
  <1>1. Spec => []ChallengesInv
    BY ChallengesInitially, ChallengesStep, PTL DEF Spec
  <1> QED
    BY <1>1, PTL DEF ChallengesInv

-----------------------------------------------------------------------------
(* Types, and the limit of the tables of challenges.                       *)

TableOK(table) ==
    /\ IsFiniteSet(DOMAIN table) /\ DOMAIN table \subseteq Nonce
    /\ Cardinality(DOMAIN table) <= MaxChallenges
    /\ \A n \in DOMAIN table : table[n] \in -1..Lifetime

TablesOK ==
    /\ challenges = [r \in Responder |-> challenges[r]]
    /\ \A r \in Responder : TableOK(challenges[r])

LEMMA TableRestricted ==
  ASSUME NEW table, TableOK(table), NEW T \in SUBSET DOMAIN table
  PROVE  /\ TableOK(Restrict(table, T)) /\ DOMAIN Restrict(table, T) = T
         /\ \A n \in T : Restrict(table, T)[n] = table[n]
  <1>1. DOMAIN Restrict(table, T) = T /\ \A n \in T : Restrict(table, T)[n] = table[n]
    BY DEF Restrict
  <1>2. IsFiniteSet(T) /\ Cardinality(T) <= Cardinality(DOMAIN table)
    BY FS_Subset DEF TableOK
  <1>3. Cardinality(T) \in Nat /\ Cardinality(DOMAIN table) \in Nat
    BY <1>2, FS_CardinalityType DEF TableOK
  <1> QED
    BY <1>1, <1>2, <1>3, DiscoveryConstantsOK DEF TableOK, DiscoveryConstantsOK

LEMMA TableReplaced ==
  ASSUME TablesOK, NEW r, NEW table, r \in Responder => TableOK(table),
         challenges' = [challenges EXCEPT ![r] = table]
  PROVE  TablesOK'
  BY DEF TablesOK

(* retain drops what has expired, and a challenge is added only where      *)
(* there is room for it.                                                   *)
LEMMA TableStep ==
  ASSUME TablesOK, NEW r, NEW n, NEW t,
         \/ challenge(r, n) \/ TooManyChallenges(r)
         \/ discovery_requester(r, n, t) \/ Unauthorized(r, n, t)
  PROVE  TablesOK'
  <1>1. r \in Responder =>
          /\ TableOK(challenges[r]) /\ TableOK(retain(r)) /\ DOMAIN retain(r) = Live(r)
          /\ Live(r) \subseteq Issued(r)
          /\ \A x \in Live(r) : retain(r)[x] = challenges[r][x]
    <2> SUFFICES ASSUME r \in Responder
                 PROVE  /\ TableOK(challenges[r]) /\ TableOK(retain(r))
                        /\ DOMAIN retain(r) = Live(r) /\ Live(r) \subseteq Issued(r)
                        /\ \A x \in Live(r) : retain(r)[x] = challenges[r][x]
      OBVIOUS
    <2>1. TableOK(challenges[r]) /\ Live(r) \in SUBSET DOMAIN challenges[r]
      BY DEF TablesOK, Live, Issued
    <2> QED
      BY <2>1, TableRestricted DEF retain, Issued
  <1>2. CASE challenge(r, n)
    <2> DEFINE table == [m \in Live(r) \cup {n} |->
                           IF m = n THEN Lifetime ELSE challenges[r][m]]
    <2>1. ASSUME r \in Responder PROVE TableOK(table)
      <3>1. IsFiniteSet(Live(r)) /\ Cardinality(Live(r)) < MaxChallenges /\ n \in Nonce
        BY <1>1, <1>2, <2>1 DEF challenge, TableOK
      <3>2. /\ IsFiniteSet(Live(r) \cup {n})
            /\ Cardinality(Live(r) \cup {n}) <= Cardinality(Live(r)) + 1
            /\ Cardinality(Live(r)) \in Nat
        BY <3>1, FS_AddElement, FS_CardinalityType
      <3>3. Cardinality(Live(r) \cup {n}) \in Nat
        BY <3>2, FS_CardinalityType
      <3>4. /\ DOMAIN table = Live(r) \cup {n}
            /\ \A m \in DOMAIN table : table[m] \in {Lifetime, challenges[r][m]}
            /\ \A m \in Live(r) : challenges[r][m] \in -1..Lifetime /\ m \in Nonce
            /\ table[n] = Lifetime
        BY <1>1, <2>1 DEF TableOK, Issued
      <3>5. \A m \in DOMAIN table : table[m] \in -1..Lifetime
        BY <3>4, DiscoveryConstantsOK DEF DiscoveryConstantsOK
      <3> HIDE DEF table
      <3> QED
        BY <3>1, <3>2, <3>3, <3>4, <3>5, DiscoveryConstantsOK DEF TableOK, DiscoveryConstantsOK
    <2>2. challenges' = [challenges EXCEPT ![r] =
             [m \in DOMAIN retain(r) \cup {n} |-> IF m = n THEN Lifetime ELSE challenges[r][m]]]
      BY <1>2 DEF challenge
    <2>3. r \in Responder => challenges' = [challenges EXCEPT ![r] = table]
      BY <1>1, <2>2
    <2> HIDE DEF table
    <2>4. r \notin Responder => challenges' = challenges
      BY <2>2 DEF TablesOK
    <2> QED
      BY <2>1, <2>3, <2>4, TableReplaced DEF TablesOK
  <1>3. CASE TooManyChallenges(r)
    BY <1>1, <1>3, TableReplaced DEF TooManyChallenges
  <1>4. CASE discovery_requester(r, n, t)
    <2>1. Issued(r) \ {n} \in SUBSET DOMAIN challenges[r]
      BY DEF Issued
    <2>2. r \in Responder => TableOK(Restrict(challenges[r], Issued(r) \ {n}))
      BY <1>1, <2>1, TableRestricted
    <2>3. challenges' = [challenges EXCEPT ![r] = Restrict(challenges[r], Issued(r) \ {n})]
      BY <1>4 DEF discovery_requester
    <2> QED
      BY <2>2, <2>3, TableReplaced
  <1>5. CASE Unauthorized(r, n, t)
    BY <1>5 DEF Unauthorized, TablesOK
  <1> QED
    BY <1>2, <1>3, <1>4, <1>5

LEMMA TimeStep ==
  ASSUME TablesOK, PassTime
  PROVE  TablesOK'
  <1>1. ASSUME NEW r \in Responder PROVE TableOK(challenges'[r])
    <2> DEFINE table == [n \in Issued(r) |->
                          IF challenges[r][n] = -1 THEN -1 ELSE challenges[r][n] - 1]
    <2>1. challenges'[r] = table
      BY DEF PassTime
    <2>2. TableOK(challenges[r]) /\ DOMAIN table = DOMAIN challenges[r]
      BY DEF TablesOK, Issued
    <2>3. \A n \in DOMAIN table : table[n] \in -1..Lifetime
      BY <2>2, DiscoveryConstantsOK DEF TableOK, DiscoveryConstantsOK
    <2> HIDE DEF table
    <2> QED
      BY <2>1, <2>2, <2>3 DEF TableOK
  <1>2. challenges' = [r \in Responder |-> challenges'[r]]
    BY DEF PassTime
  <1> QED
    BY <1>1, <1>2 DEF TablesOK

WorkerOK ==
    /\ worker.pc \in {"asleep", "next", "ask", "verify", "status", "connect", "session"}
    /\ worker.pc \in {"asleep", "next"} <=> worker.url = NoUrl
    /\ worker.pc \in {"verify", "status"} <=> worker.nonce # NoNonce
    /\ worker.todo \cup removed \subseteq Url
    /\ worker.pc \in {"connect", "session"} =>
          worker.channel \in DOMAIN Channels[worker.url]
    /\ worker.event \in {"none", "complete", "refused", "lost"}

TypesInv == StrictInv /\ TablesOK /\ WorkerOK

LEMMA TypesInitially == Init => TypesInv
  <1> SUFFICES ASSUME Init PROVE TypesInv
    OBVIOUS
  <1>1. TableOK(<< >>)
    <2>1. DOMAIN << >> = {}
      OBVIOUS
    <2> QED
      BY <2>1, FS_EmptySet, DiscoveryConstantsOK DEF TableOK, DiscoveryConstantsOK
  <1>2. TablesOK
    BY <1>1 DEF Init, DiscoveryInit, TablesOK
  <1>3. WorkerOK
    BY DEF Init, Asleep, WorkerOK
  <1> QED
    BY <1>2, <1>3, StrictInitially DEF TypesInv

(* The indices of a peer's channels.                                       *)
LEMMA ChannelIndex ==
  ASSUME NEW u \in Url
  PROVE  /\ Len(Channels[u]) \in Nat /\ DOMAIN Channels[u] = 1..Len(Channels[u])
         /\ Channels[u] # << >> => 1 \in DOMAIN Channels[u]
         /\ \A i \in DOMAIN Channels[u] :
               i # Len(Channels[u]) => i + 1 \in DOMAIN Channels[u]
  <1> DEFINE s == Channels[u]
             S == Range(Channels[u])
  <1>1. s \in Seq(S)
    BY BackgroundConstantsOK DEF BackgroundConstantsOK
  <1> HIDE DEF s, S
  <1>2. /\ Len(s) \in Nat /\ DOMAIN s = 1..Len(s)
        /\ s # << >> => 1 \in DOMAIN s
        /\ \A i \in DOMAIN s : i # Len(s) => i + 1 \in DOMAIN s
    BY <1>1
  <1> QED
    BY <1>2 DEF s

LEMMA EventOK ==
  ASSUME WorkerOK, removed' = removed, NEW e \in {"complete", "refused", "lost"},
         worker' = Event(e)
  PROVE  WorkerOK'
  <1>1. /\ worker'.pc = "next" /\ worker'.url = NoUrl /\ worker'.nonce = NoNonce
        /\ worker'.todo = worker.todo /\ worker'.event = e
    BY DEF Event, Asleep
  <1> QED
    BY <1>1 DEF WorkerOK

(* What the requests to a responder do to its table.                       *)
LEMMA TablesStep == TypesInv /\ [Next]_vars => TablesOK'
  <1> SUFFICES ASSUME TypesInv, [Next]_vars PROVE TablesOK'
    OBVIOUS
  <1>1. TablesOK
    BY DEF TypesInv
  <1>2. CASE UNCHANGED challenges
    BY <1>1, <1>2 DEF TablesOK
  <1>3. CASE \E u \in Url : RequestChallenge(u) \/ RequestStatus(u) \/ ListsNothing(u)
    BY <1>1, <1>3, TableStep DEF RequestChallenge, RequestStatus, ListsNothing
  <1>4. CASE \E r \in Online : AskedByOther(r) \/ AnsweredByOther(r)
    BY <1>1, <1>4, TableStep DEF AskedByOther, AnsweredByOther
  <1>5. CASE Tick
    BY <1>1, <1>5, TimeStep DEF Tick
  <1> QED
    BY <1>2, <1>3, <1>4, <1>5
    DEF Next, vars, StartRound, EndRound, Exchange, NextPeer, VerifyChallenge, Connect,
        Complete, Fail, Manage

LEMMA WorkerOKStep ==
  ASSUME TypesInv, [Next]_vars
  PROVE  WorkerOK'
  <1>1. /\ worker = [x \in Fields |-> worker[x]] /\ WorkerOK
        /\ NoUrl \notin Url /\ NoNonce \notin Nonce
    BY BackgroundConstantsOK DEF TypesInv, StrictInv, WorkerShape, BackgroundConstantsOK
  <1>2. CASE StartRound
    <2>1. /\ worker'.pc = "next" /\ worker'.url = NoUrl /\ worker'.nonce = NoNonce
          /\ worker'.todo \subseteq Url /\ worker'.event = "none" /\ removed' = {}
      BY <1>2 DEF StartRound, Asleep
    <2> QED
      BY <2>1 DEF WorkerOK
  <1>3. CASE EndRound
    <2>1. worker' = Asleep /\ removed' = removed
      BY <1>3 DEF EndRound, Peerless
    <2> QED
      BY <1>1, <2>1 DEF WorkerOK, Asleep
  <1>4. CASE Manage
    BY <1>1, <1>4 DEF Manage, WorkerOK
  <1>5. CASE Tick
    <2>1. /\ worker'.pc = worker.pc /\ worker'.url = worker.url
          /\ worker'.nonce = worker.nonce /\ worker'.todo = worker.todo
          /\ worker'.channel = worker.channel /\ worker'.event = worker.event
          /\ removed' = removed
      BY <1>1, <1>5 DEF Tick, Peerless, Fields
    <2> QED
      BY <1>1, <2>1 DEF WorkerOK
  <1>6. ASSUME NEW r \in Online, AskedByOther(r) \/ AnsweredByOther(r)
        PROVE  WorkerOK'
    BY <1>1, <1>6 DEF AskedByOther, AnsweredByOther, Peerless, WorkerOK
  <1>7. ASSUME NEW u \in Url, Exchange(u) \/ ListsNothing(u) \/ Fail(u)
        PROVE  WorkerOK'
    <2>1. removed' = removed
      BY <1>7 DEF Exchange, NextPeer, RequestChallenge, VerifyChallenge, RequestStatus,
                  Connect, Complete, ListsNothing, Fail, Peerless
    <2>2. CASE \E e \in {"complete", "refused", "lost"} : worker' = Event(e)
      BY <1>1, <2>1, <2>2, EventOK
    <2>3. CASE NextPeer(u)
      <3>1. /\ worker.pc = "next" /\ worker'.pc = "ask" /\ worker'.url = u
            /\ worker'.nonce = worker.nonce /\ worker'.event = "none"
            /\ worker'.todo = worker.todo \ {u}
        BY <1>1, <2>3 DEF NextPeer, Fields
      <3> QED
        BY <1>1, <2>1, <3>1 DEF WorkerOK
    <2>4. CASE RequestChallenge(u) /\ worker' # Event("refused")
      <3>1. /\ challenge(u, Fresh(u)) /\ worker.pc = "ask" /\ worker.url = u
            /\ worker' = [worker EXCEPT !.pc = "verify", !.nonce = Fresh(u)]
        BY <2>4 DEF RequestChallenge, At
      <3>2. Fresh(u) \in Nonce
        BY <3>1 DEF challenge
      <3>3. /\ worker'.pc = "verify" /\ worker'.url = u /\ worker'.nonce = Fresh(u)
            /\ worker'.event = worker.event /\ worker'.todo = worker.todo
        BY <1>1, <3>1 DEF Fields
      <3> QED
        BY <1>1, <2>1, <3>2, <3>3 DEF WorkerOK
    <2>5. CASE VerifyChallenge(u) /\ worker' # Event("refused")
      <3>1. /\ worker.pc = "verify" /\ worker.url = u
            /\ worker' = [worker EXCEPT !.pc = "status", !.signed = worker.waited]
        BY <2>5 DEF VerifyChallenge, At
      <3>2. /\ worker'.pc = "status" /\ worker'.url = u /\ worker'.nonce = worker.nonce
            /\ worker'.event = worker.event /\ worker'.todo = worker.todo
        BY <1>1, <3>1 DEF Fields
      <3> QED
        BY <1>1, <2>1, <3>1, <3>2 DEF WorkerOK
    <2>6. CASE RequestStatus(u) /\ worker' # Event("complete") /\ worker' # Event("refused")
      <3>1. /\ Channels[u] # << >>
            /\ worker' = [Asleep EXCEPT !.pc = "connect", !.todo = worker.todo,
                                        !.url = u, !.channel = 1]
        BY <2>6 DEF RequestStatus
      <3>2. /\ worker'.pc = "connect" /\ worker'.url = u /\ worker'.nonce = NoNonce
            /\ worker'.event = "none" /\ worker'.todo = worker.todo /\ worker'.channel = 1
        BY <3>1 DEF Asleep
      <3>3. 1 \in DOMAIN Channels[u]
        BY <3>1, ChannelIndex
      <3> QED
        BY <1>1, <2>1, <3>2, <3>3 DEF WorkerOK
    <2>7. CASE Connect(u) /\ worker' # Event("refused")
      <3>1. worker.pc = "connect" /\ worker' = [worker EXCEPT !.pc = "session"]
        BY <2>7 DEF Connect, At
      <3>2. /\ worker'.pc = "session" /\ worker'.url = worker.url
            /\ worker'.nonce = worker.nonce /\ worker'.event = worker.event
            /\ worker'.todo = worker.todo /\ worker'.channel = worker.channel
        BY <1>1, <3>1 DEF Fields
      <3> QED
        BY <1>1, <2>1, <3>1, <3>2 DEF WorkerOK
    <2>8. CASE Complete(u) /\ worker' # Event("complete")
      <3>1. /\ worker.pc = "session" /\ worker.url = u
            /\ worker.channel # Len(Channels[u])
            /\ worker' = [worker EXCEPT !.pc = "connect", !.channel = worker.channel + 1]
        BY <2>8 DEF Complete, At
      <3>2. /\ worker'.pc = "connect" /\ worker'.url = u
            /\ worker'.nonce = worker.nonce /\ worker'.event = worker.event
            /\ worker'.todo = worker.todo /\ worker'.channel = worker.channel + 1
        BY <1>1, <3>1 DEF Fields
      <3>3. worker.channel + 1 \in DOMAIN Channels[u]
        BY <1>1, <3>1, ChannelIndex DEF WorkerOK
      <3> QED
        BY <1>1, <2>1, <3>1, <3>2, <3>3 DEF WorkerOK
    <2> QED
      BY <1>7, <2>2, <2>3, <2>4, <2>5, <2>6, <2>7, <2>8 DEF Exchange, ListsNothing, Fail
  <1>8. CASE UNCHANGED vars
    BY <1>1, <1>8 DEF vars, WorkerOK
  <1> QED
    BY <1>2, <1>3, <1>4, <1>5, <1>6, <1>7, <1>8 DEF Next

(* No table holds more than MAX_DISCOVERY_CHALLENGES, whoever asks and     *)
(* however often (challenge in server.rs); the worker has a nonce only     *)
(* while it answers one, and a channel only where the peer listed one.     *)
THEOREM BackgroundTypes == Spec => []TypeOK
  <1>1. TypesInv /\ [Next]_vars => TypesInv'
    BY StrictStep, TablesStep, WorkerOKStep DEF TypesInv
  <1>2. TypesInv => TypeOK
    BY DEF TypesInv, TablesOK, TableOK, WorkerOK, StrictInv, PeersInv, TypeOK,
           DiscoveryTypeOK, Issued
  <1> QED
    BY <1>1, <1>2, TypesInitially, PTL DEF Spec
==============================================================================
