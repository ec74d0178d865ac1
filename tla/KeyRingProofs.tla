----------------------------- MODULE KeyRingProofs -----------------------------
(***************************************************************************)
(* TLAPS proofs about the keyrings, the sessions that exchange them and    *)
(* the policy histories underneath, for any nodes, identities, edits and   *)
(* bounds.                                                                 *)
(***************************************************************************)
EXTENDS KeyRing, PolicyChainProofs

-----------------------------------------------------------------------------
(* A sequence is its length and its elements.                              *)
LEMMA SameElements ==
  ASSUME NEW S, NEW s \in Seq(S), NEW t \in Seq(S), Len(s) = Len(t),
         \A i \in 1..Len(s) : s[i] = t[i]
  PROVE  s = t
  <1>1. s = [i \in 1..Len(s) |-> s[i]] /\ t = [i \in 1..Len(t) |-> t[i]]
    OBVIOUS
  <1> QED
    BY <1>1

-----------------------------------------------------------------------------
(* What accept_key_offers computes, by induction over the offers.          *)

Take(ring, k) == IF k \in SE!ToSet(ring) THEN ring ELSE Append(ring, k)

(* The function f gives the keyring after each of the first n offers.      *)
Taking(f, ring, offers, n) ==
    f = [i \in 0..n |-> IF i = 0 THEN ring ELSE Take(f[i - 1], offers[i])]

(* A keyring without repetitions, with the keys of a set T in it.          *)
LEMMA TakeOne ==
  ASSUME NEW S, NEW ring \in Seq(S), NEW k \in S, SE!IsInjective(ring)
  PROVE  /\ Take(ring, k) \in Seq(S) /\ SE!IsInjective(Take(ring, k))
         /\ SE!ToSet(Take(ring, k)) = SE!ToSet(ring) \cup {k}
  <1>1. CASE k \in SE!ToSet(ring)
    BY <1>1 DEF Take
  <1>2. CASE k \notin SE!ToSet(ring)
    <2> DEFINE r == Append(ring, k)
               N == Len(ring)
    <2>1. /\ r \in Seq(S) /\ Len(r) = N + 1 /\ r[N + 1] = k /\ N \in Nat
          /\ \A i \in 1..N : r[i] = ring[i]
      OBVIOUS
    <2>2. \A i \in 1..N : ring[i] # k
      BY <1>2 DEF SE!ToSet
    <2>3. \A i, j \in 1..N : ring[i] = ring[j] => i = j
      BY DEF SE!IsInjective
    <2> HIDE DEF r
    <2>4. SE!IsInjective(r)
      <3> SUFFICES ASSUME NEW i \in 1..(N + 1), NEW j \in 1..(N + 1), r[i] = r[j]
                   PROVE  i = j
        BY <2>1 DEF SE!IsInjective
      <3> QED
        BY <2>1, <2>2, <2>3
    <2>5. SE!ToSet(r) = SE!ToSet(ring) \cup {k}
      BY <2>1 DEF SE!ToSet
    <2>6. Take(ring, k) = r
      BY <1>2 DEF Take, r
    <2> QED
      BY <2>1, <2>4, <2>5, <2>6
  <1> QED
    BY <1>1, <1>2

LEMMA TakingExists ==
  ASSUME NEW ring, NEW offers, NEW N \in Nat
  PROVE  \E f : Taking(f, ring, offers, N)
  <1> DEFINE S == {n \in 0..N : \E f : Taking(f, ring, offers, n)}
  <1>1. 0 \in S
    <2> DEFINE f == [i \in 0..0 |-> ring]
    <2>1. Taking(f, ring, offers, 0)
      BY DEF Taking
    <2> QED
      BY <2>1
  <1>2. ASSUME NEW n \in 0..N, n \in S, n < N PROVE n + 1 \in S
    <2>1. PICK f : Taking(f, ring, offers, n)
      BY <1>2
    <2> DEFINE g == [i \in 0..(n + 1) |-> IF i = n + 1 THEN Take(f[n], offers[n + 1]) ELSE f[i]]
    <2>2. /\ f = [i \in 0..n |-> IF i = 0 THEN ring ELSE Take(f[i - 1], offers[i])]
          /\ \A i \in 0..n : g[i] = f[i]
          /\ g[n + 1] = Take(f[n], offers[n + 1])
      BY <2>1 DEF Taking
    <2>3. ASSUME NEW i \in 0..(n + 1)
          PROVE  g[i] = IF i = 0 THEN ring ELSE Take(g[i - 1], offers[i])
      <3> HIDE DEF g
      <3>1. CASE i = n + 1
        <4>1. g[i - 1] = f[n] /\ i # 0
          BY <2>2, <3>1
        <4> QED
          BY <2>2, <3>1, <4>1
      <3>2. CASE i = 0
        BY <2>2, <3>2
      <3>3. CASE i # 0 /\ i # n + 1
        <4>1. i \in 0..n /\ i - 1 \in 0..n
          BY <3>3
        <4>2. f[i] = Take(f[i - 1], offers[i])
          BY <2>2, <3>3, <4>1
        <4> QED
          BY <2>2, <3>3, <4>1, <4>2
      <3> QED
        BY <3>1, <3>2, <3>3
    <2>4. g = [i \in 0..(n + 1) |-> g[i]]
      OBVIOUS
    <2> HIDE DEF g
    <2>5. Taking(g, ring, offers, n + 1)
      BY <2>3, <2>4 DEF Taking
    <2>6. n + 1 \in 0..N
      BY <1>2
    <2> QED
      BY <2>5, <2>6
  <1> HIDE DEF S
  <1>3. 0..N \subseteq S
    BY <1>1, <1>2, UpTo
  <1> QED
    BY <1>3 DEF S

(* Every offered key is in the keyring afterwards, once, and nothing that  *)
(* was there is lost, whatever the offers repeat.                          *)
LEMMA AcceptedRing ==
  ASSUME NEW S, NEW ring \in Seq(S), NEW offers \in Seq(S), SE!IsInjective(ring)
  PROVE  /\ Accepted(ring, offers) \in Seq(S)
         /\ SE!IsInjective(Accepted(ring, offers))
         /\ SE!ToSet(Accepted(ring, offers)) = SE!ToSet(ring) \cup SE!ToSet(offers)
  <1> DEFINE N == Len(offers)
             f == CHOOSE g : Taking(g, ring, offers, N)
  <1>1. N \in Nat
    OBVIOUS
  <1>2. Taking(f, ring, offers, N)
    BY <1>1, TakingExists
  <1>3. Accepted(ring, offers) = f[N]
    BY DEF Accepted, Taking, Take
  <1> HIDE DEF f
  <1>4. f[0] = ring /\ \A i \in 1..N : f[i] = Take(f[i - 1], offers[i])
    <2>1. f = [i \in 0..N |-> IF i = 0 THEN ring ELSE Take(f[i - 1], offers[i])]
      BY <1>2 DEF Taking
    <2>2. 0 \in 0..N /\ \A i \in 1..N : i \in 0..N /\ i # 0
      BY <1>1
    <2>3. \A i \in 0..N : f[i] = IF i = 0 THEN ring ELSE Take(f[i - 1], offers[i])
      BY <2>1
    <2> QED
      BY <2>2, <2>3
  <1> DEFINE upto(n) == {offers[i] : i \in 1..n}
             T == {n \in 0..N : /\ f[n] \in Seq(S) /\ SE!IsInjective(f[n])
                                /\ SE!ToSet(f[n]) = SE!ToSet(ring) \cup upto(n)}
  <1>5. 0 \in T
    BY <1>1, <1>4
  <1>6. ASSUME NEW n \in 0..N, n \in T, n < N PROVE n + 1 \in T
    <2>1. n + 1 \in 1..N /\ n + 1 \in 0..N /\ (n + 1) - 1 = n
      BY <1>1, <1>6
    <2>2. offers[n + 1] \in S /\ f[n + 1] = Take(f[n], offers[n + 1])
      BY <1>4, <2>1
    <2>3. /\ f[n] \in Seq(S) /\ SE!IsInjective(f[n])
          /\ SE!ToSet(f[n]) = SE!ToSet(ring) \cup upto(n)
      BY <1>6
    <2>4. /\ f[n + 1] \in Seq(S) /\ SE!IsInjective(f[n + 1])
          /\ SE!ToSet(f[n + 1]) = SE!ToSet(f[n]) \cup {offers[n + 1]}
      <3> DEFINE r == f[n]
                 k == offers[n + 1]
      <3>1. r \in Seq(S) /\ k \in S /\ SE!IsInjective(r) /\ f[n + 1] = Take(r, k)
        BY <2>2, <2>3
      <3> HIDE DEF r, k, T, N, upto
      <3>2. /\ Take(r, k) \in Seq(S) /\ SE!IsInjective(Take(r, k))
            /\ SE!ToSet(Take(r, k)) = SE!ToSet(r) \cup {k}
        BY <3>1, TakeOne
      <3> QED
        BY <3>1, <3>2 DEF r, k
    <2>5. upto(n + 1) = upto(n) \cup {offers[n + 1]}
      <3>1. \A i : i \in 1..(n + 1) <=> i \in 1..n \/ i = n + 1
        BY <2>1
      <3> QED
        BY <3>1
    <2> QED
      BY <2>1, <2>3, <2>4, <2>5
  <1>7. N \in T
    <2> HIDE DEF T, N
    <2>1. 0..N \subseteq T
      BY <1>1, <1>5, <1>6, UpTo
    <2> QED
      BY <1>1, <2>1
  <1>8. upto(N) = SE!ToSet(offers)
    BY DEF SE!ToSet
  <1> QED
    BY <1>3, <1>7, <1>8

-----------------------------------------------------------------------------
(* The inductive invariant.                                                *)

(* Keys that were generated and are not in a keyring yet, by the command   *)
(* that generated them.                                                    *)
Pends(n) == op[n].step \in {"generate", "push"}

(* The keys that keyrings and offers may hold.                             *)
Known == (1..made) \ {op[n].key : n \in {m \in Node : Pends(m)}}

Good(h) == h \in Seq(PolicyEvent) /\ ValidHistory(h) /\ Prefix(Founded, h)

HistoriesGood ==
    /\ history \in [Node -> Seq(PolicyEvent)]
    /\ \A n \in Node : Good(history[n])

(* The processes that work on the keyring of n.                            *)
Holders(n) ==
    {Operator(n)} \cup {Client(d) : d \in {e \in Dials : e[1] = n}}
                  \cup {Server(d) : d \in {e \in Dials : e[2] = n}}

(* What the holder of the lock has loaded is what is in the file.          *)
RingsLocked ==
    /\ keys \in [Node -> Seq(Key)]
    /\ \A n \in Node : keys[n] \in Seq(Known) /\ SE!IsInjective(keys[n])
    /\ lock \in [Node -> Process \cup {Nobody}]
    /\ seen \in [Process -> Seq(Key)]
    /\ \A n \in Node : lock[n] # Nobody => /\ lock[n] \in Holders(n)
                                           /\ seen[lock[n]] = keys[n]

Then == [step : {"change"}, action : PolicyAction] \cup {[step |-> "encrypt"]}

(* A command under way, when has says whether there are keys, and m keys   *)
(* were generated.                                                         *)
CommandIs(o, has, m) ==
    \/ o = Idle
    \/ o \in [step : {"generate", "push"}, key : 1..m, then : Then]
    \/ o \in [step : {"change"}, action : PolicyAction]
    \/ o = [step |-> "encrypt"] /\ has
    \/ o \in [step : {"append"}, key : Key]

CommandsSound ==
    /\ op = [n \in Node |-> op[n]]
    /\ \A n \in Node : /\ CommandIs(op[n], keys[n] # << >>, made)
                       /\ op[n].step = "push" => lock[n] = Operator(n)

(* No key is generated twice.                                              *)
PendingDistinct ==
    \A m, n \in Node : Pends(m) /\ Pends(n) /\ op[m].key = op[n].key => m = n

Messages == [author : Node, key : Key]

LogsTyped == log \in [Node -> SUBSET Messages]

CountsTyped == made \in 0..MaxKeys /\ cuts \in 0..MaxCuts

Fields == {"client", "server", "toClient", "toServer", "policy", "had", "download", "upload"}

IsSession(x) ==
    /\ x = [f \in Fields |-> x[f]]
    /\ x.client \in {"idle", "policy", "keys", "accept", "reply", "messages"}
    /\ x.server \in {"idle", "policy", "offer", "keys", "accept", "messages"}
    /\ x.download \subseteq Messages /\ x.upload \subseteq Messages

(* A history and offers under way.                                         *)
Holds(frames, i, kind) == frames[i] = Frame(kind, frames[i].content)

HasHistory(frames, i, kind) == Holds(frames, i, kind) /\ Good(frames[i].content)

HasOffers(frames, i, K) == Holds(frames, i, "keys") /\ frames[i].content \in Seq(K)

Offered(frames, i) == SE!ToSet(frames[i].content)

(* Where the frames of a session are, by the places its two ends are at,   *)
(* and where the keys are that the ends had at its beginning, once the     *)
(* server has judged the channel to be private.  K are the known keys, rc  *)
(* and rs those of the client and of the server.                           *)
AtPolicy(x) ==
    /\ x.client = "policy" /\ x.toClient = << >>
    /\ x.toServer = <<x.toServer[1]>> /\ HasHistory(x.toServer, 1, "status")

AtOffer(x) ==
    /\ x.toServer = << >>
    /\ \/ /\ x.client = "policy"
          /\ x.toClient = <<x.toClient[1]>> /\ HasHistory(x.toClient, 1, "update")
       \/ x.client = "keys" /\ x.toClient = << >>

Private(x) == x.policy.visibility = "private"

(* The client has not taken the server's offers.                           *)
Offering(x, K, rc) ==
    /\ x.toServer = << >>
    /\ \/ /\ x.client = "policy"
          /\ x.toClient = <<x.toClient[1], x.toClient[2]>>
          /\ HasHistory(x.toClient, 1, "update") /\ HasOffers(x.toClient, 2, K)
          /\ Private(x) => x.had \subseteq rc \cup Offered(x.toClient, 2)
       \/ /\ x.client \in {"keys", "accept"}
          /\ x.toClient = <<x.toClient[1]>> /\ HasOffers(x.toClient, 1, K)
          /\ Private(x) => x.had \subseteq rc \cup Offered(x.toClient, 1)

Replying(x, rc) ==
    /\ x.client = "reply" /\ x.toServer = << >> /\ x.toClient = << >>
    /\ Private(x) => x.had \subseteq rc

(* The server has not taken the client's.                                  *)
Replied(x, K, rc) ==
    /\ x.client = "messages" /\ x.toClient = << >>
    /\ x.toServer = <<x.toServer[1]>> /\ HasOffers(x.toServer, 1, K)
    /\ Private(x) => x.had \subseteq rc /\ x.had \subseteq Offered(x.toServer, 1)

Exchanged(x, rc, rs) ==
    /\ x.client = "messages" /\ x.toClient = << >> /\ x.toServer = << >>
    /\ Private(x) => x.had \subseteq rc /\ x.had \subseteq rs

SessionSound(x, K, rc, rs) ==
    /\ IsSession(x)
    /\ x.had \subseteq rc \cup rs
    /\ \/ x.server = "idle" /\ x.client = "idle"
       \/ x.server = "policy" /\ AtPolicy(x)
       \/ x.server = "offer" /\ AtOffer(x)
       \/ x.server = "keys" /\ (Offering(x, K, rc) \/ Replying(x, rc) \/ Replied(x, K, rc))
       \/ x.server = "accept" /\ Replied(x, K, rc)
       \/ x.server = "messages" /\ Exchanged(x, rc, rs)

SessionLocks(d) ==
    /\ session[d].client = "accept" => lock[d[1]] = Client(d)
    /\ session[d].server = "accept" => lock[d[2]] = Server(d)

SessionsSound ==
    /\ session = [d \in Dials |-> session[d]]
    /\ \A d \in Dials : /\ SessionSound(session[d], Known, Ring(d[1]), Ring(d[2]))
                        /\ SessionLocks(d)

IInv == /\ HistoriesGood /\ RingsLocked /\ CommandsSound /\ PendingDistinct
        /\ LogsTyped /\ CountsTyped /\ SessionsSound

(* What no step undoes.                                                    *)
Grows ==
    /\ Known \subseteq Known'
    /\ \A n \in Node : Ring(n) \subseteq Ring(n)'

-----------------------------------------------------------------------------
(* Processes and locks.                                                    *)

LEMMA HolderFacts ==
  /\ \A n \in Node : /\ Operator(n) \in Process /\ Operator(n) \in Holders(n)
                     /\ Holders(n) \subseteq Process /\ Nobody \notin Holders(n)
  /\ \A d \in Dials : /\ Client(d) \in Process /\ Client(d) \in Holders(d[1])
                      /\ Server(d) \in Process /\ Server(d) \in Holders(d[2])
                      /\ d[1] \in Node /\ d[2] \in Node
  /\ \A m, n \in Node : \A p : p \in Holders(m) /\ p \in Holders(n) => m = n
  /\ \A d, e \in Dials : /\ Client(d) # Server(e)
                         /\ Client(d) = Client(e) => d = e
                         /\ Server(d) = Server(e) => d = e
  /\ \A n \in Node : \A d \in Dials : Operator(n) # Client(d) /\ Operator(n) # Server(d)
  <1>1. "operator" # "client" /\ "operator" # "server" /\ "client" # "server"
    OBVIOUS
  <1>2. \A d \in Dials : d[1] \in Node /\ d[2] \in Node
    BY KeyRingOK
  <1>3. \A n \in Node : /\ Operator(n) \in Process /\ Operator(n) \in Holders(n)
                        /\ Holders(n) \subseteq Process
    BY DEF Process, Holders
  <1>4. \A d \in Dials : /\ Client(d) \in Process /\ Client(d) \in Holders(d[1])
                         /\ Server(d) \in Process /\ Server(d) \in Holders(d[2])
    BY DEF Process, Holders
  <1>5. \A x, y, u, v : <<x, y>> = <<u, v>> => x = u /\ y = v
    OBVIOUS
  <1>6. /\ \A d, e \in Dials : /\ Client(d) # Server(e)
                               /\ Client(d) = Client(e) => d = e
                               /\ Server(d) = Server(e) => d = e
        /\ \A n \in Node : \A d \in Dials : Operator(n) # Client(d) /\ Operator(n) # Server(d)
        /\ \A m, n \in Node : Operator(m) = Operator(n) => m = n
    BY <1>1, <1>5 DEF Operator, Client, Server
  <1>7. ASSUME NEW m \in Node, NEW n \in Node, NEW p, p \in Holders(m), p \in Holders(n)
        PROVE  m = n
    BY <1>6, <1>7 DEF Holders
  <1>8. \A x, y : <<x, y>> # <<"nobody">>
    OBVIOUS
  <1>9. \A n \in Node : Nobody \notin Holders(n)
    BY <1>8 DEF Holders, Nobody, Operator, Client, Server
  <1> QED
    BY <1>2, <1>3, <1>4, <1>6, <1>7, <1>9

(* Keys become known, when the command that generated them has saved them  *)
(* or ended, and none is generated twice.                                  *)
LEMMA KnownGrows ==
  ASSUME IInv, NEW n \in Node, \A m \in Node : m # n => op'[m] = op[m],
         made' \in {made, made + 1},
         Pends(n)' => \/ Pends(n) /\ op'[n].key = op[n].key
                      \/ op'[n].key = made + 1 /\ made' = made + 1
  PROVE  Known \subseteq Known' /\ PendingDistinct'
  <1>1. \A m \in Node : m # n => (Pends(m)' <=> Pends(m))
    BY DEF Pends
  <1>2. made \in Nat
    BY KeyRingOK DEF IInv, CountsTyped
  <1>3. \A m \in Node : Pends(m) => op[m].key \in 1..made
    BY DEF IInv, CommandsSound, CommandIs, Pends, Idle
  <1>4. Known \subseteq Known'
    <2>1. ASSUME NEW k \in Known PROVE k \in Known'
      <3>1. k \in 1..made /\ \A m \in Node : Pends(m) => op[m].key # k
        BY DEF Known
      <3>2. k \in 1..made' /\ k # made + 1
        BY <1>2, <3>1
      <3>3. \A m \in Node : Pends(m)' => op'[m].key # k
        BY <1>1, <3>1, <3>2
      <3> QED
        BY <3>2, <3>3 DEF Known
    <2> QED
      BY <2>1
  <1>5. PendingDistinct'
    <2> SUFFICES ASSUME NEW k \in Node, NEW m \in Node, Pends(k)', Pends(m)',
                        op'[k].key = op'[m].key
                 PROVE  k = m
      BY DEF PendingDistinct
    <2>1. \A j \in Node : Pends(j)' => \/ Pends(j) /\ op'[j].key = op[j].key
                                       \/ j = n /\ op'[j].key = made + 1
      BY <1>1
    <2>2. \A j \in Node : Pends(j) => op[j].key # made + 1
      BY <1>2, <1>3
    <2> QED
      BY <2>1, <2>2 DEF IInv, PendingDistinct
  <1> QED
    BY <1>4, <1>5

LEMMA KnownStays ==
  ASSUME IInv, op' = op, made' = made
  PROVE  Known' = Known /\ PendingDistinct'
  BY DEF IInv, Known, Pends, PendingDistinct

LEMMA KnownAreKeys == IInv => Known \subseteq Key /\ made \in Nat
  BY KeyRingOK DEF IInv, CountsTyped, Known, Key

-----------------------------------------------------------------------------
(* The keyrings.                                                           *)

LEMMA RingOf ==
  ASSUME IInv, NEW n \in Node
  PROVE  /\ keys[n] \in Seq(Known) /\ keys[n] \in Seq(Key) /\ SE!IsInjective(keys[n])
         /\ Ring(n) = SE!ToSet(keys[n]) /\ Ring(n)' = SE!ToSet(keys'[n])
         /\ Ring(n) \subseteq Known
  BY DEF IInv, RingsLocked, Ring, SE!ToSet

LEMMA RingsSame ==
  ASSUME IInv, UNCHANGED rings, Known \subseteq Known'
  PROVE  RingsLocked' /\ Grows
  <1>1. keys' = keys /\ lock' = lock /\ seen' = seen
    BY DEF rings
  <1>2. \A n \in Node : keys[n] \in Seq(Known')
    BY RingOf
  <1>3. Grows
    BY <1>1 DEF Grows, Ring
  <1> QED
    BY <1>1, <1>2, <1>3 DEF IInv, RingsLocked

LEMMA KeysLoaded ==
  ASSUME IInv, NEW n \in Node, NEW p \in Holders(n), LoadKeys(p, n), Known \subseteq Known'
  PROVE  /\ RingsLocked' /\ Grows /\ keys' = keys /\ lock[n] = Nobody
         /\ \A m \in Node : lock'[m] = IF m = n THEN p ELSE lock[m]
  <1>1. /\ lock[n] = Nobody /\ lock' = [lock EXCEPT ![n] = p]
        /\ seen' = [seen EXCEPT ![p] = keys[n]] /\ keys' = keys
    BY DEF LoadKeys, Free
  <1>2. p \in Process /\ \A m \in Node : p \in Holders(m) => m = n
    BY HolderFacts
  <1>3. /\ lock' \in [Node -> Process \cup {Nobody}] /\ seen' \in [Process -> Seq(Key)]
        /\ \A m \in Node : lock'[m] = IF m = n THEN p ELSE lock[m]
        /\ \A q \in Process : seen'[q] = IF q = p THEN keys[n] ELSE seen[q]
    BY <1>1, <1>2 DEF IInv, RingsLocked
  <1>4. \A m \in Node : lock'[m] # Nobody => lock'[m] \in Holders(m) /\ seen'[lock'[m]] = keys[m]
    <2> SUFFICES ASSUME NEW m \in Node, lock'[m] # Nobody
                 PROVE  lock'[m] \in Holders(m) /\ seen'[lock'[m]] = keys[m]
      OBVIOUS
    <2>1. CASE m = n
      BY <1>2, <1>3, <2>1
    <2>2. CASE m # n
      <3>1. lock'[m] = lock[m] /\ lock[m] \in Holders(m) /\ seen[lock[m]] = keys[m]
        BY <1>3, <2>2 DEF IInv, RingsLocked
      <3>2. lock[m] # p /\ lock[m] \in Process
        BY <1>2, <2>2, <3>1, HolderFacts
      <3> QED
        BY <1>3, <3>1, <3>2
    <2> QED
      BY <2>1, <2>2
  <1>5. \A m \in Node : keys[m] \in Seq(Known')
    BY RingOf
  <1>6. Grows
    BY <1>1 DEF Grows, Ring
  <1> QED
    BY <1>1, <1>3, <1>4, <1>5, <1>6 DEF IInv, RingsLocked

LEMMA KeysSaved ==
  ASSUME IInv, NEW n \in Node, NEW p \in Holders(n), lock[n] = p, NEW ks \in Seq(Known'),
         SaveKeys(p, n, ks), SE!IsInjective(ks), SE!ToSet(seen[p]) \subseteq SE!ToSet(ks),
         Known \subseteq Known', Known' \subseteq Key
  PROVE  /\ RingsLocked' /\ Grows /\ seen[p] = keys[n]
         /\ \A m \in Node : /\ lock'[m] = IF m = n THEN Nobody ELSE lock[m]
                            /\ keys'[m] = IF m = n THEN ks ELSE keys[m]
  <1>1. /\ lock' = [lock EXCEPT ![n] = Nobody]
        /\ seen' = [seen EXCEPT ![p] = << >>] /\ keys' = [keys EXCEPT ![n] = ks]
    BY DEF SaveKeys
  <1>2. p \in Process /\ (\A m \in Node : p \in Holders(m) => m = n) /\ p # Nobody
    BY HolderFacts
  <1>3. ks \in Seq(Key)
    OBVIOUS
  <1>4. /\ lock' \in [Node -> Process \cup {Nobody}] /\ seen' \in [Process -> Seq(Key)]
        /\ keys' \in [Node -> Seq(Key)]
        /\ \A m \in Node : /\ lock'[m] = IF m = n THEN Nobody ELSE lock[m]
                           /\ keys'[m] = IF m = n THEN ks ELSE keys[m]
        /\ \A q \in Process : seen'[q] = IF q = p THEN << >> ELSE seen[q]
    BY <1>1, <1>2, <1>3 DEF IInv, RingsLocked
  <1>5. \A m \in Node : lock'[m] # Nobody => lock'[m] \in Holders(m) /\ seen'[lock'[m]] = keys'[m]
    <2> SUFFICES ASSUME NEW m \in Node, lock'[m] # Nobody
                 PROVE  lock'[m] \in Holders(m) /\ seen'[lock'[m]] = keys'[m]
      OBVIOUS
    <2>1. m # n /\ lock'[m] = lock[m] /\ lock[m] \in Holders(m) /\ seen[lock[m]] = keys[m]
      BY <1>4 DEF IInv, RingsLocked
    <2>2. lock[m] # p /\ lock[m] \in Process
      BY <1>2, <2>1, HolderFacts
    <2> QED
      BY <1>4, <2>1, <2>2
  <1>6. \A m \in Node : keys'[m] \in Seq(Known') /\ SE!IsInjective(keys'[m])
    BY <1>4, RingOf
  <1>7. seen[p] = keys[n]
    BY <1>2 DEF IInv, RingsLocked
  <1>8. ASSUME NEW m \in Node PROVE Ring(m) \subseteq Ring(m)'
    <2>1. Ring(m) = SE!ToSet(keys[m]) /\ Ring(m)' = SE!ToSet(keys'[m])
      BY DEF Ring
    <2>2. keys'[m] = IF m = n THEN ks ELSE keys[m]
      BY <1>4
    <2> QED
      BY <1>7, <2>1, <2>2
  <1>9. Grows
    BY <1>8 DEF Grows
  <1> QED
    BY <1>4, <1>5, <1>6, <1>7, <1>9 DEF RingsLocked

LEMMA LocksReleased ==
  ASSUME IInv, NEW ps, Release(ps), Known \subseteq Known'
  PROVE  /\ RingsLocked' /\ Grows /\ keys' = keys
         /\ \A m \in Node : lock'[m] = IF lock[m] \in ps THEN Nobody ELSE lock[m]
  <1>1. /\ lock' = [m \in Node |-> IF lock[m] \in ps THEN Nobody ELSE lock[m]]
        /\ seen' = [p \in Process |-> IF p \in ps THEN << >> ELSE seen[p]]
        /\ keys' = keys
    BY DEF Release
  <1>2. /\ lock' \in [Node -> Process \cup {Nobody}] /\ seen' \in [Process -> Seq(Key)]
        /\ \A m \in Node : lock'[m] = IF lock[m] \in ps THEN Nobody ELSE lock[m]
        /\ \A q \in Process : seen'[q] = IF q \in ps THEN << >> ELSE seen[q]
    BY <1>1 DEF IInv, RingsLocked
  <1>3. \A m \in Node : lock'[m] # Nobody => lock'[m] \in Holders(m) /\ seen'[lock'[m]] = keys[m]
    <2> SUFFICES ASSUME NEW m \in Node, lock'[m] # Nobody
                 PROVE  lock'[m] \in Holders(m) /\ seen'[lock'[m]] = keys[m]
      OBVIOUS
    <2>1. /\ lock'[m] = lock[m] /\ lock[m] \notin ps /\ lock[m] \in Holders(m)
          /\ seen[lock[m]] = keys[m]
      BY <1>2 DEF IInv, RingsLocked
    <2>2. lock[m] \in Process
      BY <2>1, HolderFacts
    <2> QED
      BY <1>2, <2>1, <2>2
  <1>4. \A m \in Node : keys[m] \in Seq(Known')
    BY RingOf
  <1>5. Grows
    BY <1>1 DEF Grows, Ring
  <1> QED
    BY <1>1, <1>2, <1>3, <1>4, <1>5 DEF IInv, RingsLocked

(* A keyring that is not empty stays so.                                   *)
LEMMA RingNotEmpty ==
  ASSUME IInv, RingsLocked', Grows, NEW n \in Node, keys[n] # << >>
  PROVE  keys'[n] # << >>
  <1>1. keys[n] \in Seq(Key) /\ keys'[n] \in Seq(Key)
    BY DEF IInv, RingsLocked
  <1>2. Len(keys[n]) >= 1 /\ 1 \in 1..Len(keys[n])
    BY <1>1
  <1>3. keys[n][1] \in SE!ToSet(keys[n])
    BY <1>1, <1>2 DEF SE!ToSet
  <1>4. SE!ToSet(keys[n]) \subseteq SE!ToSet(keys'[n])
    BY DEF Grows, Ring
  <1>5. SE!ToSet(<< >>) = {}
    BY DEF SE!ToSet
  <1> QED
    BY <1>3, <1>4, <1>5

-----------------------------------------------------------------------------
(* What is left to show of a step.                                         *)

(* The locks of the other processes stay.                                  *)
LocksStay(ps) ==
    \A n \in Node : lock[n] # Nobody /\ lock[n] \notin ps => lock'[n] = lock[n]

LEMMA SessionMonotone ==
  ASSUME NEW x, NEW K, NEW L, NEW rc, NEW rs, NEW sc, NEW ss, K \subseteq L,
         rc \subseteq sc, rs \subseteq ss, SessionSound(x, K, rc, rs)
  PROVE  SessionSound(x, L, sc, ss)
  <1>1. Seq(K) \subseteq Seq(L)
    OBVIOUS
  <1>2. \A f, i : HasOffers(f, i, K) => HasOffers(f, i, L)
    BY <1>1 DEF HasOffers
  <1>3. Offering(x, K, rc) => Offering(x, L, sc)
    BY <1>2 DEF Offering
  <1>4. Replying(x, rc) => Replying(x, sc)
    BY DEF Replying
  <1>5. Replied(x, K, rc) => Replied(x, L, sc)
    BY <1>2 DEF Replied
  <1>6. Exchanged(x, rc, rs) => Exchanged(x, sc, ss)
    BY DEF Exchanged
  <1> QED
    BY <1>3, <1>4, <1>5, <1>6 DEF SessionSound

(* A session that a step leaves alone.                                     *)
LEMMA SessionStays ==
  ASSUME IInv, Grows, NEW d \in Dials, session'[d] = session[d],
         NEW ps, LocksStay(ps), Client(d) \notin ps, Server(d) \notin ps
  PROVE  SessionSound(session'[d], Known', Ring(d[1])', Ring(d[2])') /\ SessionLocks(d)'
  <1>1. d[1] \in Node /\ d[2] \in Node
    BY HolderFacts
  <1>2. SessionSound(session[d], Known, Ring(d[1]), Ring(d[2])) /\ SessionLocks(d)
    BY DEF IInv, SessionsSound
  <1>3. /\ Known \subseteq Known' /\ Ring(d[1]) \subseteq Ring(d[1])'
        /\ Ring(d[2]) \subseteq Ring(d[2])'
    BY <1>1 DEF Grows
  <1>4. SessionSound(session[d], Known', Ring(d[1])', Ring(d[2])')
    BY <1>2, <1>3, SessionMonotone
  <1>5. Client(d) # Nobody /\ Server(d) # Nobody
    BY HolderFacts
  <1>6. SessionLocks(d)'
    BY <1>1, <1>2, <1>5 DEF SessionLocks, LocksStay
  <1> QED
    BY <1>4, <1>6

LEMMA CommandStays ==
  ASSUME IInv, RingsLocked', Grows, made <= made', made' \in Nat, NEW n \in Node,
         op'[n] = op[n], NEW ps, LocksStay(ps), Operator(n) \notin ps
  PROVE  /\ CommandIs(op'[n], keys'[n] # << >>, made')
         /\ op'[n].step = "push" => lock'[n] = Operator(n)
  <1>1. /\ CommandIs(op[n], keys[n] # << >>, made)
        /\ op[n].step = "push" => lock[n] = Operator(n)
    BY DEF IInv, CommandsSound
  <1>2. made \in Nat /\ 1..made \subseteq 1..made'
    BY KnownAreKeys
  <1>3. keys[n] # << >> => keys'[n] # << >>
    BY RingNotEmpty
  <1>4. CommandIs(op'[n], keys'[n] # << >>, made')
    BY <1>1, <1>2, <1>3 DEF CommandIs
  <1>5. Operator(n) # Nobody
    BY HolderFacts
  <1> QED
    BY <1>1, <1>4, <1>5 DEF LocksStay

LEMMA CommandDone ==
  ASSUME IInv, NEW n \in Node, op' = [m \in Node |-> op'[m]],
         \A m \in Node : m # n => op'[m] = op[m],
         UNCHANGED <<session, cuts>>, made' \in {made, made + 1}, made' <= MaxKeys,
         Grows, RingsLocked', PendingDistinct', HistoriesGood', LogsTyped',
         LocksStay({Operator(n)}),
         CommandIs(op'[n], keys'[n] # << >>, made'),
         op'[n].step = "push" => lock'[n] = Operator(n)
  PROVE  IInv'
  <1>1. made \in Nat /\ made' \in Nat /\ made <= made' /\ made' \in 0..MaxKeys
    BY KnownAreKeys, KeyRingOK
  <1>2. CommandsSound'
    <2>1. ASSUME NEW m \in Node
          PROVE  /\ CommandIs(op'[m], keys'[m] # << >>, made')
                 /\ op'[m].step = "push" => lock'[m] = Operator(m)
      <3>1. CASE m = n
        BY <3>1
      <3>2. CASE m # n
        <4>1. Operator(m) \notin {Operator(n)}
          BY <3>2, HolderFacts
        <4>2. op'[m] = op[m]
          BY <3>2
        <4> QED
          BY <1>1, <4>1, <4>2, CommandStays
      <3> QED
        BY <3>1, <3>2
    <2> QED
      BY <2>1 DEF CommandsSound
  <1>3. SessionsSound'
    <2>1. ASSUME NEW d \in Dials
          PROVE  SessionSound(session'[d], Known', Ring(d[1])', Ring(d[2])') /\ SessionLocks(d)'
      <3>1. Client(d) \notin {Operator(n)} /\ Server(d) \notin {Operator(n)}
        BY HolderFacts
      <3> QED
        BY <3>1, SessionStays
    <2>2. session' = [d \in Dials |-> session'[d]]
      BY DEF IInv, SessionsSound
    <2> QED
      BY <2>1, <2>2 DEF SessionsSound
  <1>4. CountsTyped'
    BY <1>1 DEF IInv, CountsTyped
  <1> QED
    BY <1>2, <1>3, <1>4 DEF IInv

LEMMA SessionDone ==
  ASSUME IInv, NEW d \in Dials, session' = [e \in Dials |-> session'[e]],
         \A e \in Dials : e # d => session'[e] = session[e],
         UNCHANGED <<op, made>>, cuts' \in 0..MaxCuts,
         Grows, RingsLocked', HistoriesGood', LogsTyped',
         LocksStay({Client(d), Server(d)}),
         SessionSound(session'[d], Known', Ring(d[1])', Ring(d[2])'), SessionLocks(d)'
  PROVE  IInv'
  <1>1. made \in Nat /\ made' = made
    BY KnownAreKeys
  <1>2. CommandsSound'
    <2>1. ASSUME NEW m \in Node
          PROVE  /\ CommandIs(op'[m], keys'[m] # << >>, made')
                 /\ op'[m].step = "push" => lock'[m] = Operator(m)
      <3>1. Operator(m) \notin {Client(d), Server(d)}
        BY HolderFacts
      <3>2. op'[m] = op[m] /\ made <= made' /\ made' \in Nat
        BY <1>1
      <3> QED
        BY <3>1, <3>2, CommandStays
    <2>2. op' = [m \in Node |-> op'[m]]
      BY DEF IInv, CommandsSound
    <2> QED
      BY <2>1, <2>2 DEF CommandsSound
  <1>3. SessionsSound'
    <2>1. ASSUME NEW e \in Dials
          PROVE  SessionSound(session'[e], Known', Ring(e[1])', Ring(e[2])') /\ SessionLocks(e)'
      <3>1. CASE e = d
        BY <3>1
      <3>2. CASE e # d
        <4>1. Client(e) \notin {Client(d), Server(d)} /\ Server(e) \notin {Client(d), Server(d)}
          BY <3>2, HolderFacts
        <4>2. session'[e] = session[e]
          BY <3>2
        <4> QED
          BY <4>1, <4>2, SessionStays
      <3> QED
        BY <3>1, <3>2
    <2> QED
      BY <2>1 DEF SessionsSound
  <1>4. PendingDistinct'
    BY KnownStays
  <1>5. CountsTyped'
    BY DEF IInv, CountsTyped
  <1> QED
    BY <1>2, <1>3, <1>4, <1>5 DEF IInv

-----------------------------------------------------------------------------
(* Commands.                                                               *)

LEMMA OpTo ==
  ASSUME IInv, NEW n \in Node, NEW v, op' = [op EXCEPT ![n] = v]
  PROVE  /\ op' = [m \in Node |-> op'[m]] /\ op'[n] = v
         /\ \A m \in Node : m # n => op'[m] = op[m]
  BY DEF IInv, CommandsSound

LEMMA CommandOf ==
  ASSUME IInv, NEW n \in Node
  PROVE  /\ CommandIs(op[n], keys[n] # << >>, made)
         /\ op[n].step = "push" => lock[n] = Operator(n)
  BY DEF IInv, CommandsSound

(* A command goes on to v, with or without a new key.                      *)
LEMMA CommandGoesOn ==
  ASSUME IInv, NEW n \in Node, NEW v, op' = [op EXCEPT ![n] = v],
         UNCHANGED <<session, cuts, rings>>, HistoriesGood', LogsTyped',
         made' \in {made, made + 1}, made' <= MaxKeys,
         CommandIs(v, keys[n] # << >>, made'),
         v.step = "push" => FALSE,
         v.step = "generate" => v.key = made + 1 /\ made' = made + 1
  PROVE  IInv' /\ Grows
  <1>1. /\ op' = [m \in Node |-> op'[m]] /\ op'[n] = v
        /\ \A m \in Node : m # n => op'[m] = op[m]
    BY OpTo
  <1>2. Pends(n)' => op'[n].key = made + 1 /\ made' = made + 1
    BY <1>1 DEF Pends
  <1>3. Known \subseteq Known' /\ PendingDistinct'
    BY <1>1, <1>2, KnownGrows
  <1>4. RingsLocked' /\ Grows
    BY <1>3, RingsSame
  <1>5. LocksStay({Operator(n)}) /\ keys' = keys
    BY DEF rings, LocksStay
  <1> QED
    BY <1>1, <1>3, <1>4, <1>5, CommandDone

LEMMA Untouched ==
  ASSUME IInv
  PROVE  /\ history' = history => HistoriesGood'
         /\ log' = log => LogsTyped'
         /\ made' = made => made' <= MaxKeys
         /\ made < MaxKeys => made + 1 <= MaxKeys
  <1>1. made \in Nat /\ made \in 0..MaxKeys /\ MaxKeys \in Nat
    BY KnownAreKeys, KeyRingOK DEF IInv, CountsTyped
  <1> QED
    BY <1>1 DEF IInv, HistoriesGood, LogsTyped

LEMMA StartChangeStep ==
  ASSUME IInv, NEW n \in Node, NEW action, StartChange(n, action)
  PROVE  IInv' /\ Grows
  <1>1. UNCHANGED <<history, rings, log, session, cuts>>
    BY DEF StartChange
  <1>2. action \in PolicyAction
    <2>1. Event(IdentityOf[n], action) \in PolicyEvent
      BY KeyRingOK DEF StartChange
    <2> QED
      BY <2>1 DEF Event, PolicyEvent
  <1>3. CASE Rotates(policy(n), action)
    <2> DEFINE v == [step |-> "generate", key |-> made + 1,
                     then |-> [step |-> "change", action |-> action]]
    <2>1. made < MaxKeys /\ made' = made + 1 /\ op' = [op EXCEPT ![n] = v]
      BY <1>3 DEF StartChange
    <2>2. CommandIs(v, keys[n] # << >>, made')
      BY <1>2, <2>1, KnownAreKeys DEF CommandIs, Then
    <2>3. v.step = "generate" /\ v.key = made + 1
      OBVIOUS
    <2> HIDE DEF v
    <2> QED
      BY <1>1, <2>1, <2>2, <2>3, Untouched, CommandGoesOn
  <1>4. CASE ~Rotates(policy(n), action)
    <2> DEFINE v == [step |-> "change", action |-> action]
    <2>1. made' = made /\ op' = [op EXCEPT ![n] = v]
      BY <1>4 DEF StartChange
    <2>2. CommandIs(v, keys[n] # << >>, made')
      BY <1>2 DEF CommandIs
    <2>3. v.step = "change"
      OBVIOUS
    <2> HIDE DEF v
    <2> QED
      BY <1>1, <2>1, <2>2, <2>3, Untouched, CommandGoesOn
  <1> QED
    BY <1>3, <1>4

LEMMA StartPostStep ==
  ASSUME IInv, NEW n \in Node, StartPost(n)
  PROVE  IInv' /\ Grows
  <1>1. UNCHANGED <<history, rings, log, session, cuts>>
    BY DEF StartPost
  <1>2. CASE keys[n] = << >> /\ policy(n).owner = IdentityOf[n]
    <2> DEFINE v == [step |-> "generate", key |-> made + 1, then |-> [step |-> "encrypt"]]
    <2>1. made < MaxKeys /\ made' = made + 1 /\ op' = [op EXCEPT ![n] = v]
      BY <1>2 DEF StartPost
    <2>2. CommandIs(v, keys[n] # << >>, made')
      BY <2>1, KnownAreKeys DEF CommandIs, Then
    <2>3. v.step = "generate" /\ v.key = made + 1
      OBVIOUS
    <2> HIDE DEF v
    <2> QED
      BY <1>1, <2>1, <2>2, <2>3, Untouched, CommandGoesOn
  <1>3. CASE ~(keys[n] = << >> /\ policy(n).owner = IdentityOf[n])
    <2> DEFINE v == [step |-> "encrypt"]
    <2>1. made' = made /\ op' = [op EXCEPT ![n] = v] /\ keys[n] # << >>
      BY <1>3 DEF StartPost
    <2>2. CommandIs(v, keys[n] # << >>, made')
      BY <2>1 DEF CommandIs
    <2>3. v.step = "encrypt"
      OBVIOUS
    <2> HIDE DEF v
    <2> QED
      BY <1>1, <2>1, <2>2, <2>3, Untouched, CommandGoesOn
  <1> QED
    BY <1>2, <1>3

LEMMA GenerateShape ==
  ASSUME IInv, NEW n \in Node, Pends(n)
  PROVE  /\ op[n].key \in 1..made /\ op[n].then \in Then
         /\ op[n] \in [step : {"generate", "push"}, key : 1..made, then : Then]
  BY CommandOf DEF Pends, CommandIs, Idle

LEMMA LoadToGenerateStep ==
  ASSUME IInv, NEW n \in Node, LoadToGenerate(n)
  PROVE  IInv' /\ Grows
  <1> DEFINE v == [op[n] EXCEPT !.step = "push"]
  <1>1. /\ op[n].step = "generate" /\ LoadKeys(Operator(n), n)
        /\ op' = [op EXCEPT ![n] = v]
        /\ UNCHANGED <<history, log, session, made, cuts>>
    BY DEF LoadToGenerate
  <1>2. op[n] \in [step : {"generate", "push"}, key : 1..made, then : Then]
    BY <1>1, GenerateShape DEF Pends
  <1>3. /\ v \in [step : {"generate", "push"}, key : 1..made, then : Then]
        /\ v.step = "push" /\ v.key = op[n].key
    BY <1>2
  <1> HIDE DEF v
  <1>4. /\ op' = [m \in Node |-> op'[m]] /\ op'[n] = v
        /\ \A m \in Node : m # n => op'[m] = op[m]
    BY <1>1, OpTo
  <1>5. Known \subseteq Known' /\ PendingDistinct'
    BY <1>1, <1>3, <1>4, KnownGrows DEF Pends
  <1>6. /\ RingsLocked' /\ Grows /\ keys' = keys /\ lock[n] = Nobody
        /\ \A m \in Node : lock'[m] = IF m = n THEN Operator(n) ELSE lock[m]
    BY <1>1, <1>5, HolderFacts, KeysLoaded
  <1>7. LocksStay({Operator(n)}) /\ lock'[n] = Operator(n)
    BY <1>6 DEF LocksStay
  <1>8. CommandIs(op'[n], keys'[n] # << >>, made')
    BY <1>1, <1>3, <1>4 DEF CommandIs
  <1> QED
    BY <1>1, <1>4, <1>5, <1>6, <1>7, <1>8, Untouched, CommandDone

LEMMA GenerateStep ==
  ASSUME IInv, NEW n \in Node, generate_channel_key(n)
  PROVE  IInv' /\ Grows
  <1> DEFINE v == op[n].then
             k == op[n].key
             ring == seen[Operator(n)]
             ks == Append(ring, k)
  <1>1. /\ op[n].step = "push" /\ SaveKeys(Operator(n), n, ks)
        /\ op' = [op EXCEPT ![n] = v]
        /\ UNCHANGED <<history, log, session, made, cuts>>
    BY DEF generate_channel_key
  <1>2. k \in 1..made /\ v \in Then /\ Pends(n)
    BY <1>1, GenerateShape DEF Pends
  <1>3. lock[n] = Operator(n) /\ ring = keys[n]
    BY <1>1, CommandOf, HolderFacts DEF IInv, RingsLocked
  <1>4. v.step # "push" /\ v.step # "generate" /\ v.step \in {"change", "encrypt"}
    BY <1>2 DEF Then
  <1> HIDE DEF v, k, ring
  <1>5. /\ op' = [m \in Node |-> op'[m]] /\ op'[n] = v
        /\ \A m \in Node : m # n => op'[m] = op[m]
    BY <1>1, OpTo
  <1>6. ~Pends(n)' /\ \A m \in Node : m # n => (Pends(m)' <=> Pends(m))
    BY <1>4, <1>5 DEF Pends
  <1>7. Known \subseteq Known' /\ PendingDistinct'
    BY <1>1, <1>5, <1>6, KnownGrows
  <1>8. k \notin Known /\ k \in Known'
    <2>1. k \notin Known
      BY <1>2 DEF Known, k
    <2>2. \A m \in Node : Pends(m)' => op'[m].key # k
      BY <1>2, <1>5, <1>6 DEF IInv, PendingDistinct, k
    <2> QED
      BY <1>1, <1>2, <2>1, <2>2 DEF Known
  <1>9. /\ ring \in Seq(Known) /\ SE!IsInjective(ring) /\ SE!ToSet(ring) \subseteq Known
        /\ ring \in Seq(Known')
    BY <1>3, <1>7, RingOf DEF SE!ToSet
  <1>10. ks = Take(ring, k)
    BY <1>8, <1>9 DEF Take
  <1>11. /\ ks \in Seq(Known') /\ SE!IsInjective(ks)
         /\ SE!ToSet(ks) = SE!ToSet(ring) \cup {k}
    BY <1>8, <1>9, <1>10, TakeOne
  <1>12. Known' \subseteq Key
    <2>1. made \in Nat /\ MaxKeys \in Nat /\ made <= MaxKeys
      BY KnownAreKeys, KeyRingOK DEF IInv, CountsTyped
    <2> QED
      BY <1>1, <2>1 DEF Known, Key
  <1>13. Operator(n) \in Holders(n) /\ SE!ToSet(seen[Operator(n)]) \subseteq SE!ToSet(ks)
    BY <1>11, HolderFacts DEF ring
  <1> HIDE DEF ks
  <1>14. /\ RingsLocked' /\ Grows
         /\ \A m \in Node : /\ lock'[m] = IF m = n THEN Nobody ELSE lock[m]
                            /\ keys'[m] = IF m = n THEN ks ELSE keys[m]
    BY <1>1, <1>3, <1>7, <1>11, <1>12, <1>13, KeysSaved
  <1>15. LocksStay({Operator(n)})
    BY <1>3, <1>14 DEF LocksStay
  <1>16. keys'[n] # << >>
    <2>1. k \in SE!ToSet(ks) /\ SE!ToSet(<< >>) = {}
      BY <1>11 DEF SE!ToSet
    <2> QED
      BY <1>14, <2>1
  <1>17. CommandIs(op'[n], keys'[n] # << >>, made')
    BY <1>2, <1>5, <1>16 DEF CommandIs, Then
  <1> QED
    BY <1>1, <1>4, <1>5, <1>7, <1>14, <1>15, <1>17, Untouched, CommandDone

LEMMA AppendPolicyStep ==
  ASSUME IInv, NEW n \in Node, append_policy_action(n)
  PROVE  IInv' /\ Grows
  <1> DEFINE e == Event(IdentityOf[n], op[n].action)
             h == Append(history[n], e)
  <1>1. /\ op[n].step = "change" /\ op' = [op EXCEPT ![n] = Idle]
        /\ history' = IF ValidHistory(h) THEN [history EXCEPT ![n] = h] ELSE history
        /\ UNCHANGED <<rings, log, session, made, cuts>>
    BY DEF append_policy_action
  <1>2. op[n].action \in PolicyAction
    BY <1>1, CommandOf DEF CommandIs, Idle
  <1>3. e \in PolicyEvent
    BY <1>2, KeyRingOK DEF Event, PolicyEvent
  <1>4. Good(history[n]) /\ history[n] \in Seq(PolicyEvent) /\ Founded \in Seq(PolicyEvent)
    BY KeyRingOK DEF IInv, HistoriesGood
  <1> HIDE DEF e
  <1>5. h \in Seq(PolicyEvent) /\ Prefix(Founded, h)
    <2>1. <<e>> \in Seq(PolicyEvent) /\ h = history[n] \o <<e>>
      BY <1>3, <1>4
    <2>2. h \in Seq(PolicyEvent) /\ Prefix(history[n], h)
      BY <1>4, <2>1, PrefixFacts
    <2> HIDE DEF h
    <2> QED
      BY <1>4, <2>2, PrefixTransitive DEF Good
  <1> HIDE DEF h
  <1>6. HistoriesGood'
    BY <1>1, <1>5 DEF IInv, HistoriesGood, Good
  <1>7. CommandIs(Idle, keys[n] # << >>, made') /\ Idle.step = "idle"
    BY DEF CommandIs, Idle
  <1> QED
    BY <1>1, <1>6, <1>7, Untouched, CommandGoesOn

LEMMA EncryptStep ==
  ASSUME IInv, NEW n \in Node, encrypt_message(n)
  PROVE  IInv' /\ Grows
  <1> DEFINE v == [step |-> "append", key |-> SE!Last(keys[n])]
  <1>1. /\ op[n].step = "encrypt" /\ op' = [op EXCEPT ![n] = v]
        /\ UNCHANGED <<history, rings, log, session, made, cuts>>
    BY DEF encrypt_message
  <1>2. keys[n] # << >> /\ keys[n] \in Seq(Key)
    BY <1>1, CommandOf, RingOf DEF CommandIs, Idle
  <1>3. SE!Last(keys[n]) \in Key
    BY <1>2 DEF SE!Last
  <1>4. CommandIs(v, keys[n] # << >>, made') /\ v.step = "append"
    BY <1>3 DEF CommandIs
  <1> HIDE DEF v
  <1> QED
    BY <1>1, <1>4, Untouched, CommandGoesOn

LEMMA AppendMessageStep ==
  ASSUME IInv, NEW n \in Node, append_message(n)
  PROVE  IInv' /\ Grows
  <1>1. /\ op[n].step = "append" /\ op' = [op EXCEPT ![n] = Idle]
        /\ log' = log \/ log' = [log EXCEPT ![n] = @ \cup {Message(n, op[n].key)}]
        /\ UNCHANGED <<history, rings, session, made, cuts>>
    BY DEF append_message
  <1>2. op[n].key \in Key
    BY <1>1, CommandOf DEF CommandIs, Idle
  <1>3. LogsTyped'
    BY <1>1, <1>2 DEF IInv, LogsTyped, Messages, Message
  <1>4. CommandIs(Idle, keys[n] # << >>, made') /\ Idle.step = "idle"
    BY DEF CommandIs, Idle
  <1> QED
    BY <1>1, <1>3, <1>4, Untouched, CommandGoesOn

LEMMA KillStep ==
  ASSUME IInv, NEW n \in Node, Kill(n)
  PROVE  IInv' /\ Grows
  <1>1. /\ op' = [op EXCEPT ![n] = Idle] /\ Release({Operator(n)})
        /\ UNCHANGED <<history, log, session, made, cuts>>
    BY DEF Kill
  <1>2. Idle.step = "idle"
    BY DEF Idle
  <1>3. /\ op' = [m \in Node |-> op'[m]] /\ op'[n] = Idle
        /\ \A m \in Node : m # n => op'[m] = op[m]
    BY <1>1, OpTo
  <1>4. Known \subseteq Known' /\ PendingDistinct'
    BY <1>1, <1>2, <1>3, KnownGrows DEF Pends
  <1>5. /\ RingsLocked' /\ Grows /\ keys' = keys
        /\ \A m \in Node : lock'[m] = IF lock[m] \in {Operator(n)} THEN Nobody ELSE lock[m]
    BY <1>1, <1>4, LocksReleased
  <1>6. LocksStay({Operator(n)})
    BY <1>5 DEF LocksStay
  <1>7. CommandIs(op'[n], keys'[n] # << >>, made') /\ op'[n].step # "push"
    BY <1>2, <1>3 DEF CommandIs
  <1> QED
    BY <1>1, <1>3, <1>4, <1>5, <1>6, <1>7, Untouched, CommandDone

-----------------------------------------------------------------------------
(* Sessions.                                                               *)

LEMMA SessionOf ==
  ASSUME IInv, NEW d \in Dials
  PROVE  /\ SessionSound(session[d], Known, Ring(d[1]), Ring(d[2])) /\ SessionLocks(d)
         /\ session[d] = [f \in Fields |-> session[d][f]]
         /\ d[1] \in Node /\ d[2] \in Node
  <1>1. d[1] \in Node /\ d[2] \in Node
    BY HolderFacts
  <1>2. SessionSound(session[d], Known, Ring(d[1]), Ring(d[2])) /\ SessionLocks(d)
    BY DEF IInv, SessionsSound
  <1> QED
    BY <1>1, <1>2 DEF SessionSound, IsSession

LEMMA SessionTo ==
  ASSUME IInv, NEW d \in Dials, NEW v, session' = [session EXCEPT ![d] = v]
  PROVE  /\ session' = [e \in Dials |-> session'[e]] /\ session'[d] = v
         /\ \A e \in Dials : e # d => session'[e] = session[e]
  BY DEF IInv, SessionsSound

LEMMA UpdateTo ==
  ASSUME IInv, NEW d \in Dials, NEW fields, Update(d, fields)
  PROVE  /\ session' = [e \in Dials |-> session'[e]]
         /\ \A e \in Dials : e # d => session'[e] = session[e]
         /\ session'[d] = [f \in Fields |->
               IF f \in DOMAIN fields THEN fields[f] ELSE session[d][f]]
  <1> DEFINE v == [f \in DOMAIN session[d] |->
                     IF f \in DOMAIN fields THEN fields[f] ELSE session[d][f]]
  <1>1. session' = [session EXCEPT ![d] = v]
    BY DEF Update, IInv, SessionsSound
  <1>2. session[d] = [f \in Fields |-> session[d][f]]
    BY SessionOf
  <1>3. DOMAIN session[d] = Fields
    BY <1>2
  <1>4. v = [f \in Fields |-> IF f \in DOMAIN fields THEN fields[f] ELSE session[d][f]]
    BY <1>3
  <1> HIDE DEF v
  <1> QED
    BY <1>1, <1>4, SessionTo

(* A session goes on without a lock.                                       *)
LEMMA SessionGoesOn ==
  ASSUME IInv, NEW d \in Dials, NEW fields, Update(d, fields),
         UNCHANGED <<op, made, cuts, rings>>, HistoriesGood', LogsTyped',
         SessionSound(session'[d], Known, Ring(d[1]), Ring(d[2])),
         session'[d].client = "accept" => session[d].client = "accept",
         session'[d].server = "accept" => session[d].server = "accept"
  PROVE  IInv' /\ Grows
  <1>1. Known' = Known
    BY KnownStays
  <1>2. RingsLocked' /\ Grows
    BY <1>1, RingsSame
  <1>3. /\ session' = [e \in Dials |-> session'[e]]
        /\ \A e \in Dials : e # d => session'[e] = session[e]
    BY UpdateTo
  <1>4. lock' = lock /\ keys' = keys /\ LocksStay({Client(d), Server(d)})
    BY DEF rings, LocksStay
  <1>5. SessionSound(session'[d], Known', Ring(d[1])', Ring(d[2])')
    <2>1. Ring(d[1])' = Ring(d[1]) /\ Ring(d[2])' = Ring(d[2])
      BY <1>4 DEF Ring
    <2> QED
      BY <1>1, <2>1
  <1>6. SessionLocks(d)'
    BY <1>4, SessionOf DEF SessionLocks
  <1>7. cuts' \in 0..MaxCuts
    BY DEF IInv, CountsTyped
  <1> QED
    BY <1>2, <1>3, <1>4, <1>5, <1>6, <1>7, SessionDone

LEMMA NothingSound ==
  ASSUME NEW K, NEW rc, NEW rs
  PROVE  SessionSound(NoSession, K, rc, rs)
  <1>1. NoSession = [f \in Fields |-> NoSession[f]]
    BY DEF NoSession, Fields
  <1>2. /\ NoSession.client = "idle" /\ NoSession.server = "idle" /\ NoSession.had = {}
        /\ NoSession.download = {} /\ NoSession.upload = {}
    BY DEF NoSession
  <1> QED
    BY <1>1, <1>2 DEF SessionSound, IsSession

LEMMA SessionEnds ==
  ASSUME IInv, NEW d \in Dials, session' = [session EXCEPT ![d] = NoSession],
         Release({Client(d), Server(d)}), UNCHANGED <<op, made>>,
         cuts' \in 0..MaxCuts, HistoriesGood', LogsTyped'
  PROVE  IInv' /\ Grows
  <1>1. Known' = Known
    BY KnownStays
  <1>2. /\ RingsLocked' /\ Grows
        /\ \A m \in Node : lock'[m] = IF lock[m] \in {Client(d), Server(d)} THEN Nobody ELSE lock[m]
    BY <1>1, LocksReleased
  <1>3. /\ session' = [e \in Dials |-> session'[e]] /\ session'[d] = NoSession
        /\ \A e \in Dials : e # d => session'[e] = session[e]
    BY SessionTo
  <1>4. LocksStay({Client(d), Server(d)})
    BY <1>2 DEF LocksStay
  <1>5. SessionSound(session'[d], Known', Ring(d[1])', Ring(d[2])')
    BY <1>3, NothingSound
  <1>6. SessionLocks(d)'
    BY <1>3 DEF SessionLocks, NoSession
  <1> QED
    BY <1>2, <1>3, <1>4, <1>5, <1>6, SessionDone

LEMMA EndStep ==
  ASSUME IInv, NEW d \in Dials, EndSession(d), cuts' \in 0..MaxCuts
  PROVE  IInv' /\ Grows
  <1>1. HistoriesGood' /\ LogsTyped'
    BY Untouched DEF EndSession
  <1> QED
    BY <1>1, SessionEnds DEF EndSession

LEMMA FailStep ==
  ASSUME IInv, NEW d \in Dials, Fail(d)
  PROVE  IInv' /\ Grows
  <1>1. cuts' \in 0..MaxCuts /\ EndSession(d)
    BY DEF IInv, CountsTyped, Fail
  <1> QED
    BY <1>1, EndStep

LEMMA CutStep ==
  ASSUME IInv, NEW d \in Dials, Cut(d)
  PROVE  IInv' /\ Grows
  <1>1. cuts' \in 0..MaxCuts
    BY KeyRingOK DEF IInv, CountsTyped, Cut
  <1> QED
    BY <1>1, EndStep DEF Cut

LEMMA HistoryTo ==
  ASSUME IInv, NEW n \in Node, NEW h, Good(h), history' = [history EXCEPT ![n] = h]
  PROVE  HistoriesGood'
  BY DEF IInv, HistoriesGood, Good

LEMMA ConnectStep ==
  ASSUME IInv, NEW d \in Dials, Connect(d)
  PROVE  IInv' /\ Grows
  <1> DEFINE x == session'[d]
             h == history[d[1]]
             both == Ring(d[1]) \cup Ring(d[2])
             fields == [client |-> "policy", server |-> "policy",
                        toServer |-> <<Frame("status", h)>>, had |-> both]
  <1>1. /\ session[d] = NoSession /\ Update(d, fields)
        /\ UNCHANGED <<history, rings, op, log, made, cuts>>
    BY DEF Connect
  <1>2. x = [f \in Fields |-> IF f \in DOMAIN fields THEN fields[f] ELSE session[d][f]]
    BY <1>1, UpdateTo
  <1>3. Good(h)
    BY SessionOf DEF IInv, HistoriesGood
  <1> HIDE DEF h, both
  <1>4. /\ x.client = "policy" /\ x.server = "policy" /\ x.had = both
        /\ x.toServer = <<Frame("status", h)>>
    BY <1>2 DEF Fields
  <1>5. x.toClient = << >> /\ x.download = {} /\ x.upload = {}
    BY <1>1, <1>2 DEF Fields, NoSession
  <1>6. x = [f \in Fields |-> x[f]]
    BY <1>2
  <1> HIDE DEF x, fields
  <1>7. IsSession(x)
    BY <1>4, <1>5, <1>6 DEF IsSession
  <1>8. HasHistory(x.toServer, 1, "status") /\ x.toServer = <<x.toServer[1]>>
    BY <1>3, <1>4 DEF HasHistory, Holds, Frame
  <1>9. SessionSound(x, Known, Ring(d[1]), Ring(d[2]))
    BY <1>4, <1>5, <1>7, <1>8 DEF SessionSound, AtPolicy, both
  <1> QED
    BY <1>1, <1>4, <1>9, Untouched, SessionGoesOn DEF x

LEMMA ServerPolicyStep ==
  ASSUME IInv, NEW d \in Dials, ServerPolicy(d)
  PROVE  IInv' /\ Grows
  <1> DEFINE s == d[2]
             remote == session[d].toServer[1].content
             merged == IF Prefix(history[s], remote) THEN remote ELSE history[s]
             fields == [server |-> "offer", toServer |-> << >>,
                        toClient |-> <<Frame("update", merged)>>]
  <1>1. session[d].server = "policy"
    BY DEF ServerPolicy
  <1>2. \/ Fail(d)
        \/ /\ history' = [history EXCEPT ![s] = merged] /\ UNCHANGED <<op, log, made, cuts>>
           /\ \/ Update(d, fields) /\ UNCHANGED rings
              \/ session' = [session EXCEPT ![d] = NoSession] /\ Release({Client(d), Server(d)})
    BY DEF ServerPolicy
  <1>3. SessionSound(session[d], Known, Ring(d[1]), Ring(d[2])) /\ s \in Node
    BY SessionOf
  <1>4. AtPolicy(session[d])
    BY <1>1, <1>3 DEF SessionSound
  <1>5. Good(remote) /\ Good(history[s])
    BY <1>3, <1>4 DEF AtPolicy, HasHistory, IInv, HistoriesGood
  <1>6. Good(merged)
    BY <1>5
  <1> HIDE DEF merged
  <1>7. CASE history' = [history EXCEPT ![s] = merged] /\ UNCHANGED <<op, log, made, cuts>>
    <2>1. HistoriesGood' /\ LogsTyped' /\ cuts' \in 0..MaxCuts
      BY <1>3, <1>6, <1>7, HistoryTo, Untouched DEF IInv, CountsTyped
    <2>2. CASE Update(d, fields) /\ UNCHANGED rings
      <3> DEFINE x == session'[d]
      <3>1. x = [f \in Fields |-> IF f \in DOMAIN fields THEN fields[f] ELSE session[d][f]]
        BY <2>2, UpdateTo
      <3>2. /\ x.server = "offer" /\ x.toServer = << >>
            /\ x.toClient = <<Frame("update", merged)>>
            /\ x.client = session[d].client /\ x.had = session[d].had
            /\ x.download = session[d].download /\ x.upload = session[d].upload
            /\ x = [f \in Fields |-> x[f]]
        BY <3>1 DEF Fields
      <3> HIDE DEF x, fields
      <3>3. IsSession(x) /\ x.had \subseteq Ring(d[1]) \cup Ring(d[2])
        BY <1>3, <3>2 DEF SessionSound, IsSession
      <3>4. HasHistory(x.toClient, 1, "update") /\ x.toClient = <<x.toClient[1]>>
        BY <1>6, <3>2 DEF HasHistory, Holds, Frame
      <3>5. x.client = "policy"
        BY <1>4, <3>2 DEF AtPolicy
      <3>6. SessionSound(x, Known, Ring(d[1]), Ring(d[2]))
        BY <3>2, <3>3, <3>4, <3>5 DEF SessionSound, AtOffer
      <3> QED
        BY <1>7, <2>1, <2>2, <3>2, <3>5, <3>6, SessionGoesOn DEF x
    <2>3. CASE session' = [session EXCEPT ![d] = NoSession] /\ Release({Client(d), Server(d)})
      BY <1>7, <2>1, <2>3, SessionEnds
    <2>4. CASE Fail(d)
      BY <2>4, FailStep
    <2> QED
      BY <1>2, <2>2, <2>3, <2>4
  <1> QED
    BY <1>2, <1>7, FailStep

LEMMA AppendOne ==
  ASSUME NEW T, NEW r \in Seq(T), NEW b \in T, Len(r) = 1
  PROVE  Append(r, b) = <<r[1], b>>
  <1> DEFINE s == Append(r, b)
             t == <<r[1], b>>
  <1>1. /\ s \in Seq(T) /\ Len(s) = Len(r) + 1
        /\ s[Len(r) + 1] = b
        /\ \A i \in 1..Len(r) : s[i] = r[i]
    OBVIOUS
  <1>4. t \in Seq(T) /\ Len(t) = 2 /\ t[1] = r[1] /\ t[2] = b
    OBVIOUS
  <1> HIDE DEF s, t
  <1>5. \A i \in 1..2 : i = 1 \/ i = 2
    OBVIOUS
  <1>6. Len(s) = 2 /\ s[1] = r[1] /\ s[2] = b
    BY <1>1
  <1>7. s = t
    BY <1>1, <1>4, <1>5, <1>6, SameElements
  <1> QED
    BY <1>7 DEF s, t

LEMMA TailTwo ==
  ASSUME NEW T, NEW r \in Seq(T), Len(r) = 2
  PROVE  Tail(r) = <<r[2]>>
  <1> DEFINE s == Tail(r)
             t == <<r[2]>>
  <1>1. r # << >> /\ r[2] \in T
    OBVIOUS
  <1>2. /\ s \in Seq(T) /\ Len(s) = 1
        /\ \A i \in 1..Len(s) : s[i] = r[i + 1]
    BY <1>1
  <1>4. t \in Seq(T) /\ Len(t) = 1 /\ t[1] = r[2]
    BY <1>1
  <1> HIDE DEF s, t
  <1>5. s[1] = r[2]
    BY <1>2
  <1>6. \A i \in 1..1 : i = 1
    OBVIOUS
  <1>7. s = t
    BY <1>2, <1>4, <1>5, <1>6, SameElements
  <1> QED
    BY <1>7 DEF s, t

(* What Append and Tail do with the frames that are under way.             *)
LEMMA FrameSequences ==
  \A a, b : /\ Tail(<<a>>) = << >> /\ Tail(<<a, b>>) = <<b>>
            /\ Append(<<a>>, b) = <<a, b>>
  <1> TAKE a, b
  <1>1. Tail(<<a>>) = << >>
    OBVIOUS
  <1>2. Append(<<a>>, b) = <<a, b>>
    <2> DEFINE T == {a, b}
               r == <<a>>
    <2>1. r \in Seq(T) /\ Len(r) = 1 /\ r[1] = a /\ b \in T
      OBVIOUS
    <2> HIDE DEF r, T
    <2>2. Append(r, b) = <<r[1], b>>
      BY <2>1, AppendOne
    <2> QED
      BY <2>1, <2>2 DEF r
  <1>3. Tail(<<a, b>>) = <<b>>
    <2> DEFINE T == {a, b}
               r == <<a, b>>
    <2>1. r \in Seq(T) /\ Len(r) = 2 /\ r[2] = b
      OBVIOUS
    <2> HIDE DEF r, T
    <2>2. Tail(r) = <<r[2]>>
      BY <2>1, TailTwo
    <2> QED
      BY <2>1, <2>2 DEF r
  <1> QED
    BY <1>1, <1>2, <1>3

LEMMA ClientPolicyStep ==
  ASSUME IInv, NEW d \in Dials, ClientPolicy(d)
  PROVE  IInv' /\ Grows
  <1> DEFINE c == d[1]
             x == session[d]
             y == session'[d]
             remote == Head(x.toClient).content
             fields == [client |-> "keys", toClient |-> Tail(x.toClient)]
  <1>1. x.client = "policy" /\ x.toClient # << >>
    BY DEF ClientPolicy
  <1>2. CASE ~Fail(d)
    <2>1. /\ history' = [history EXCEPT ![c] = remote] /\ Update(d, fields)
          /\ UNCHANGED <<rings, op, log, made, cuts>>
      BY <1>2 DEF ClientPolicy
    <2>2. y = [f \in Fields |-> IF f \in DOMAIN fields THEN fields[f] ELSE x[f]]
      BY <2>1, UpdateTo
    <2>3. SessionSound(x, Known, Ring(c), Ring(d[2])) /\ c \in Node
      BY SessionOf
    <2>4. /\ y.client = "keys" /\ y.toClient = Tail(x.toClient)
          /\ y.server = x.server /\ y.toServer = x.toServer /\ y.policy = x.policy
          /\ y.had = x.had /\ y.download = x.download /\ y.upload = x.upload
          /\ y = [f \in Fields |-> y[f]]
      BY <2>2 DEF Fields
    <2> HIDE DEF x, y, fields
    <2>5. IsSession(y) /\ y.had \subseteq Ring(c) \cup Ring(d[2])
      BY <2>3, <2>4 DEF SessionSound, IsSession
    <2>6. \/ x.server = "offer" /\ AtOffer(x)
          \/ x.server = "keys" /\ Offering(x, Known, Ring(c))
      BY <1>1, <2>3 DEF SessionSound, AtPolicy, Replying, Replied, Exchanged
    <2>7. Good(remote)
      <3>1. HasHistory(x.toClient, 1, "update") /\ Head(x.toClient) = x.toClient[1]
        BY <1>1, <2>6 DEF AtOffer, Offering
      <3> QED
        BY <3>1 DEF HasHistory
    <2>8. SessionSound(y, Known, Ring(c), Ring(d[2]))
      <3>1. CASE x.server = "offer" /\ AtOffer(x)
        <4>1. x.toServer = << >> /\ x.toClient = <<x.toClient[1]>>
          BY <1>1, <3>1 DEF AtOffer
        <4>2. y.toClient = << >>
          BY <2>4, <4>1, FrameSequences
        <4>3. AtOffer(y)
          BY <2>4, <4>1, <4>2 DEF AtOffer
        <4> QED
          BY <2>4, <2>5, <3>1, <4>3 DEF SessionSound
      <3>2. CASE x.server = "keys" /\ Offering(x, Known, Ring(c))
        <4>1. /\ x.toServer = << >> /\ x.toClient = <<x.toClient[1], x.toClient[2]>>
              /\ HasOffers(x.toClient, 2, Known)
              /\ Private(x) => x.had \subseteq Ring(c) \cup Offered(x.toClient, 2)
          BY <1>1, <3>2 DEF Offering
        <4>2. y.toClient = <<x.toClient[2]>>
          <5> DEFINE a == x.toClient[1]
                     b == x.toClient[2]
          <5>1. x.toClient = <<a, b>>
            BY <4>1
          <5> HIDE DEF a, b
          <5>2. Tail(x.toClient) = <<b>>
            BY <5>1, FrameSequences
          <5> QED
            BY <2>4, <5>2 DEF b
        <4>3. /\ HasOffers(y.toClient, 1, Known) /\ y.toClient = <<y.toClient[1]>>
              /\ Offered(y.toClient, 1) = Offered(x.toClient, 2)
          BY <4>1, <4>2 DEF HasOffers, Holds, Offered
        <4>4. Offering(y, Known, Ring(c))
          BY <2>4, <4>1, <4>3 DEF Offering, Private
        <4> QED
          BY <2>4, <2>5, <3>2, <4>4 DEF SessionSound
      <3> QED
        BY <2>6, <3>1, <3>2
    <2>9. HistoriesGood' /\ LogsTyped'
      BY <2>1, <2>3, <2>7, HistoryTo, Untouched
    <2> QED
      BY <2>1, <2>4, <2>8, <2>9, SessionGoesOn DEF x, y
  <1> QED
    BY <1>2, FailStep

LEMMA ServerOfferStep ==
  ASSUME IInv, NEW d \in Dials, ServerOffer(d)
  PROVE  IInv' /\ Grows
  <1> DEFINE s == d[2]
             x == session[d]
             y == session'[d]
             p == policy(s)
             offers == IF p.visibility = "private" THEN Offers(s) ELSE << >>
             fields == [server |-> "keys", policy |-> p,
                        toClient |-> Append(x.toClient, Frame("keys", offers))]
  <1>1. x.server = "offer"
    BY DEF ServerOffer
  <1>2. CASE ~Fail(d)
    <2>1. Update(d, fields) /\ UNCHANGED <<history, rings, op, log, made, cuts>>
      BY <1>2 DEF ServerOffer
    <2> HIDE DEF fields
    <2>2. y = [f \in Fields |-> IF f \in DOMAIN fields THEN fields[f] ELSE x[f]]
      BY <2>1, UpdateTo
    <2>3. SessionSound(x, Known, Ring(d[1]), Ring(s)) /\ s \in Node
      BY SessionOf
    <2>4. offers \in Seq(Known) /\ (p.visibility = "private" => SE!ToSet(offers) = Ring(s))
      BY <2>3, RingOf DEF Offers
    <2> HIDE DEF p, offers
    <2>5. /\ y.server = "keys" /\ y.policy = p
          /\ y.toClient = Append(x.toClient, Frame("keys", offers))
          /\ y.client = x.client /\ y.toServer = x.toServer
          /\ y.had = x.had /\ y.download = x.download /\ y.upload = x.upload
          /\ y = [f \in Fields |-> y[f]]
      BY <2>2 DEF Fields, fields
    <2> HIDE DEF x, y
    <2>6. IsSession(y) /\ y.had \subseteq Ring(d[1]) \cup Ring(s)
      BY <2>3, <2>5 DEF SessionSound, IsSession
    <2>7. AtOffer(x)
      BY <1>1, <2>3 DEF SessionSound
    <2>8. Offering(y, Known, Ring(d[1]))
      <3>1. CASE x.client = "policy"
        <4>1. /\ x.toClient = <<x.toClient[1]>> /\ HasHistory(x.toClient, 1, "update")
              /\ x.toServer = << >>
          BY <2>7, <3>1 DEF AtOffer
        <4>2. y.toClient = <<x.toClient[1], Frame("keys", offers)>>
          BY <2>5, <4>1, FrameSequences
        <4>3. /\ y.toClient = <<y.toClient[1], y.toClient[2]>>
              /\ y.toClient[1] = x.toClient[1] /\ y.toClient[2] = Frame("keys", offers)
          BY <4>2
        <4>4. HasHistory(y.toClient, 1, "update")
          BY <4>1, <4>3 DEF HasHistory, Holds
        <4>5. HasOffers(y.toClient, 2, Known) /\ Offered(y.toClient, 2) = SE!ToSet(offers)
          BY <2>4, <4>3 DEF HasOffers, Holds, Offered, Frame
        <4> QED
          BY <2>4, <2>5, <2>6, <3>1, <4>1, <4>3, <4>4, <4>5 DEF Offering, Private
      <3>2. CASE x.client # "policy"
        <4>1. x.client = "keys" /\ x.toClient = << >> /\ x.toServer = << >>
          BY <2>7, <3>2 DEF AtOffer
        <4>2. y.toClient = <<Frame("keys", offers)>>
          BY <2>5, <4>1
        <4>3. y.toClient = <<y.toClient[1]>> /\ y.toClient[1] = Frame("keys", offers)
          BY <4>2
        <4>4. HasOffers(y.toClient, 1, Known) /\ Offered(y.toClient, 1) = SE!ToSet(offers)
          BY <2>4, <4>3 DEF HasOffers, Holds, Offered, Frame
        <4> QED
          BY <2>4, <2>5, <2>6, <4>1, <4>3, <4>4 DEF Offering, Private
      <3> QED
        BY <3>1, <3>2
    <2>9. SessionSound(y, Known, Ring(d[1]), Ring(s))
      BY <2>5, <2>6, <2>8 DEF SessionSound
    <2> QED
      BY <2>1, <2>5, <2>9, Untouched, SessionGoesOn DEF x, y
  <1> QED
    BY <1>2, FailStep

(* The client's end while it has the server's offers in front of it.       *)
LEMMA ClientHasOffers ==
  ASSUME IInv, NEW d \in Dials,
         \/ session[d].client = "keys" /\ session[d].toClient # << >>
         \/ session[d].client = "accept"
  PROVE  LET x == session[d] IN
         /\ x.server = "keys" /\ x.toServer = << >>
         /\ x.toClient = <<x.toClient[1]>> /\ HasOffers(x.toClient, 1, Known)
         /\ Private(x) => x.had \subseteq Ring(d[1]) \cup Offered(x.toClient, 1)
         /\ Head(x.toClient) = x.toClient[1]
  <1> DEFINE x == session[d]
  <1>1. SessionSound(x, Known, Ring(d[1]), Ring(d[2]))
    BY SessionOf
  <1>2. (x.client = "keys" /\ x.toClient # << >>) \/ x.client = "accept"
    OBVIOUS
  <1> HIDE DEF x
  <1>3. x.server = "keys" /\ Offering(x, Known, Ring(d[1]))
    BY <1>1, <1>2 DEF SessionSound, AtPolicy, AtOffer, Replying, Replied, Exchanged
  <1>4. Head(x.toClient) = x.toClient[1]
    BY <1>2, <1>3 DEF Offering
  <1> QED
    BY <1>2, <1>3, <1>4 DEF Offering, x

LEMMA ClientKeysStep ==
  ASSUME IInv, NEW d \in Dials, ClientKeys(d)
  PROVE  IInv' /\ Grows
  <1> DEFINE c == d[1]
             x == session[d]
             y == session'[d]
             offers == Head(x.toClient).content
  <1>1. x.client = "keys" /\ x.toClient # << >>
    BY DEF ClientKeys
  <1>2. SessionSound(x, Known, Ring(c), Ring(d[2])) /\ c \in Node /\ d[2] \in Node
    BY SessionOf
  <1>3. /\ x.server = "keys" /\ x.toServer = << >>
        /\ x.toClient = <<x.toClient[1]>> /\ HasOffers(x.toClient, 1, Known)
        /\ Private(x) => x.had \subseteq Ring(c) \cup Offered(x.toClient, 1)
    BY <1>1, ClientHasOffers
  <1>4. CASE ~Fail(d) /\ policy(c).visibility = "private"
    <2> DEFINE fields == [client |-> "accept"]
    <2>1. /\ LoadKeys(Client(d), c) /\ Update(d, fields)
          /\ UNCHANGED <<history, op, log, made, cuts>>
      BY <1>4 DEF ClientKeys
    <2>2. /\ session' = [e \in Dials |-> session'[e]]
          /\ \A e \in Dials : e # d => session'[e] = session[e]
          /\ y = [f \in Fields |-> IF f \in DOMAIN fields THEN fields[f] ELSE x[f]]
      BY <2>1, UpdateTo
    <2>3. Known' = Known /\ HistoriesGood' /\ LogsTyped' /\ cuts' \in 0..MaxCuts
      BY <2>1, KnownStays, Untouched DEF IInv, CountsTyped
    <2>4. /\ RingsLocked' /\ Grows /\ keys' = keys /\ lock[c] = Nobody
          /\ \A m \in Node : lock'[m] = IF m = c THEN Client(d) ELSE lock[m]
      BY <1>2, <2>1, <2>3, HolderFacts, KeysLoaded
    <2>5. /\ y.client = "accept" /\ y.toClient = x.toClient
          /\ y.server = x.server /\ y.toServer = x.toServer /\ y.policy = x.policy
          /\ y.had = x.had /\ y.download = x.download /\ y.upload = x.upload
          /\ y = [f \in Fields |-> y[f]]
      BY <2>2 DEF Fields
    <2> HIDE DEF x, y, fields
    <2>6. IsSession(y) /\ y.had \subseteq Ring(c) \cup Ring(d[2])
      BY <1>2, <2>5 DEF SessionSound, IsSession
    <2>7. Offering(y, Known, Ring(c))
      BY <1>3, <2>5 DEF Offering, Private
    <2>8. SessionSound(y, Known, Ring(c), Ring(d[2]))
      BY <1>3, <2>5, <2>6, <2>7 DEF SessionSound
    <2>9. SessionSound(y, Known', Ring(c)', Ring(d[2])')
      <3>1. Ring(c)' = Ring(c) /\ Ring(d[2])' = Ring(d[2])
        BY <2>4 DEF Ring
      <3> QED
        BY <2>3, <2>8, <3>1
    <2>10. SessionLocks(d)'
      BY <1>2, <1>3, <2>4, <2>5 DEF SessionLocks, y
    <2>11. LocksStay({Client(d), Server(d)})
      BY <2>4 DEF LocksStay
    <2> QED
      BY <2>1, <2>2, <2>3, <2>4, <2>9, <2>10, <2>11, SessionDone DEF y
  <1>5. CASE ~Fail(d) /\ policy(c).visibility # "private"
    <2> DEFINE fields == [client |-> "messages", toClient |-> << >>,
                          toServer |-> <<Frame("keys", << >>)>>, had |-> {}]
    <2>1. Update(d, fields) /\ UNCHANGED <<history, rings, op, log, made, cuts>>
      BY <1>5 DEF ClientKeys
    <2>2. y = [f \in Fields |-> IF f \in DOMAIN fields THEN fields[f] ELSE x[f]]
      BY <2>1, UpdateTo
    <2>3. /\ y.client = "messages" /\ y.toClient = << >> /\ y.had = {}
          /\ y.toServer = <<Frame("keys", << >>)>>
          /\ y.server = x.server /\ y.download = x.download /\ y.upload = x.upload
          /\ y = [f \in Fields |-> y[f]]
      BY <2>2 DEF Fields
    <2> HIDE DEF x, y, fields
    <2>4. IsSession(y)
      BY <1>2, <2>3 DEF SessionSound, IsSession
    <2>5. y.toServer = <<y.toServer[1]>> /\ HasOffers(y.toServer, 1, Known)
      <3>1. y.toServer[1] = Frame("keys", << >>) /\ y.toServer = <<y.toServer[1]>>
        BY <2>3
      <3>2. << >> \in Seq(Known)
        OBVIOUS
      <3>3. y.toServer[1].content = << >>
        BY <3>1 DEF Frame
      <3> QED
        BY <3>1, <3>2, <3>3 DEF HasOffers, Holds
    <2>6. SessionSound(y, Known, Ring(c), Ring(d[2]))
      BY <1>3, <2>3, <2>4, <2>5 DEF SessionSound, Replied
    <2> QED
      BY <1>3, <2>1, <2>3, <2>6, Untouched, SessionGoesOn DEF x, y
  <1> QED
    BY <1>4, <1>5, FailStep

LEMMA ClientAcceptStep ==
  ASSUME IInv, NEW d \in Dials, ClientAccept(d)
  PROVE  IInv' /\ Grows
  <1> DEFINE c == d[1]
             x == session[d]
             y == session'[d]
             offers == x.toClient[1].content
             ring == seen[Client(d)]
             ks == Accepted(ring, offers)
             fields == [client |-> "reply", toClient |-> << >>]
  <1>1. x.client = "accept"
    BY DEF ClientAccept
  <1>2. /\ SessionSound(x, Known, Ring(c), Ring(d[2])) /\ c \in Node /\ d[2] \in Node
        /\ lock[c] = Client(d)
    BY <1>1, SessionOf DEF SessionLocks
  <1>3. /\ x.server = "keys" /\ x.toServer = << >> /\ Head(x.toClient) = x.toClient[1]
        /\ x.toClient = <<x.toClient[1]>> /\ HasOffers(x.toClient, 1, Known)
        /\ Private(x) => x.had \subseteq Ring(c) \cup Offered(x.toClient, 1)
    BY <1>1, ClientHasOffers
  <1>4. /\ SaveKeys(Client(d), c, ks) /\ Update(d, fields)
        /\ UNCHANGED <<history, op, log, made, cuts>>
    BY <1>3 DEF ClientAccept
  <1>5. /\ session' = [e \in Dials |-> session'[e]]
        /\ \A e \in Dials : e # d => session'[e] = session[e]
        /\ y = [f \in Fields |-> IF f \in DOMAIN fields THEN fields[f] ELSE x[f]]
    BY <1>4, UpdateTo
  <1>6. Known' = Known /\ HistoriesGood' /\ LogsTyped' /\ cuts' \in 0..MaxCuts /\ Known \subseteq Key
    BY <1>4, KnownStays, KnownAreKeys, Untouched DEF IInv, CountsTyped
  <1>7. Client(d) \in Holders(c) /\ Client(d) # Nobody
    BY HolderFacts
  <1>8. ring = keys[c]
    BY <1>2, <1>7 DEF IInv, RingsLocked
  <1>9. ring \in Seq(Known) /\ SE!IsInjective(ring) /\ Ring(c) = SE!ToSet(ring)
    BY <1>2, <1>8, RingOf
  <1>10. /\ offers \in Seq(Known) /\ SE!ToSet(offers) = Offered(x.toClient, 1)
    BY <1>3 DEF HasOffers, Offered
  <1>11. /\ y.client = "reply" /\ y.toClient = << >>
         /\ y.server = x.server /\ y.toServer = x.toServer /\ y.policy = x.policy
         /\ y.had = x.had /\ y.download = x.download /\ y.upload = x.upload
         /\ y = [f \in Fields |-> y[f]]
    BY <1>5 DEF Fields
  <1> HIDE DEF x, y, fields, offers, ring
  <1>12. /\ ks \in Seq(Known) /\ SE!IsInjective(ks)
         /\ SE!ToSet(ks) = SE!ToSet(ring) \cup SE!ToSet(offers)
    BY <1>9, <1>10, AcceptedRing
  <1> HIDE DEF ks
  <1>13. ks \in Seq(Known') /\ Known \subseteq Known' /\ Known' \subseteq Key
    BY <1>6, <1>12
  <1>14. SE!ToSet(seen[Client(d)]) \subseteq SE!ToSet(ks)
    BY <1>12 DEF ring
  <1>15. /\ RingsLocked' /\ Grows
         /\ \A m \in Node : /\ lock'[m] = IF m = c THEN Nobody ELSE lock[m]
                            /\ keys'[m] = IF m = c THEN ks ELSE keys[m]
    BY <1>2, <1>4, <1>7, <1>12, <1>13, <1>14, KeysSaved
  <1>16. /\ Ring(c)' = SE!ToSet(ks)
         /\ Ring(c) \subseteq Ring(c)' /\ Ring(d[2]) \subseteq Ring(d[2])'
    BY <1>2, <1>15 DEF Ring, Grows
  <1>17. IsSession(y) /\ y.had \subseteq Ring(c)' \cup Ring(d[2])'
    BY <1>2, <1>11, <1>16 DEF SessionSound, IsSession
  <1>18. Replying(y, Ring(c)')
    BY <1>3, <1>9, <1>10, <1>11, <1>12, <1>16 DEF Replying, Private
  <1>19. SessionSound(y, Known', Ring(c)', Ring(d[2])')
    BY <1>3, <1>11, <1>17, <1>18 DEF SessionSound
  <1>20. SessionLocks(d)'
    BY <1>3, <1>11 DEF SessionLocks, y
  <1>21. LocksStay({Client(d), Server(d)})
    BY <1>2, <1>15 DEF LocksStay
  <1> QED
    BY <1>4, <1>5, <1>6, <1>15, <1>19, <1>20, <1>21, SessionDone DEF y

LEMMA ClientReplyStep ==
  ASSUME IInv, NEW d \in Dials, ClientReply(d)
  PROVE  IInv' /\ Grows
  <1> DEFINE c == d[1]
             x == session[d]
             y == session'[d]
             fields == [client |-> "messages", toServer |-> <<Frame("keys", keys[c])>>]
  <1>1. /\ x.client = "reply" /\ Update(d, fields)
        /\ UNCHANGED <<history, rings, op, log, made, cuts>>
    BY DEF ClientReply, Offers
  <1>2. SessionSound(x, Known, Ring(c), Ring(d[2])) /\ c \in Node
    BY SessionOf
  <1>3. keys[c] \in Seq(Known) /\ SE!ToSet(keys[c]) = Ring(c)
    BY <1>2, RingOf
  <1>4. y = [f \in Fields |-> IF f \in DOMAIN fields THEN fields[f] ELSE x[f]]
    BY <1>1, UpdateTo
  <1>5. /\ y.client = "messages" /\ y.toServer = <<Frame("keys", keys[c])>>
        /\ y.server = x.server /\ y.toClient = x.toClient /\ y.policy = x.policy
        /\ y.had = x.had /\ y.download = x.download /\ y.upload = x.upload
        /\ y = [f \in Fields |-> y[f]]
    BY <1>4 DEF Fields
  <1> HIDE DEF x, y, fields
  <1>6. x.server = "keys" /\ Replying(x, Ring(c))
    BY <1>1, <1>2 DEF SessionSound, AtPolicy, AtOffer, Offering, Replied, Exchanged
  <1>7. IsSession(y) /\ y.had \subseteq Ring(c) \cup Ring(d[2])
    BY <1>2, <1>5 DEF SessionSound, IsSession
  <1>8. /\ y.toServer = <<y.toServer[1]>> /\ HasOffers(y.toServer, 1, Known)
        /\ Offered(y.toServer, 1) = Ring(c)
    BY <1>3, <1>5 DEF HasOffers, Holds, Offered, Frame
  <1>9. Replied(y, Known, Ring(c))
    BY <1>5, <1>6, <1>8 DEF Replied, Replying, Private
  <1>10. SessionSound(y, Known, Ring(c), Ring(d[2]))
    BY <1>5, <1>6, <1>7, <1>9 DEF SessionSound
  <1> QED
    BY <1>1, <1>5, <1>6, <1>10, Untouched, SessionGoesOn DEF x, y

(* The server compares the logs.                                           *)
LEMMA Compared ==
  ASSUME IInv, NEW d \in Dials, Update(d, Inventory(d))
  PROVE  LET x == session[d]
             y == session'[d]
         IN  /\ y.server = "messages" /\ y.toServer = << >>
             /\ y.download \subseteq Messages /\ y.upload \subseteq Messages
             /\ y.client = x.client /\ y.toClient = x.toClient
             /\ y.policy = x.policy /\ y.had = x.had
             /\ y = [f \in Fields |-> y[f]]
  <1> DEFINE x == session[d]
             y == session'[d]
             r == log[d[2]] \ log[d[1]]
             t == log[d[1]] \ log[d[2]]
             fields == [server |-> "messages", toServer |-> << >>, download |-> r, upload |-> t]
  <1>1. fields = Inventory(d)
    BY DEF Inventory
  <1>2. r \subseteq Messages /\ t \subseteq Messages
    BY SessionOf DEF IInv, LogsTyped
  <1> HIDE DEF r, t
  <1>3. Update(d, fields)
    BY <1>1
  <1> HIDE DEF fields
  <1>4. y = [f \in Fields |-> IF f \in DOMAIN fields THEN fields[f] ELSE x[f]]
    BY <1>3, UpdateTo
  <1> QED
    BY <1>2, <1>4 DEF Fields, fields

LEMMA ServerKeysStep ==
  ASSUME IInv, NEW d \in Dials, ServerKeys(d)
  PROVE  IInv' /\ Grows
  <1> DEFINE s == d[2]
             x == session[d]
             y == session'[d]
             p == x.policy
  <1>1. x.server = "keys" /\ x.toServer # << >>
    BY DEF ServerKeys
  <1>2. SessionSound(x, Known, Ring(d[1]), Ring(s)) /\ d[1] \in Node /\ s \in Node
    BY SessionOf
  <1>3. Replied(x, Known, Ring(d[1]))
    BY <1>1, <1>2 DEF SessionSound, Offering, Replying
  <1>4. CASE ~Fail(d) /\ Private(x)
    <2> DEFINE fields == [server |-> "accept"]
    <2>1. /\ LoadKeys(Server(d), s) /\ Update(d, fields)
          /\ UNCHANGED <<history, op, log, made, cuts>>
      BY <1>4 DEF ServerKeys, Private
    <2>2. /\ session' = [e \in Dials |-> session'[e]]
          /\ \A e \in Dials : e # d => session'[e] = session[e]
          /\ y = [f \in Fields |-> IF f \in DOMAIN fields THEN fields[f] ELSE x[f]]
      BY <2>1, UpdateTo
    <2>3. Known' = Known /\ HistoriesGood' /\ LogsTyped' /\ cuts' \in 0..MaxCuts
      BY <2>1, KnownStays, Untouched DEF IInv, CountsTyped
    <2>4. /\ RingsLocked' /\ Grows /\ keys' = keys /\ lock[s] = Nobody
          /\ \A m \in Node : lock'[m] = IF m = s THEN Server(d) ELSE lock[m]
      BY <1>2, <2>1, <2>3, HolderFacts, KeysLoaded
    <2>5. /\ y.server = "accept" /\ y.toClient = x.toClient
          /\ y.client = x.client /\ y.toServer = x.toServer /\ y.policy = x.policy
          /\ y.had = x.had /\ y.download = x.download /\ y.upload = x.upload
          /\ y = [f \in Fields |-> y[f]]
      BY <2>2 DEF Fields
    <2> HIDE DEF x, y, fields
    <2>6. IsSession(y) /\ y.had \subseteq Ring(d[1]) \cup Ring(s)
      BY <1>2, <2>5 DEF SessionSound, IsSession
    <2>7. Replied(y, Known, Ring(d[1]))
      BY <1>3, <2>5 DEF Replied, Private
    <2>8. SessionSound(y, Known, Ring(d[1]), Ring(s))
      BY <2>5, <2>6, <2>7 DEF SessionSound
    <2>9. SessionSound(y, Known', Ring(d[1])', Ring(s)')
      <3>1. Ring(d[1])' = Ring(d[1]) /\ Ring(s)' = Ring(s)
        BY <2>4 DEF Ring
      <3> QED
        BY <2>3, <2>8, <3>1
    <2>10. SessionLocks(d)'
      BY <1>2, <2>4, <2>5, <2>7 DEF SessionLocks, Replied, y
    <2>11. LocksStay({Client(d), Server(d)})
      BY <2>4 DEF LocksStay
    <2> QED
      BY <2>1, <2>2, <2>3, <2>4, <2>9, <2>10, <2>11, SessionDone DEF y
  <1>5. CASE ~Fail(d) /\ ~Private(x)
    <2>1. Update(d, Inventory(d)) /\ UNCHANGED <<history, rings, op, log, made, cuts>>
      BY <1>5 DEF ServerKeys, Private
    <2>2. /\ y.server = "messages" /\ y.toServer = << >>
          /\ y.download \subseteq Messages /\ y.upload \subseteq Messages
          /\ y.client = x.client /\ y.toClient = x.toClient
          /\ y.policy = x.policy /\ y.had = x.had
          /\ y = [f \in Fields |-> y[f]]
      BY <2>1, Compared
    <2> HIDE DEF x, y
    <2>3. IsSession(y) /\ y.had \subseteq Ring(d[1]) \cup Ring(s)
      BY <1>2, <2>2 DEF SessionSound, IsSession
    <2>4. Exchanged(y, Ring(d[1]), Ring(s))
      BY <1>3, <1>5, <2>2 DEF Exchanged, Replied, Private
    <2>5. SessionSound(y, Known, Ring(d[1]), Ring(s))
      BY <2>2, <2>3, <2>4 DEF SessionSound
    <2> QED
      BY <2>1, <2>2, <2>5, Untouched, SessionGoesOn DEF x, y
  <1> QED
    BY <1>4, <1>5, FailStep

LEMMA ServerAcceptStep ==
  ASSUME IInv, NEW d \in Dials, ServerAccept(d)
  PROVE  IInv' /\ Grows
  <1> DEFINE s == d[2]
             x == session[d]
             y == session'[d]
             offers == x.toServer[1].content
             ring == seen[Server(d)]
             ks == Accepted(ring, offers)
  <1>1. x.server = "accept"
    BY DEF ServerAccept
  <1>2. /\ SessionSound(x, Known, Ring(d[1]), Ring(s)) /\ d[1] \in Node /\ s \in Node
        /\ lock[s] = Server(d)
    BY <1>1, SessionOf DEF SessionLocks
  <1>3. Replied(x, Known, Ring(d[1]))
    BY <1>1, <1>2 DEF SessionSound
  <1>4. /\ SaveKeys(Server(d), s, ks) /\ Update(d, Inventory(d))
        /\ UNCHANGED <<history, op, log, made, cuts>>
    BY DEF ServerAccept
  <1>5. /\ session' = [e \in Dials |-> session'[e]]
        /\ \A e \in Dials : e # d => session'[e] = session[e]
    BY <1>4, UpdateTo
  <1>6. Known' = Known /\ HistoriesGood' /\ LogsTyped' /\ cuts' \in 0..MaxCuts /\ Known \subseteq Key
    BY <1>4, KnownStays, KnownAreKeys, Untouched DEF IInv, CountsTyped
  <1>7. Server(d) \in Holders(s) /\ Server(d) # Nobody
    BY HolderFacts
  <1>8. ring = keys[s]
    BY <1>2, <1>7 DEF IInv, RingsLocked
  <1>9. ring \in Seq(Known) /\ SE!IsInjective(ring)
    BY <1>2, <1>8, RingOf
  <1>10. offers \in Seq(Known) /\ SE!ToSet(offers) = Offered(x.toServer, 1)
    BY <1>3 DEF Replied, HasOffers, Offered
  <1>11. /\ y.server = "messages" /\ y.toServer = << >>
         /\ y.download \subseteq Messages /\ y.upload \subseteq Messages
         /\ y.client = x.client /\ y.toClient = x.toClient
         /\ y.policy = x.policy /\ y.had = x.had
         /\ y = [f \in Fields |-> y[f]]
    BY <1>4, Compared
  <1> HIDE DEF x, y, offers, ring
  <1>12. /\ ks \in Seq(Known) /\ SE!IsInjective(ks)
         /\ SE!ToSet(ks) = SE!ToSet(ring) \cup SE!ToSet(offers)
    BY <1>9, <1>10, AcceptedRing
  <1> HIDE DEF ks
  <1>13. ks \in Seq(Known') /\ Known \subseteq Known' /\ Known' \subseteq Key
    BY <1>6, <1>12
  <1>14. SE!ToSet(seen[Server(d)]) \subseteq SE!ToSet(ks)
    BY <1>12 DEF ring
  <1>15. /\ RingsLocked' /\ Grows
         /\ \A m \in Node : /\ lock'[m] = IF m = s THEN Nobody ELSE lock[m]
                            /\ keys'[m] = IF m = s THEN ks ELSE keys[m]
    BY <1>2, <1>4, <1>7, <1>12, <1>13, <1>14, KeysSaved
  <1>16. /\ Ring(s)' = SE!ToSet(ks)
         /\ Ring(d[1]) \subseteq Ring(d[1])' /\ Ring(s) \subseteq Ring(s)'
    BY <1>2, <1>15 DEF Ring, Grows
  <1>17. IsSession(y) /\ y.had \subseteq Ring(d[1])' \cup Ring(s)'
    BY <1>2, <1>11, <1>16 DEF SessionSound, IsSession
  <1>18. Exchanged(y, Ring(d[1])', Ring(s)')
    BY <1>3, <1>10, <1>11, <1>12, <1>16 DEF Exchanged, Replied, Private
  <1>19. SessionSound(y, Known', Ring(d[1])', Ring(s)')
    BY <1>11, <1>17, <1>18 DEF SessionSound
  <1>20. SessionLocks(d)'
    BY <1>3, <1>11 DEF SessionLocks, Replied, y
  <1>21. LocksStay({Client(d), Server(d)})
    BY <1>2, <1>15 DEF LocksStay
  <1> QED
    BY <1>4, <1>5, <1>6, <1>15, <1>19, <1>20, <1>21, SessionDone DEF y

(* A message of the session is taken, and rest says what remains.          *)
LEMMA ReceiveStep ==
  ASSUME IInv, NEW d \in Dials, NEW n \in {d[1], d[2]}, NEW m \in Messages,
         NEW rest, Receive(d, n, m, rest), session[d].server = "messages",
         LET y == session'[d]
             x == session[d]
         IN  Update(d, rest) =>
               /\ \A f \in Fields \ {"download", "upload"} : y[f] = x[f]
               /\ y.download \subseteq x.download /\ y.upload \subseteq x.upload
  PROVE  IInv' /\ Grows
  <1> DEFINE x == session[d]
             y == session'[d]
  <1>1. CASE ~Fail(d)
    <2>1. /\ log' = [log EXCEPT ![n] = @ \cup {m}] /\ Update(d, rest)
          /\ UNCHANGED <<history, rings, op, made, cuts>>
      BY <1>1 DEF Receive
    <2>2. SessionSound(x, Known, Ring(d[1]), Ring(d[2])) /\ n \in Node
      BY SessionOf
    <2>3. y = [f \in Fields |-> y[f]]
      BY <2>1, UpdateTo
    <2>4. /\ y.client = x.client /\ y.server = x.server /\ y.toClient = x.toClient
          /\ y.toServer = x.toServer /\ y.policy = x.policy /\ y.had = x.had
          /\ y.download \subseteq x.download /\ y.upload \subseteq x.upload
      BY <2>1 DEF Fields
    <2>5. x.server = "messages"
      OBVIOUS
    <2> HIDE DEF x, y
    <2>6. IsSession(y) /\ y.had \subseteq Ring(d[1]) \cup Ring(d[2])
      BY <2>2, <2>3, <2>4 DEF SessionSound, IsSession
    <2>7. Exchanged(y, Ring(d[1]), Ring(d[2]))
      BY <2>2, <2>4, <2>5 DEF SessionSound, Exchanged, Private
    <2>8. SessionSound(y, Known, Ring(d[1]), Ring(d[2]))
      BY <2>4, <2>5, <2>6, <2>7 DEF SessionSound
    <2>9. HistoriesGood' /\ LogsTyped'
      BY <2>1, <2>2, Untouched DEF IInv, LogsTyped
    <2> QED
      BY <2>1, <2>4, <2>8, <2>9, SessionGoesOn DEF x, y
  <1> QED
    BY <1>1, FailStep

LEMMA DownloadStep ==
  ASSUME IInv, NEW d \in Dials, Download(d)
  PROVE  IInv' /\ Grows
  <1> DEFINE x == session[d]
             y == session'[d]
  <1>1. x.server = "messages"
    BY DEF Download
  <1>2. PICK m \in x.download : Receive(d, d[1], m, [download |-> x.download \ {m}])
    BY DEF Download
  <1>3. m \in Messages
    BY SessionOf DEF SessionSound, IsSession
  <1> DEFINE rest == [download |-> x.download \ {m}]
  <1>4. ASSUME Update(d, rest)
        PROVE  /\ \A f \in Fields \ {"download", "upload"} : y[f] = x[f]
               /\ y.download \subseteq x.download /\ y.upload \subseteq x.upload
    <2>1. y = [f \in Fields |-> IF f \in DOMAIN rest THEN rest[f] ELSE x[f]]
      BY <1>4, UpdateTo
    <2> QED
      BY <2>1 DEF Fields
  <1> HIDE DEF rest
  <1> QED
    BY <1>1, <1>2, <1>3, <1>4, ReceiveStep DEF rest

LEMMA UploadStep ==
  ASSUME IInv, NEW d \in Dials, Upload(d)
  PROVE  IInv' /\ Grows
  <1> DEFINE x == session[d]
             y == session'[d]
  <1>1. x.server = "messages"
    BY DEF Upload
  <1>2. PICK m \in x.upload : Receive(d, d[2], m, [upload |-> x.upload \ {m}])
    BY DEF Upload
  <1>3. m \in Messages
    BY SessionOf DEF SessionSound, IsSession
  <1> DEFINE rest == [upload |-> x.upload \ {m}]
  <1>4. ASSUME Update(d, rest)
        PROVE  /\ \A f \in Fields \ {"download", "upload"} : y[f] = x[f]
               /\ y.download \subseteq x.download /\ y.upload \subseteq x.upload
    <2>1. y = [f \in Fields |-> IF f \in DOMAIN rest THEN rest[f] ELSE x[f]]
      BY <1>4, UpdateTo
    <2> QED
      BY <2>1 DEF Fields
  <1> HIDE DEF rest
  <1> QED
    BY <1>1, <1>2, <1>3, <1>4, ReceiveStep DEF rest

-----------------------------------------------------------------------------
(* The whole specification.                                                *)

LEMMA InitIInv == Init => IInv
  <1> SUFFICES ASSUME Init PROVE IInv
    OBVIOUS
  <1>1. /\ history = [n \in Node |-> Founded] /\ keys = [n \in Node |-> << >>]
        /\ lock = [n \in Node |-> Nobody] /\ seen = [p \in Process |-> << >>]
        /\ op = [n \in Node |-> Idle] /\ log = [n \in Node |-> {}]
        /\ session = [d \in Dials |-> NoSession] /\ made = 0 /\ cuts = 0
    BY DEF Init
  <1>2. Good(Founded) /\ Founded \in Seq(PolicyEvent)
    BY KeyRingOK, PrefixFacts DEF Good
  <1>3. HistoriesGood
    BY <1>1, <1>2 DEF HistoriesGood
  <1>4. RingsLocked
    BY <1>1 DEF RingsLocked, SE!IsInjective
  <1>5. Idle.step = "idle"
    BY DEF Idle
  <1>6. CommandsSound
    BY <1>1, <1>5 DEF CommandsSound, CommandIs
  <1>7. PendingDistinct
    BY <1>1, <1>5 DEF PendingDistinct, Pends
  <1>8. LogsTyped /\ CountsTyped
    BY <1>1, KeyRingOK DEF LogsTyped, CountsTyped
  <1>9. SessionsSound
    <2>1. NoSession.client = "idle" /\ NoSession.server = "idle"
      BY DEF NoSession
    <2> HIDE DEF NoSession
    <2>2. \A d \in Dials : session[d] = NoSession
      BY <1>1
    <2>3. session = [d \in Dials |-> session[d]]
      BY <1>1
    <2> QED
      BY <2>1, <2>2, <2>3, NothingSound DEF SessionsSound, SessionLocks
  <1> QED
    BY <1>3, <1>4, <1>6, <1>7, <1>8, <1>9 DEF IInv

LEMMA StepIInv ==
  ASSUME IInv, [Next]_vars
  PROVE  IInv' /\ Grows
  <1>1. CASE \E n \in Node : \E a \in Actions : StartChange(n, a)
    BY <1>1, StartChangeStep
  <1>2. CASE \E n \in Node : StartPost(n) \/ Command(n) \/ Kill(n)
    BY <1>2, StartPostStep, LoadToGenerateStep, GenerateStep, AppendPolicyStep,
       EncryptStep, AppendMessageStep, KillStep DEF Command
  <1>3. CASE \E d \in Dials : Connect(d) \/ ClientStep(d) \/ ServerStep(d) \/ Cut(d)
    <2> PICK d \in Dials : Connect(d) \/ ClientStep(d) \/ ServerStep(d) \/ Cut(d)
      BY <1>3
    <2>1. CASE Connect(d) \/ Cut(d)
      BY <2>1, ConnectStep, CutStep
    <2>2. CASE ClientStep(d)
      BY <2>2, ClientPolicyStep, ClientKeysStep, ClientAcceptStep, ClientReplyStep
         DEF ClientStep
    <2>3. CASE ServerStep(d)
      BY <2>3, ServerPolicyStep, ServerOfferStep, ServerKeysStep, ServerAcceptStep,
         DownloadStep, UploadStep, FailStep DEF ServerStep, Complete
    <2> QED
      BY <2>1, <2>2, <2>3
  <1>4. CASE UNCHANGED vars
    <2>1. /\ UNCHANGED <<history, keys, lock, seen, op, log, session, made, cuts>>
      BY <1>4 DEF vars
    <2>2. Known' = Known /\ PendingDistinct'
      BY <2>1, KnownStays
    <2>3. RingsLocked' /\ Grows
      BY <2>1, <2>2, RingsSame DEF rings
    <2>4. CommandsSound' /\ HistoriesGood' /\ LogsTyped' /\ CountsTyped'
      BY <2>1 DEF IInv, CommandsSound, HistoriesGood, LogsTyped, CountsTyped
    <2>5. SessionsSound'
      <3>1. \A n \in Node : Ring(n)' = Ring(n)
        BY <2>1 DEF Ring
      <3>2. \A d \in Dials : d[1] \in Node /\ d[2] \in Node
        BY HolderFacts
      <3> QED
        BY <2>1, <2>2, <3>1, <3>2 DEF IInv, SessionsSound, SessionLocks
    <2> QED
      BY <2>2, <2>3, <2>4, <2>5 DEF IInv
  <1> QED
    BY <1>1, <1>2, <1>3, <1>4 DEF Next

LEMMA Inductive == Spec => []IInv
  <1>1. IInv /\ [Next]_vars => IInv'
    BY StepIInv
  <1> QED
    BY <1>1, InitIInv, PTL DEF Spec

LEMMA IInvImplies == IInv => TypeOK /\ RingsExchanged
  <1> SUFFICES ASSUME IInv PROVE TypeOK /\ RingsExchanged
    OBVIOUS
  <1>1. ASSUME NEW n \in Node
        PROVE  /\ ValidHistory(history[n]) /\ Prefix(Founded, history[n])
               /\ keys[n] \in Seq(Key) /\ SE!IsInjective(keys[n])
               /\ lock[n] \in Process \cup {Nobody}
               /\ op[n].step \in {"idle", "generate", "push", "change", "encrypt", "append"}
               /\ log[n] \subseteq [author : Node, key : Key]
    <2>1. op[n].step \in {"idle", "generate", "push", "change", "encrypt", "append"}
      BY CommandOf DEF CommandIs, Idle
    <2>2. log[n] \subseteq [author : Node, key : Key]
      BY DEF IInv, LogsTyped, Messages
    <2> QED
      BY <2>1, <2>2 DEF IInv, HistoriesGood, Good, RingsLocked
  <1>2. ASSUME NEW d \in Dials
        PROVE  /\ session[d].client \in {"idle", "policy", "keys", "accept", "reply", "messages"}
               /\ session[d].server \in {"idle", "policy", "offer", "keys", "accept", "messages"}
    BY SessionOf DEF SessionSound, IsSession
  <1>3. TypeOK
    BY <1>1, <1>2 DEF IInv, RingsLocked, CountsTyped, TypeOK
  <1>4. RingsExchanged
    <2> SUFFICES ASSUME NEW d \in Dials, session[d].server = "messages",
                        session[d].policy.visibility = "private"
                 PROVE  session[d].had \subseteq Ring(d[1]) \cap Ring(d[2])
      BY DEF RingsExchanged
    <2>1. Exchanged(session[d], Ring(d[1]), Ring(d[2]))
      BY SessionOf DEF SessionSound
    <2> QED
      BY <2>1 DEF Exchanged, Private
  <1> QED
    BY <1>3, <1>4

(* Whatever the nodes, the operators' edits, the dials and the bounds:     *)
(* every policy history replays and extends the founding one, a keyring    *)
(* never holds a key twice, and the commands, the sessions and the logs    *)
(* are well formed.                                                        *)
THEOREM KeyRingTypes == Spec => []TypeOK
  BY Inductive, IInvImplies, PTL

(* A session that comes to compare the logs has given each end every key   *)
(* that either had at its beginning, whatever other sessions and commands  *)
(* did to the keyrings in between (accept_key_offers, make_key_offers).    *)
THEOREM RingsAreExchanged == Spec => []RingsExchanged
  BY Inductive, IInvImplies, PTL

(* No step of any process takes a key out of a keyring: who saves a        *)
(* keyring holds its lock, and has loaded what is in the file.             *)
THEOREM KeysStay == Spec => KeysKept
  <1>1. IInv /\ [Next]_vars => [\A n \in Node : Ring(n) \subseteq Ring(n)']_vars
    BY StepIInv DEF Grows
  <1> QED
    BY <1>1, Inductive, PTL DEF Spec, KeysKept

-----------------------------------------------------------------------------
(* The policy part of the sessions and SharedHistory: a frame under way    *)
(* holds what its sender still begins with, for no history is given up.    *)

FrameOf(n, h) == Prefix(h, history[n])

Passing(d) ==
    LET x == session[d] IN
      /\ x.server = "policy" => FrameOf(d[1], x.toServer[1].content)
      /\ x.client = "policy" /\ x.toClient # << >> => FrameOf(d[2], x.toClient[1].content)

FramesCurrent == \A d \in Dials : Passing(d)

Lengthens == \A n \in Node : Prefix(history[n], history'[n])

(* What a session still passes was under way before.                       *)
Carried(d) ==
    LET x == session[d]
        y == session'[d]
    IN  /\ y.server = "policy" => x.server = "policy" /\ y.toServer = x.toServer
        /\ y.client = "policy" /\ y.toClient # << >> =>
              x.client = "policy" /\ x.toClient # << >> /\ y.toClient[1] = x.toClient[1]

LEMMA PassedHistories ==
  ASSUME IInv, NEW d \in Dials
  PROVE  LET x == session[d] IN
         /\ x.server = "policy" => x.client = "policy" /\ Good(x.toServer[1].content)
         /\ x.client = "policy" /\ x.toClient # << >> =>
               /\ Good(x.toClient[1].content) /\ Head(x.toClient) = x.toClient[1]
               /\ x.server # "policy"
  <1>1. SessionSound(session[d], Known, Ring(d[1]), Ring(d[2]))
    BY SessionOf
  <1> QED
    BY <1>1 DEF SessionSound, AtPolicy, AtOffer, Offering, Replying, Replied, Exchanged, HasHistory

LEMMA FrameStays ==
  ASSUME IInv, IInv', Lengthens, NEW n \in Node, NEW h, Good(h), FrameOf(n, h)
  PROVE  FrameOf(n, h)'
  BY PrefixTransitive DEF IInv, HistoriesGood, Good, FrameOf, Lengthens

LEMMA PassingStays ==
  ASSUME IInv, IInv', Lengthens, NEW d \in Dials, Passing(d), Carried(d)
  PROVE  Passing(d)'
  <1> DEFINE x == session[d]
             y == session'[d]
  <1>1. d[1] \in Node /\ d[2] \in Node
    BY SessionOf
  <1>2. ASSUME y.server = "policy" PROVE FrameOf(d[1], session[d].toServer[1].content)'
    <2>1. PICK h : h = x.toServer[1].content
      OBVIOUS
    <2>2. /\ y.toServer[1].content = h /\ Good(h) /\ FrameOf(d[1], h)
      BY <1>2, <2>1, PassedHistories DEF Carried, Passing
    <2>3. FrameOf(d[1], h)'
      BY <1>1, <2>2, FrameStays
    <2> QED
      BY <2>2, <2>3
  <1>3. ASSUME y.client = "policy", y.toClient # << >>
        PROVE  FrameOf(d[2], session[d].toClient[1].content)'
    <2>1. PICK h : h = x.toClient[1].content
      OBVIOUS
    <2>2. /\ y.toClient[1].content = h /\ Good(h) /\ FrameOf(d[2], h)
      BY <1>3, <2>1, PassedHistories DEF Carried, Passing
    <2>3. FrameOf(d[2], h)'
      BY <1>1, <2>2, FrameStays
    <2> QED
      BY <2>2, <2>3
  <1> QED
    BY <1>2, <1>3 DEF Passing

LEMMA SameCarried ==
  ASSUME NEW d, session'[d] = session[d]
  PROVE  Carried(d)
  BY DEF Carried

LEMMA EndCarried ==
  ASSUME IInv, NEW d \in Dials, session' = [session EXCEPT ![d] = NoSession]
  PROVE  \A e \in Dials : Carried(e)
  <1>1. session'[d] = NoSession /\ \A e \in Dials : e # d => session'[e] = session[e]
    BY SessionTo
  <1>2. Carried(d)
    BY <1>1 DEF Carried, NoSession
  <1> QED
    BY <1>1, <1>2, SameCarried

(* An update that takes an end out of the policy part, or does not touch   *)
(* what that end waits for.                                                *)
LEMMA UpdateCarried ==
  ASSUME IInv, NEW d \in Dials, NEW fields, Update(d, fields),
         \/ {"server", "toServer"} \cap DOMAIN fields = {}
         \/ session'[d].server # "policy",
         \/ {"client", "toClient"} \cap DOMAIN fields = {}
         \/ session'[d].client # "policy"
  PROVE  \A e \in Dials : Carried(e)
  <1> DEFINE x == session[d]
             y == session'[d]
  <1>1. /\ y = [f \in Fields |-> IF f \in DOMAIN fields THEN fields[f] ELSE x[f]]
        /\ \A e \in Dials : e # d => session'[e] = session[e]
    BY UpdateTo
  <1>2. \A f \in Fields : f \notin DOMAIN fields => y[f] = x[f]
    BY <1>1
  <1>3. {"server", "toServer"} \cap DOMAIN fields = {} => y.server = x.server /\ y.toServer = x.toServer
    BY <1>2 DEF Fields
  <1>4. {"client", "toClient"} \cap DOMAIN fields = {} => y.client = x.client /\ y.toClient = x.toClient
    BY <1>2 DEF Fields
  <1> HIDE DEF x, y
  <1>5. Carried(d)
    BY <1>3, <1>4 DEF Carried, x, y
  <1> QED
    BY <1>1, <1>5, SameCarried

LEMMA FailCarried ==
  ASSUME IInv, NEW d \in Dials, Fail(d) \/ Cut(d)
  PROVE  history' = history /\ \A e \in Dials : Carried(e)
  BY EndCarried DEF Fail, Cut, EndSession

LEMMA ClientCarried ==
  ASSUME IInv, NEW d \in Dials, ClientKeys(d) \/ ClientAccept(d) \/ ClientReply(d)
  PROVE  history' = history /\ \A e \in Dials : Carried(e)
  <1> DEFINE x == session[d]
  <1>0. x.client # "policy" => x.server # "policy"
    BY PassedHistories
  <1>1. ASSUME NEW fields, Update(d, fields), "server" \notin DOMAIN fields,
               x.client # "policy",
               "client" \in DOMAIN fields, fields.client # "policy"
        PROVE  \A e \in Dials : Carried(e)
    <2>1. session'[d] = [f \in Fields |-> IF f \in DOMAIN fields THEN fields[f] ELSE x[f]]
      BY <1>1, UpdateTo
    <2>2. session'[d].server = x.server /\ session'[d].client # "policy"
      BY <1>1, <2>1 DEF Fields
    <2> QED
      BY <1>0, <1>1, <2>2, UpdateCarried
  <1>2. CASE ClientKeys(d) /\ ~Fail(d)
    <2> DEFINE f1 == [client |-> "accept"]
               f2 == [client |-> "messages", toClient |-> << >>,
                      toServer |-> <<Frame("keys", << >>)>>, had |-> {}]
    <2>1. /\ history' = history /\ x.client = "keys"
          /\ Update(d, f1) \/ Update(d, f2)
      BY <1>2 DEF ClientKeys
    <2>2. \A f \in {f1, f2} : /\ "server" \notin DOMAIN f /\ "client" \in DOMAIN f
                              /\ f.client # "policy"
      OBVIOUS
    <2> HIDE DEF f1, f2
    <2> QED
      BY <1>1, <2>1, <2>2
  <1>3. CASE ClientAccept(d)
    <2> DEFINE f1 == [client |-> "reply", toClient |-> << >>]
    <2>1. history' = history /\ x.client = "accept" /\ Update(d, f1)
      BY <1>3 DEF ClientAccept
    <2>2. "server" \notin DOMAIN f1 /\ "client" \in DOMAIN f1 /\ f1.client # "policy"
      OBVIOUS
    <2> HIDE DEF f1
    <2> QED
      BY <1>1, <2>1, <2>2
  <1>4. CASE ClientReply(d)
    <2> DEFINE f1 == [client |-> "messages", toServer |-> <<Frame("keys", Offers(d[1]))>>]
    <2>1. history' = history /\ x.client = "reply" /\ Update(d, f1)
      BY <1>4 DEF ClientReply
    <2>2. "server" \notin DOMAIN f1 /\ "client" \in DOMAIN f1 /\ f1.client # "policy"
      OBVIOUS
    <2> HIDE DEF f1
    <2> QED
      BY <1>1, <2>1, <2>2
  <1> QED
    BY <1>2, <1>3, <1>4, FailCarried

LEMMA ServerCarried ==
  ASSUME IInv, NEW d \in Dials,
         ServerKeys(d) \/ ServerAccept(d) \/ Download(d) \/ Upload(d) \/ Complete(d)
  PROVE  history' = history /\ \A e \in Dials : Carried(e)
  <1> DEFINE x == session[d]
  <1>1. ASSUME NEW fields, Update(d, fields), x.server # "policy",
               "client" \notin DOMAIN fields, "toClient" \notin DOMAIN fields,
               "server" \in DOMAIN fields => fields.server # "policy"
        PROVE  \A e \in Dials : Carried(e)
    <2>1. session'[d] = [f \in Fields |-> IF f \in DOMAIN fields THEN fields[f] ELSE x[f]]
      BY <1>1, UpdateTo
    <2>2. session'[d].server # "policy"
      BY <1>1, <2>1 DEF Fields
    <2> QED
      BY <1>1, <2>2, UpdateCarried
  <1>2. CASE ServerKeys(d) /\ ~Fail(d)
    <2> DEFINE f1 == [server |-> "accept"]
               f2 == Inventory(d)
    <2>1. /\ history' = history /\ x.server = "keys"
          /\ Update(d, f1) \/ Update(d, f2)
      BY <1>2 DEF ServerKeys
    <2>2. \A f \in {f1, f2} : /\ "client" \notin DOMAIN f /\ "toClient" \notin DOMAIN f
                              /\ f.server # "policy"
      BY DEF Inventory
    <2> HIDE DEF f1, f2
    <2> QED
      BY <1>1, <2>1, <2>2
  <1>3. CASE ServerAccept(d)
    <2> DEFINE f1 == Inventory(d)
    <2>1. history' = history /\ x.server = "accept" /\ Update(d, f1)
      BY <1>3 DEF ServerAccept
    <2>2. "client" \notin DOMAIN f1 /\ "toClient" \notin DOMAIN f1 /\ f1.server # "policy"
      BY DEF Inventory
    <2> HIDE DEF f1
    <2> QED
      BY <1>1, <2>1, <2>2
  <1>4. ASSUME NEW n, NEW m, NEW rest, Receive(d, n, m, rest), x.server = "messages",
               DOMAIN rest \subseteq {"download", "upload"}
        PROVE  history' = history /\ \A e \in Dials : Carried(e)
    <2>1. Fail(d) \/ (history' = history /\ Update(d, rest))
      BY <1>4 DEF Receive
    <2> QED
      BY <1>1, <1>4, <2>1, FailCarried
  <1>5. CASE Download(d)
    <2>1. PICK m \in x.download : Receive(d, d[1], m, [download |-> x.download \ {m}])
      BY <1>5 DEF Download
    <2>2. DOMAIN [download |-> x.download \ {m}] \subseteq {"download", "upload"}
      OBVIOUS
    <2>3. x.server = "messages"
      BY <1>5 DEF Download
    <2> QED
      BY <1>4, <2>1, <2>2, <2>3
  <1>6. CASE Upload(d)
    <2>1. PICK m \in x.upload : Receive(d, d[2], m, [upload |-> x.upload \ {m}])
      BY <1>6 DEF Upload
    <2>2. DOMAIN [upload |-> x.upload \ {m}] \subseteq {"download", "upload"}
      OBVIOUS
    <2>3. x.server = "messages"
      BY <1>6 DEF Upload
    <2> QED
      BY <1>4, <2>1, <2>2, <2>3
  <1> QED
    BY <1>2, <1>3, <1>5, <1>6, FailCarried DEF Complete

LEMMA OfferCarried ==
  ASSUME IInv, NEW d \in Dials, ServerOffer(d)
  PROVE  history' = history /\ \A e \in Dials : Carried(e)
  <1>1. CASE ~Fail(d)
    <2> DEFINE x == session[d]
               y == session'[d]
    <2>1. PICK offer, p : LET fields == [server |-> "keys", policy |-> p,
                                         toClient |-> Append(x.toClient, offer)]
                          IN  Update(d, fields) /\ history' = history
      BY <1>1 DEF ServerOffer
    <2> DEFINE fields == [server |-> "keys", policy |-> p,
                          toClient |-> Append(x.toClient, offer)]
    <2>2. /\ y = [f \in Fields |-> IF f \in DOMAIN fields THEN fields[f] ELSE x[f]]
          /\ \A e \in Dials : e # d => session'[e] = session[e]
      BY <2>1, UpdateTo
    <2>3. /\ y.server = "keys" /\ y.client = x.client
          /\ y.toClient = Append(x.toClient, offer)
      BY <2>2 DEF Fields
    <2>4. x.server = "offer" /\ AtOffer(x)
      BY <1>1, SessionOf DEF ServerOffer, SessionSound
    <2> HIDE DEF x, y, fields
    <2>5. ASSUME x.client = "policy" PROVE x.toClient # << >> /\ y.toClient[1] = x.toClient[1]
      <3>1. PICK a : x.toClient = <<a>> /\ x.toClient[1] = a
        BY <2>4, <2>5 DEF AtOffer
      <3>2. y.toClient = <<a, offer>>
        BY <2>3, <3>1, FrameSequences
      <3> QED
        BY <3>1, <3>2
    <2>6. Carried(d)
      BY <2>3, <2>4, <2>5 DEF Carried, x, y
    <2> QED
      BY <2>1, <2>2, <2>6, SameCarried
  <1> QED
    BY <1>1, FailCarried

(* A command that appends, as a history its node signs.                    *)
LEMMA AppendShared ==
  ASSUME IInv, NEW n \in Node, append_policy_action(n)
  PROVE  /\ Lengthens /\ session' = session
         /\ Shared!Sign(n) \/ history' = history
  <1> DEFINE e == Event(IdentityOf[n], op[n].action)
             g == history[n]
             h == Append(g, e)
  <1>1. /\ op[n].step = "change" /\ session' = session
        /\ history' = IF ValidHistory(h) THEN [history EXCEPT ![n] = h] ELSE history
    BY DEF append_policy_action
  <1>2. op[n].action \in PolicyAction
    BY <1>1, CommandOf DEF CommandIs, Idle
  <1>3. e \in PolicyEvent /\ e.actor = IdentityOf[n]
    BY <1>2, KeyRingOK DEF Event, PolicyEvent
  <1>4. g \in Seq(PolicyEvent) /\ \A m \in Node : history[m] \in Seq(PolicyEvent)
    BY DEF IInv, HistoriesGood
  <1>5. \A m \in Node : Prefix(history[m], history[m])
    BY <1>4, PrefixFacts
  <1> HIDE DEF e
  <1>6. Prefix(g, h) /\ Len(h) = Len(g) + 1 /\ h[Len(g) + 1] = e /\ Len(g) \in Nat
    <2>1. <<e>> \in Seq(PolicyEvent) /\ h = g \o <<e>>
      BY <1>3, <1>4
    <2>2. Prefix(g, g \o <<e>>)
      BY <1>4, <2>1, PrefixFacts
    <2> QED
      BY <1>3, <1>4, <2>1, <2>2
  <1> HIDE DEF h
  <1>7. CASE history' = [history EXCEPT ![n] = h] /\ ValidHistory(h)
    <2>1. history'[n] = h /\ \A m \in Node : m # n => history'[m] = history[m]
      BY <1>7 DEF IInv, HistoriesGood
    <2>2. Lengthens
      BY <1>5, <1>6, <2>1 DEF Lengthens
    <2>3. Shared!Extend(n)
      BY <1>6, <1>7, <2>1 DEF Shared!Extend, Shared!Prefix, Prefix
    <2>4. \A i \in (Len(g) + 1)..Len(h) : h[i].actor = IdentityOf[n]
      BY <1>3, <1>6
    <2> QED
      BY <1>1, <1>7, <2>1, <2>2, <2>3, <2>4 DEF Shared!Sign
  <1>8. CASE history' = history
    BY <1>1, <1>5, <1>8 DEF Lengthens
  <1> QED
    BY <1>1, <1>7, <1>8

(* A node that goes on by what another sent it.                            *)
LEMMA TakeShared ==
  ASSUME IInv, NEW n \in Node, NEW m \in Node, NEW h, Good(h), FrameOf(m, h),
         Prefix(history[n], h), history' = [history EXCEPT ![n] = h]
  PROVE  Lengthens /\ Shared!Take(n) /\ history'[n] = h
  <1>1. history'[n] = h /\ \A k \in Node : k # n => history'[k] = history[k]
    BY DEF IInv, HistoriesGood
  <1>2. \A k \in Node : Prefix(history[k], history[k])
    BY PrefixFacts DEF IInv, HistoriesGood
  <1>3. Lengthens
    BY <1>1, <1>2 DEF Lengthens
  <1>4. Shared!Extend(n)
    BY <1>1 DEF Shared!Extend, Shared!Prefix, Prefix
  <1>5. Shared!Held(h)
    BY DEF Shared!Held, Shared!Prefix, FrameOf, Prefix
  <1> QED
    BY <1>1, <1>3, <1>4, <1>5 DEF Shared!Take

Stays ==
    /\ Lengthens
    /\ [Shared!Next]_(Shared!vars)
    /\ IInv' => FramesCurrent'

LEMMA QuietStays ==
  ASSUME IInv, FramesCurrent, history' = history, \A d \in Dials : Carried(d)
  PROVE  Stays
  <1>1. Lengthens
    BY PrefixFacts DEF Lengthens, IInv, HistoriesGood
  <1>2. IInv' => FramesCurrent'
    BY <1>1, PassingStays DEF FramesCurrent
  <1>3. [Shared!Next]_(Shared!vars)
    BY DEF Shared!vars
  <1> QED
    BY <1>1, <1>2, <1>3 DEF Stays

LEMMA ConnectStays ==
  ASSUME IInv, FramesCurrent, NEW d \in Dials, Connect(d)
  PROVE  Stays
  <1> DEFINE h == history[d[1]]
             fields == [client |-> "policy", server |-> "policy",
                        toServer |-> <<Frame("status", h)>>,
                        had |-> Ring(d[1]) \cup Ring(d[2])]
  <1>1. session[d] = NoSession /\ Update(d, fields) /\ history' = history
    BY DEF Connect
  <1>2. /\ session'[d] = [f \in Fields |-> IF f \in DOMAIN fields THEN fields[f] ELSE session[d][f]]
        /\ \A e \in Dials : e # d => session'[e] = session[e]
    BY <1>1, UpdateTo
  <1>3. /\ session'[d].toClient = << >> /\ session'[d].toServer = <<Frame("status", h)>>
    BY <1>1, <1>2 DEF Fields, NoSession
  <1>4. Prefix(h, h) /\ session'[d].toServer[1].content = h
    <2>1. Prefix(h, h)
      BY SessionOf, PrefixFacts DEF IInv, HistoriesGood
    <2>2. session'[d].toServer[1].content = h
      BY <1>3 DEF Frame
    <2> QED
      BY <2>1, <2>2
  <1>5. Passing(d)'
    BY <1>1, <1>3, <1>4 DEF Passing, FrameOf
  <1>6. Lengthens
    BY <1>1, PrefixFacts DEF Lengthens, IInv, HistoriesGood
  <1>7. IInv' => FramesCurrent'
    BY <1>2, <1>5, <1>6, SameCarried, PassingStays DEF FramesCurrent
  <1>8. [Shared!Next]_(Shared!vars)
    BY <1>1 DEF Shared!vars
  <1> QED
    BY <1>6, <1>7, <1>8 DEF Stays

LEMMA ServerPolicyStays ==
  ASSUME IInv, FramesCurrent, NEW d \in Dials, ServerPolicy(d)
  PROVE  Stays
  <1> DEFINE s == d[2]
             x == session[d]
             remote == x.toServer[1].content
             merged == IF Prefix(history[s], remote) THEN remote ELSE history[s]
             fields == [server |-> "offer", toServer |-> << >>,
                        toClient |-> <<Frame("update", merged)>>]
  <1>1. x.server = "policy" /\ d[1] \in Node /\ s \in Node
    BY SessionOf DEF ServerPolicy
  <1>2. /\ Good(remote) /\ FrameOf(d[1], remote)
        /\ Good(history[s]) /\ FrameOf(s, history[s])
    BY <1>1, PassedHistories, PrefixFacts DEF FramesCurrent, Passing, FrameOf, IInv, HistoriesGood
  <1>3. PICK h : h = merged
    OBVIOUS
  <1>4. CASE /\ history' = [history EXCEPT ![s] = h]
             /\ \/ Update(d, fields)
                \/ session' = [session EXCEPT ![d] = NoSession]
    <2>1. PICK m \in {d[1], s} : FrameOf(m, h) /\ m \in Node
      BY <1>1, <1>2, <1>3
    <2>2. Prefix(history[s], h) /\ Good(h)
      BY <1>2, <1>3 DEF FrameOf
    <2>3. Lengthens /\ Shared!Take(s) /\ history'[s] = h
      BY <1>1, <1>4, <2>1, <2>2, TakeShared
    <2>4. ASSUME IInv' PROVE FramesCurrent'
      <3>1. CASE Update(d, fields)
        <4>1. /\ session'[d] = [f \in Fields |-> IF f \in DOMAIN fields THEN fields[f] ELSE x[f]]
              /\ \A e \in Dials : e # d => session'[e] = session[e]
          BY <3>1, UpdateTo
        <4>2. session'[d].server = "offer" /\ session'[d].toClient = <<Frame("update", h)>>
          BY <1>3, <4>1 DEF Fields
        <4>3. session'[d].toClient[1].content = h
          BY <4>2 DEF Frame
        <4>4. Prefix(h, h)
          BY <2>2, PrefixFacts DEF Good
        <4>5. Passing(d)'
          BY <2>3, <4>2, <4>3, <4>4 DEF Passing, FrameOf
        <4> QED
          BY <2>3, <2>4, <4>1, <4>5, SameCarried, PassingStays DEF FramesCurrent
      <3>2. CASE session' = [session EXCEPT ![d] = NoSession]
        BY <2>3, <2>4, <3>2, EndCarried, PassingStays DEF FramesCurrent
      <3> QED
        BY <1>4, <3>1, <3>2
    <2> QED
      BY <1>1, <2>3, <2>4 DEF Stays, Shared!Next
  <1>5. Fail(d) \/ (/\ history' = [history EXCEPT ![s] = h]
                    /\ \/ Update(d, fields)
                       \/ session' = [session EXCEPT ![d] = NoSession])
    BY <1>3 DEF ServerPolicy
  <1> HIDE DEF fields
  <1> QED
    BY <1>4, <1>5, FailCarried, QuietStays

LEMMA ClientPolicyStays ==
  ASSUME IInv, FramesCurrent, NEW d \in Dials, ClientPolicy(d)
  PROVE  Stays
  <1> DEFINE c == d[1]
             x == session[d]
             fields == [client |-> "keys", toClient |-> Tail(x.toClient)]
  <1>1. /\ x.client = "policy" /\ x.toClient # << >> /\ c \in Node /\ d[2] \in Node
        /\ Head(x.toClient) = x.toClient[1]
    BY SessionOf, PassedHistories DEF ClientPolicy
  <1>2. PICK h : h = Head(x.toClient).content
    OBVIOUS
  <1>3. Good(h) /\ FrameOf(d[2], h) /\ x.server # "policy"
    BY <1>1, <1>2, PassedHistories DEF FramesCurrent, Passing
  <1>4. CASE /\ Prefix(history[c], h) /\ history' = [history EXCEPT ![c] = h]
             /\ Update(d, fields)
    <2>1. Lengthens /\ Shared!Take(c)
      BY <1>1, <1>3, <1>4, TakeShared
    <2>2. session'[d] = [f \in Fields |-> IF f \in DOMAIN fields THEN fields[f] ELSE x[f]]
      BY <1>4, UpdateTo
    <2>3. session'[d].client = "keys" /\ session'[d].server # "policy"
      BY <1>3, <2>2 DEF Fields
    <2>4. \A e \in Dials : Carried(e)
      BY <1>4, <2>3, UpdateCarried
    <2>5. IInv' => FramesCurrent'
      BY <2>1, <2>4, PassingStays DEF FramesCurrent
    <2> QED
      BY <1>1, <2>1, <2>5 DEF Stays, Shared!Next
  <1>5. Fail(d) \/ (/\ Prefix(history[c], h) /\ history' = [history EXCEPT ![c] = h]
                    /\ Update(d, fields))
    BY <1>2 DEF ClientPolicy
  <1> HIDE DEF fields
  <1> QED
    BY <1>4, <1>5, FailCarried, QuietStays

LEMMA StaysStep ==
  ASSUME IInv, FramesCurrent, [Next]_vars
  PROVE  Stays
  <1>1. CASE UNCHANGED <<history, session>>
    <2>1. \A d \in Dials : Carried(d)
      BY <1>1, SameCarried
    <2> QED
      BY <1>1, <2>1, QuietStays
  <1>2. CASE \E n \in Node : append_policy_action(n)
    <2>1. PICK n \in Node : append_policy_action(n)
      BY <1>2
    <2>2. Lengthens /\ session' = session /\ (Shared!Sign(n) \/ history' = history)
      BY <2>1, AppendShared
    <2>3. [Shared!Next]_(Shared!vars)
      BY <2>2 DEF Shared!Next, Shared!vars
    <2>4. IInv' => FramesCurrent'
      BY <2>2, SameCarried, PassingStays DEF FramesCurrent
    <2> QED
      BY <2>2, <2>3, <2>4 DEF Stays
  <1>3. CASE \E d \in Dials : Connect(d) \/ ClientStep(d) \/ ServerStep(d) \/ Cut(d)
    <2> PICK d \in Dials : Connect(d) \/ ClientStep(d) \/ ServerStep(d) \/ Cut(d)
      BY <1>3
    <2>1. CASE ClientStep(d)
      BY <2>1, ClientPolicyStays, ClientCarried, QuietStays DEF ClientStep
    <2>2. CASE ServerStep(d)
      BY <2>2, ServerPolicyStays, OfferCarried, ServerCarried, QuietStays DEF ServerStep
    <2> QED
      BY <2>1, <2>2, ConnectStays, FailCarried, QuietStays
  <1>4. ASSUME NEW n \in Node, NEW a \in Actions, StartChange(n, a)
        PROVE  UNCHANGED <<history, session>>
    BY <1>4 DEF StartChange
  <1>5. ASSUME NEW n \in Node,
               StartPost(n) \/ (Command(n) /\ ~append_policy_action(n)) \/ Kill(n)
        PROVE  UNCHANGED <<history, session>>
    BY <1>5 DEF StartPost, Kill, Command, LoadToGenerate, generate_channel_key,
       encrypt_message, append_message
  <1>6. UNCHANGED vars => UNCHANGED <<history, session>>
    BY DEF vars
  <1>7. (\E n \in Node : StartPost(n) \/ Command(n) \/ Kill(n)) =>
           \/ \E n \in Node : append_policy_action(n)
           \/ UNCHANGED <<history, session>>
    BY <1>5
  <1>8. (\E n \in Node : \E a \in Actions : StartChange(n, a)) => UNCHANGED <<history, session>>
    BY <1>4
  <1> QED
    BY <1>1, <1>2, <1>3, <1>6, <1>7, <1>8 DEF Next

(* With keys, messages and other sessions in between, and with sessions    *)
(* and commands cut off anywhere: a history comes to a node from one whose *)
(* history still begins with it, whatever that one has appended since the  *)
(* frame went out, and else grows only by events its node signs.           *)
THEOREM KeysOverSharedHistory == Spec => SharedSpec
  <1>1. Init => Shared!Init
    BY DEF Init, Shared!Init
  <1>2. Init => FramesCurrent
    <2>1. Init => \A d \in Dials : session[d] = NoSession
      BY DEF Init
    <2>2. NoSession.client = "idle" /\ NoSession.server = "idle"
      BY DEF NoSession
    <2> QED
      BY <2>1, <2>2 DEF FramesCurrent, Passing
  <1>3. IInv /\ FramesCurrent /\ IInv' /\ [Next]_vars =>
           FramesCurrent' /\ [Shared!Next]_(Shared!vars)
    BY StaysStep DEF Stays
  <1> QED
    BY <1>1, <1>2, <1>3, Inductive, PTL DEF Spec, SharedSpec, Shared!Spec
==============================================================================
