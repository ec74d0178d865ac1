-------------------------- MODULE SyncSessionProofs --------------------------
(***************************************************************************)
(* TLAPS proofs about the exchange of messages, for any nodes, messages,   *)
(* buckets, sessions, posts and capacity of the connections, with lost     *)
(* connections and changes of policy in between.                           *)
(***************************************************************************)
EXTENDS SyncSession, FiniteSetTheorems, TLAPS

-----------------------------------------------------------------------------
(* The inductive invariant.                                                *)

(* The frames in a queue.                                                  *)
Wire(q) == {q[i] : i \in 1..Len(q)}

WireFrame ==
    {f \in [kind : {"status", "policy_sync", "moderation_sync", "key_sync", "chunk_diff",
                    "chunk_ids", "want", "envelope", "complete"},
            body : SUBSET (Bucket \cup Message)] :
       f.kind \in {"status", "chunk_ids", "want", "envelope"} => f.body \subseteq Message}

Answer == {f \in WireFrame : f.kind \in {"key_sync", "chunk_ids", "envelope"}}

ClientState == [pc : {"idle", "read", "done"}, out : SUBSET Answer, had : SUBSET Message]

Handshake == {"policy_sync", "moderation_sync", "key_sync", "keys"}

ServerState ==
    [pc : Handshake \cup {"idle", "status", "chunk_diff", "batch", "want", "stream"},
     out : SUBSET {f \in WireFrame : f.kind = "envelope"},
     summary : SUBSET Message, differing : SUBSET Bucket,
     ids : SUBSET Message, wanted : SUBSET Message]

TypeInv ==
    /\ log \in [Node -> SUBSET Message]
    /\ refused \in [Node -> {{}, Revocable}]
    /\ client \in [Session -> ClientState]
    /\ server \in [Session -> ServerState]
    /\ toServer \in [Session -> Seq(WireFrame)]
    /\ toClient \in [Session -> Seq(WireFrame)]
    /\ \A s \in Session : Len(toServer[s]) <= BufferCap /\ Len(toClient[s]) <= BufferCap
    /\ failures \in 0..MaxFailures

(* The answers to chunk_diff that the client has ready or under way.       *)
Answers(s) == {f \in client[s].out \cup Wire(toServer[s]) : f.kind = "chunk_ids"}

Asked(s) == {f \in Wire(toClient[s]) : f.kind = "chunk_diff"}

(* An answer belongs to the question of this session, never to an earlier  *)
(* one.                                                                    *)
DiffInv(s) ==
    /\ server[s].pc \in Handshake \cup {"status", "chunk_diff"} =>
          Answers(s) = {} /\ Asked(s) = {} /\ server[s].wanted = {}
    /\ server[s].pc = "batch" =>
          /\ \A f \in Asked(s) : f.body = server[s].differing
          /\ \A f \in Answers(s) : \A m \in f.body : BucketOf[m] \in server[s].differing
    /\ \A m \in server[s].wanted : BucketOf[m] \in server[s].differing

(* Nothing follows complete.                                               *)
CompleteLast(q) == \A i \in 1..Len(q) : q[i].kind = "complete" => i = Len(q)

(* The messages whose envelopes are among the frames F.                    *)
Enveloped(F) == {m \in Message : Frame("envelope", {m}) \in F}

(* Where what either node held when the session began is by now, at each   *)
(* step of the server while the client reads.                              *)
WhereInv(s) ==
    LET c == log[ClientOf[s]]
        v == log[ServerOf[s]]
        had == client[s].had
        z == server[s]
    IN  /\ had \subseteq c \cup v
        /\ z.pc = "status" =>
             \A f \in Wire(toServer[s]) : f.kind = "status" =>
                f.body \subseteq c /\ had \subseteq f.body \cup v
        /\ z.pc \in Handshake => z.summary \subseteq c /\ had \subseteq z.summary \cup v
        /\ z.pc \in {"chunk_diff", "batch"} =>
             \A m \in had : BucketOf[m] \notin z.differing => m \in c \cap v
        /\ z.pc = "batch" =>
             /\ z.ids \subseteq v
             /\ \A m \in had : BucketOf[m] \in z.differing => m \in z.ids \cup c
             /\ \A f \in Answers(s) :
                  /\ f.body \subseteq c
                  /\ \A m \in had : BucketOf[m] \in z.differing => m \in z.ids \cup f.body
        /\ z.pc \in {"want", "stream"} =>
             /\ had \subseteq v \cup z.wanted
             /\ had \subseteq c \cup Enveloped(z.out \cup Wire(toClient[s]))
        /\ CompleteLast(toClient[s])
        /\ (\E f \in Wire(toClient[s]) : f.kind = "complete") =>
             /\ z.pc = "idle"
             /\ had \subseteq v
             /\ had \subseteq c \cup Enveloped(Wire(toClient[s]))

SessionInv(s) ==
    /\ DiffInv(s)
    /\ client[s].pc = "read" => WhereInv(s)
    /\ client[s].pc = "done" => client[s].had \subseteq log[ClientOf[s]] \cap log[ServerOf[s]]

IInv == TypeInv /\ \A s \in Session : SessionInv(s)

-----------------------------------------------------------------------------
(* Queues.                                                                 *)

LEMMA WireAppend ==
  ASSUME NEW q \in Seq(WireFrame), NEW f \in WireFrame
  PROVE  /\ Append(q, f) \in Seq(WireFrame)
         /\ Len(Append(q, f)) = Len(q) + 1
         /\ Wire(Append(q, f)) = Wire(q) \cup {f}
<1>1. /\ Append(q, f) \in Seq(WireFrame)
      /\ Len(Append(q, f)) = Len(q) + 1
      /\ \A i \in 1..Len(q) : Append(q, f)[i] = q[i]
      /\ Append(q, f)[Len(q) + 1] = f
  OBVIOUS
<1>2. 1..Len(Append(q, f)) = 1..Len(q) \cup {Len(q) + 1}
  BY <1>1
<1> QED
  BY <1>1, <1>2 DEF Wire

LEMMA WireTail ==
  ASSUME NEW q \in Seq(WireFrame), q # << >>
  PROVE  /\ Head(q) \in Wire(q) /\ Head(q) \in WireFrame
         /\ Tail(q) \in Seq(WireFrame)
         /\ Len(Tail(q)) <= Len(q)
         /\ Wire(q) = {Head(q)} \cup Wire(Tail(q))
<1>1. /\ Len(q) \in Nat /\ Len(q) >= 1 /\ Head(q) = q[1]
      /\ Tail(q) \in Seq(WireFrame) /\ Len(Tail(q)) = Len(q) - 1
      /\ \A i \in 1..Len(Tail(q)) : Tail(q)[i] = q[i + 1]
  OBVIOUS
<1>2. Wire(q) \subseteq {Head(q)} \cup Wire(Tail(q))
  <2>1. ASSUME NEW i \in 1..Len(q), i # 1
        PROVE  i - 1 \in 1..Len(Tail(q)) /\ Tail(q)[i - 1] = q[i]
    BY <1>1, <2>1
  <2> QED
    BY <1>1, <2>1 DEF Wire
<1>3. Wire(Tail(q)) \subseteq Wire(q)
  <2>1. ASSUME NEW i \in 1..Len(Tail(q))
        PROVE  i + 1 \in 1..Len(q) /\ Tail(q)[i] = q[i + 1]
    BY <1>1
  <2> QED
    BY <2>1 DEF Wire
<1>4. Head(q) \in Wire(q) /\ Head(q) \in WireFrame
  BY <1>1 DEF Wire
<1> QED
  BY <1>1, <1>2, <1>3, <1>4

LEMMA WireOne ==
  ASSUME NEW f \in WireFrame
  PROVE  /\ <<f>> \in Seq(WireFrame) /\ Len(<<f>>) = 1 /\ Wire(<<f>>) = {f}
         /\ << >> \in Seq(WireFrame) /\ Len(<< >>) = 0 /\ Wire(<< >>) = {}
         /\ CompleteLast(<< >>)
  BY DEF Wire, CompleteLast

LEMMA WireType ==
  ASSUME NEW q \in Seq(WireFrame)
  PROVE  Wire(q) \subseteq WireFrame
  BY DEF Wire

LEMMA CompleteLastTail ==
  ASSUME NEW q \in Seq(WireFrame), q # << >>, CompleteLast(q)
  PROVE  /\ CompleteLast(Tail(q))
         /\ Head(q).kind = "complete" => Wire(Tail(q)) = {}
<1> DEFINE t == Tail(q)
           n == Len(q)
<1>1. /\ n \in Nat /\ n >= 1 /\ Head(q) = q[1] /\ Len(t) = n - 1
      /\ \A i \in 1..(n - 1) : t[i] = q[i + 1]
  OBVIOUS
<1>2. \A i \in 1..n : q[i].kind = "complete" => i = n
  BY DEF CompleteLast
<1> HIDE DEF t, n
<1>3. ASSUME NEW i \in 1..(n - 1), t[i].kind = "complete"
      PROVE  i = n - 1
  <2>1. i + 1 \in 1..n /\ q[i + 1].kind = "complete"
    BY <1>1, <1>3
  <2>2. i + 1 = n
    BY <1>2, <2>1
  <2> QED
    BY <1>1, <2>2
<1>4. ASSUME Head(q).kind = "complete" PROVE Wire(t) = {}
  <2>1. 1 \in 1..n /\ q[1].kind = "complete"
    BY <1>1, <1>4
  <2>2. 1..(n - 1) = {}
    BY <1>1, <1>2, <2>1
  <2> QED
    BY <1>1, <2>2 DEF Wire
<1>5. CompleteLast(t)
  BY <1>1, <1>3 DEF CompleteLast
<1> QED
  BY <1>4, <1>5 DEF t

LEMMA CompleteLastAppend ==
  ASSUME NEW q \in Seq(WireFrame), NEW f \in WireFrame,
         \A g \in Wire(q) : g.kind # "complete"
  PROVE  CompleteLast(Append(q, f))
<1>1. /\ Len(Append(q, f)) = Len(q) + 1 /\ Len(q) \in Nat
      /\ \A i \in 1..Len(q) : Append(q, f)[i] = q[i]
  OBVIOUS
<1>2. \A i \in 1..Len(q) : q[i].kind # "complete"
  BY DEF Wire
<1>3. ASSUME NEW i \in 1..Len(Append(q, f)), Append(q, f)[i].kind = "complete"
      PROVE  i = Len(Append(q, f))
  <2>1. i \notin 1..Len(q)
    BY <1>1, <1>2, <1>3
  <2> QED
    BY <1>1, <2>1
<1> QED
  BY <1>3 DEF CompleteLast

(* Frames.                                                                 *)
LEMMA FrameFacts ==
  /\ \A k, b : Frame(k, b).kind = k /\ Frame(k, b).body = b
  /\ \A k \in {"policy_sync", "moderation_sync", "key_sync", "complete"} :
        Frame(k, {}) \in WireFrame
  /\ \A b \in SUBSET Message :
        \A k \in {"status", "chunk_ids", "want", "envelope"} : Frame(k, b) \in WireFrame
  /\ \A b \in SUBSET Bucket : Frame("chunk_diff", b) \in WireFrame
  BY DEF Frame, WireFrame

LEMMA EnvelopeFacts ==
  ASSUME NEW ids \in SUBSET Message
  PROVE  /\ Envelopes(ids) \subseteq WireFrame
         /\ \A f \in Envelopes(ids) : f.kind = "envelope"
         /\ ids \subseteq Enveloped(Envelopes(ids))
<1>1. \A m \in ids : Frame("envelope", {m}) \in WireFrame
                     /\ Frame("envelope", {m}).kind = "envelope"
  BY FrameFacts
<1> QED
  BY <1>1 DEF Envelopes, Enveloped

(* A frame leaves a set of frames: at most its own envelope goes.          *)
LEMMA EnvelopedLess ==
  ASSUME NEW F, NEW G, NEW f \in WireFrame, F \subseteq G \cup {f}
  PROVE  \A m \in Enveloped(F) :
            m \in Enveloped(G) \/ (f.kind = "envelope" /\ f.body = {m})
<1>0. \A e \in F : e \in G \/ e = f
  OBVIOUS
<1>1. ASSUME NEW m \in Message, Frame("envelope", {m}) \in F
      PROVE  Frame("envelope", {m}) \in G \/ (f.kind = "envelope" /\ f.body = {m})
  <2> DEFINE e == Frame("envelope", {m})
  <2>1. e.kind = "envelope" /\ e.body = {m}
    BY FrameFacts
  <2>2. e \in F
    BY <1>1
  <2> HIDE DEF e
  <2>3. CASE e = f
    BY <2>1, <2>3
  <2>4. CASE e \in G
    BY <2>4 DEF e
  <2> QED
    BY <1>0, <2>2, <2>3, <2>4 DEF e
<1> QED
  BY <1>1 DEF Enveloped

LEMMA EnvelopedMore ==
  ASSUME NEW F, NEW G, F \subseteq G
  PROVE  Enveloped(F) \subseteq Enveloped(G)
  BY DEF Enveloped

-----------------------------------------------------------------------------
(* One step concerns one session, and logs grow.                           *)

Only(s) ==
    \A t \in Session \ {s} :
       /\ client'[t] = client[t]
       /\ server'[t] = server[t]
       /\ toServer'[t] = toServer[t]
       /\ toClient'[t] = toClient[t]

Grows == \A n \in Node : log[n] \subseteq log'[n]

(* What a session has established outlives the growth of the logs.         *)
LEMMA SessionInvStable ==
  ASSUME IInv, NEW t \in Session, Grows,
         client'[t] = client[t], server'[t] = server[t],
         toServer'[t] = toServer[t], toClient'[t] = toClient[t]
  PROVE  SessionInv(t)'
<1>1. /\ log[ClientOf[t]] \subseteq log'[ClientOf[t]]
      /\ log[ServerOf[t]] \subseteq log'[ServerOf[t]]
  BY SyncConstantsOK DEF Grows
<1>2. Answers(t)' = Answers(t) /\ Asked(t)' = Asked(t)
  BY DEF Answers, Asked
<1>3. DiffInv(t)'
  BY <1>2 DEF IInv, SessionInv, DiffInv
<1>4. client[t].pc = "read" => WhereInv(t)'
  <2> SUFFICES ASSUME client[t].pc = "read" PROVE WhereInv(t)'
    OBVIOUS
  <2>1. WhereInv(t)
    BY DEF IInv, SessionInv
  <2> QED
    BY <1>1, <1>2, <2>1 DEF WhereInv
<1> QED
  BY <1>1, <1>3, <1>4 DEF IInv, SessionInv

LEMMA OneSession ==
  ASSUME IInv, NEW s \in Session, TypeInv', Grows, Only(s), SessionInv(s)'
  PROVE  IInv'
<1>1. ASSUME NEW t \in Session \ {s} PROVE SessionInv(t)'
  BY SessionInvStable DEF Only
<1> QED
  BY <1>1 DEF IInv

LEMMA Appended ==
  ASSUME TypeInv, NEW n \in Node, NEW m \in Message, append_message(n, m)
  PROVE  /\ log' \in [Node -> SUBSET Message] /\ Grows
         /\ log'[n] = log[n] \cup {m}
  BY DEF append_message, TypeInv, Grows

(* A frame is taken off the queue, or put on it.                           *)
LEMMA ClientTook ==
  ASSUME IInv, NEW s \in Session, NEW kind, ClientTakes(s, kind)
  PROVE  LET f == Head(toClient[s])
         IN  /\ client[s].pc = "read" /\ client[s].out = {}
             /\ f \in WireFrame /\ f \in Wire(toClient[s]) /\ f.kind = kind
             /\ toClient' \in [Session -> Seq(WireFrame)]
             /\ \A t \in Session : Len(toClient'[t]) <= BufferCap
             /\ \A t \in Session \ {s} : toClient'[t] = toClient[t]
             /\ Wire(toClient[s]) = {f} \cup Wire(toClient'[s])
             /\ CompleteLast(toClient[s]) =>
                  CompleteLast(toClient'[s]) /\ (kind = "complete" => Wire(toClient'[s]) = {})
             /\ refused' = refused /\ server' = server
             /\ toServer' = toServer /\ failures' = failures
<1>1. toClient[s] \in Seq(WireFrame) /\ toClient[s] # << >> /\ Head(toClient[s]).kind = kind
  BY DEF IInv, TypeInv, ClientTakes
<1>2. /\ toClient' = [toClient EXCEPT ![s] = Tail(toClient[s])]
      /\ toClient \in [Session -> Seq(WireFrame)]
      /\ \A t \in Session : Len(toClient[t]) <= BufferCap
      /\ BufferCap \in Nat
  BY SyncConstantsOK DEF IInv, TypeInv, ClientTakes
<1>3. /\ Tail(toClient[s]) \in Seq(WireFrame)
      /\ Len(Tail(toClient[s])) <= Len(toClient[s])
      /\ Head(toClient[s]) \in Wire(toClient[s]) /\ Head(toClient[s]) \in WireFrame
      /\ Wire(toClient[s]) = {Head(toClient[s])} \cup Wire(Tail(toClient[s]))
  BY <1>1, WireTail
<1>4. toClient'[s] = Tail(toClient[s]) /\ \A t \in Session \ {s} : toClient'[t] = toClient[t]
  BY <1>2
<1>5. \A t \in Session : Len(toClient'[t]) <= BufferCap
  <2>1. Len(toClient[s]) \in Nat /\ Len(Tail(toClient[s])) \in Nat
    BY <1>1, <1>3
  <2> QED
    BY <1>2, <1>3, <1>4, <2>1
<1>6. toClient' \in [Session -> Seq(WireFrame)]
  BY <1>2, <1>3
<1>7. CompleteLast(toClient[s]) =>
        CompleteLast(toClient'[s]) /\ (kind = "complete" => Wire(toClient'[s]) = {})
  BY <1>1, <1>4, CompleteLastTail
<1> QED
  BY <1>1, <1>3, <1>4, <1>5, <1>6, <1>7 DEF ClientTakes

LEMMA ServerTook ==
  ASSUME IInv, NEW s \in Session, NEW pc, NEW kind, ServerTakes(s, pc, kind)
  PROVE  LET f == Head(toServer[s])
         IN  /\ server[s].pc = pc
             /\ f \in WireFrame /\ f \in Wire(toServer[s]) /\ f.kind = kind
             /\ toServer' \in [Session -> Seq(WireFrame)]
             /\ \A t \in Session : Len(toServer'[t]) <= BufferCap
             /\ \A t \in Session \ {s} : toServer'[t] = toServer[t]
             /\ Wire(toServer[s]) = {f} \cup Wire(toServer'[s])
             /\ refused' = refused /\ client' = client
             /\ toClient' = toClient /\ failures' = failures
<1>1. toServer[s] \in Seq(WireFrame) /\ toServer[s] # << >> /\ Head(toServer[s]).kind = kind
  BY DEF IInv, TypeInv, ServerTakes
<1>2. /\ toServer' = [toServer EXCEPT ![s] = Tail(toServer[s])]
      /\ toServer \in [Session -> Seq(WireFrame)]
      /\ \A t \in Session : Len(toServer[t]) <= BufferCap
      /\ BufferCap \in Nat
  BY SyncConstantsOK DEF IInv, TypeInv, ServerTakes
<1>3. /\ Tail(toServer[s]) \in Seq(WireFrame)
      /\ Len(Tail(toServer[s])) <= Len(toServer[s])
      /\ Head(toServer[s]) \in Wire(toServer[s]) /\ Head(toServer[s]) \in WireFrame
      /\ Wire(toServer[s]) = {Head(toServer[s])} \cup Wire(Tail(toServer[s]))
  BY <1>1, WireTail
<1>4. toServer'[s] = Tail(toServer[s]) /\ \A t \in Session \ {s} : toServer'[t] = toServer[t]
  BY <1>2
<1>5. \A t \in Session : Len(toServer'[t]) <= BufferCap
  <2>1. Len(toServer[s]) \in Nat /\ Len(Tail(toServer[s])) \in Nat
    BY <1>1, <1>3
  <2> QED
    BY <1>2, <1>3, <1>4, <2>1
<1>6. toServer' \in [Session -> Seq(WireFrame)]
  BY <1>2, <1>3
<1> QED
  BY <1>1, <1>3, <1>4, <1>5, <1>6 DEF ServerTakes

LEMMA ServerSent ==
  ASSUME IInv, NEW s \in Session, NEW pc, NEW f \in WireFrame, ServerSends(s, pc, f)
  PROVE  /\ server[s].pc = pc
         /\ toClient' \in [Session -> Seq(WireFrame)]
         /\ \A t \in Session : Len(toClient'[t]) <= BufferCap
         /\ \A t \in Session \ {s} : toClient'[t] = toClient[t]
         /\ Wire(toClient'[s]) = Wire(toClient[s]) \cup {f}
         /\ (\A g \in Wire(toClient[s]) : g.kind # "complete") => CompleteLast(toClient'[s])
         /\ log' = log /\ refused' = refused /\ client' = client
         /\ toServer' = toServer /\ failures' = failures
<1>1. /\ toClient' = [toClient EXCEPT ![s] = Append(toClient[s], f)]
      /\ toClient \in [Session -> Seq(WireFrame)]
      /\ \A t \in Session : Len(toClient[t]) <= BufferCap
      /\ Len(toClient[s]) < BufferCap
      /\ BufferCap \in Nat
  BY SyncConstantsOK DEF IInv, TypeInv, ServerSends
<1>2. toClient[s] \in Seq(WireFrame) /\ Len(toClient[s]) \in Nat
  BY <1>1
<1>3. /\ Append(toClient[s], f) \in Seq(WireFrame)
      /\ Len(Append(toClient[s], f)) = Len(toClient[s]) + 1
      /\ Wire(Append(toClient[s], f)) = Wire(toClient[s]) \cup {f}
  BY <1>2, WireAppend
<1>4. toClient'[s] = Append(toClient[s], f)
      /\ \A t \in Session \ {s} : toClient'[t] = toClient[t]
  BY <1>1
<1>5. \A t \in Session : Len(toClient'[t]) <= BufferCap
  BY <1>1, <1>2, <1>3, <1>4
<1>6. toClient' \in [Session -> Seq(WireFrame)]
  BY <1>1, <1>3
<1>7. (\A g \in Wire(toClient[s]) : g.kind # "complete") => CompleteLast(toClient'[s])
  BY <1>2, <1>4, CompleteLastAppend
<1> QED
  BY <1>3, <1>4, <1>5, <1>6, <1>7 DEF ServerSends

-----------------------------------------------------------------------------
(* The client takes a frame other than complete, and goes on as x.         *)
LEMMA ClientReads ==
  ASSUME IInv, NEW s \in Session, NEW kind, kind # "complete", ClientTakes(s, kind),
         log' \in [Node -> SUBSET Message], Grows,
         NEW x \in ClientState, client' = [client EXCEPT ![s] = x],
         x.pc = "read", x.had = client[s].had,
         kind = "envelope" => \A m \in Message :
                                Head(toClient[s]).body = {m} => m \in log'[ClientOf[s]],
         \A f \in x.out : f.kind = "chunk_ids" =>
            /\ server[s].pc \notin Handshake \cup {"status", "chunk_diff"}
            /\ server[s].pc = "batch" =>
                 /\ f.body \subseteq log'[ClientOf[s]]
                 /\ \A m \in f.body : BucketOf[m] \in server[s].differing
                 /\ \A m \in client[s].had :
                       BucketOf[m] \in server[s].differing => m \in server[s].ids \cup f.body
  PROVE  IInv'
<1> DEFINE f == Head(toClient[s])
<1>1. /\ client[s].pc = "read" /\ client[s].out = {} /\ f \in WireFrame /\ f.kind = kind
      /\ toClient' \in [Session -> Seq(WireFrame)]
      /\ \A t \in Session : Len(toClient'[t]) <= BufferCap
      /\ \A t \in Session \ {s} : toClient'[t] = toClient[t]
      /\ Wire(toClient[s]) = {f} \cup Wire(toClient'[s])
      /\ CompleteLast(toClient[s]) => CompleteLast(toClient'[s])
      /\ refused' = refused /\ server' = server /\ toServer' = toServer /\ failures' = failures
  BY ClientTook
<1> HIDE DEF f
<1>2. /\ client'[s] = x /\ client' \in [Session -> ClientState]
      /\ \A t \in Session \ {s} : client'[t] = client[t]
  BY DEF IInv, TypeInv
<1>3. TypeInv'
  BY <1>1, <1>2 DEF IInv, TypeInv
<1>4. Only(s)
  BY <1>1, <1>2 DEF Only
<1>5. /\ log[ClientOf[s]] \subseteq log'[ClientOf[s]]
      /\ log[ServerOf[s]] \subseteq log'[ServerOf[s]]
  BY SyncConstantsOK DEF Grows
<1>6. /\ Asked(s)' \subseteq Asked(s)
      /\ \A g \in Answers(s)' : g \in Answers(s) \/ (g \in x.out /\ g.kind = "chunk_ids")
  BY <1>1, <1>2 DEF Answers, Asked
<1>7. DiffInv(s)'
  BY <1>1, <1>6 DEF IInv, SessionInv, DiffInv
<1>8. WhereInv(s)
  BY <1>1 DEF IInv, SessionInv
<1>9. \A F : \A m \in Enveloped(F \cup Wire(toClient[s])) :
         m \in Enveloped(F \cup Wire(toClient'[s])) \/ m \in log'[ClientOf[s]]
  <2> SUFFICES ASSUME NEW F, NEW m \in Enveloped(F \cup Wire(toClient[s]))
               PROVE  m \in Enveloped(F \cup Wire(toClient'[s])) \/ m \in log'[ClientOf[s]]
    OBVIOUS
  <2> DEFINE before == F \cup Wire(toClient[s])
             after == F \cup Wire(toClient'[s])
  <2>1. before \subseteq after \cup {f} /\ m \in Enveloped(before)
    BY <1>1
  <2> HIDE DEF before, after
  <2>2. \A n \in Enveloped(before) :
           n \in Enveloped(after) \/ (f.kind = "envelope" /\ f.body = {n})
    BY <1>1, <2>1, EnvelopedLess
  <2>3. m \in Message
    BY <2>1 DEF Enveloped
  <2>4. m \in Enveloped(after) \/ m \in log'[ClientOf[s]]
    BY <1>1, <2>1, <2>2, <2>3 DEF f
  <2> QED
    BY <2>4 DEF after
<1>10. Enveloped(Wire(toClient[s])) \subseteq Enveloped(Wire(toClient'[s])) \cup log'[ClientOf[s]]
  <2>1. {} \cup Wire(toClient[s]) = Wire(toClient[s])
        /\ {} \cup Wire(toClient'[s]) = Wire(toClient'[s])
    OBVIOUS
  <2> QED
    BY <1>9, <2>1
<1>11. WhereInv(s)'
  <2>1. client'[s].had = client[s].had
    BY <1>2
  <2>2. server[s].pc = "batch" =>
          \A g \in Answers(s)' :
             /\ g.body \subseteq log'[ClientOf[s]]
             /\ \A m \in client[s].had :
                   BucketOf[m] \in server[s].differing => m \in server[s].ids \cup g.body
    BY <1>5, <1>6, <1>8 DEF WhereInv
  <2>3. server[s].pc \in {"want", "stream"} =>
          client[s].had \subseteq log'[ClientOf[s]]
                                  \cup Enveloped(server[s].out \cup Wire(toClient'[s]))
    BY <1>5, <1>8, <1>9 DEF WhereInv
  <2>4. /\ CompleteLast(toClient'[s])
        /\ (\E g \in Wire(toClient'[s]) : g.kind = "complete") =>
             /\ server[s].pc = "idle"
             /\ client[s].had \subseteq log'[ServerOf[s]]
             /\ client[s].had \subseteq log'[ClientOf[s]] \cup Enveloped(Wire(toClient'[s]))
    BY <1>1, <1>5, <1>8, <1>10 DEF WhereInv
  <2>5. server[s].pc = "batch" =>
          /\ server[s].ids \subseteq log'[ServerOf[s]]
          /\ \A m \in client[s].had :
                BucketOf[m] \in server[s].differing => m \in server[s].ids \cup log'[ClientOf[s]]
    BY <1>5, <1>8 DEF WhereInv
  <2>6. /\ client[s].had \subseteq log'[ClientOf[s]] \cup log'[ServerOf[s]]
        /\ server[s].pc = "status" =>
             \A g \in Wire(toServer[s]) : g.kind = "status" =>
                g.body \subseteq log'[ClientOf[s]]
                /\ client[s].had \subseteq g.body \cup log'[ServerOf[s]]
        /\ server[s].pc \in Handshake =>
             server[s].summary \subseteq log'[ClientOf[s]]
             /\ client[s].had \subseteq server[s].summary \cup log'[ServerOf[s]]
        /\ server[s].pc \in {"chunk_diff", "batch"} =>
             \A m \in client[s].had : BucketOf[m] \notin server[s].differing =>
                m \in log'[ClientOf[s]] \cap log'[ServerOf[s]]
        /\ server[s].pc \in {"want", "stream"} =>
             client[s].had \subseteq log'[ServerOf[s]] \cup server[s].wanted
    BY <1>5, <1>8 DEF WhereInv
  <2> QED
    BY <1>1, <2>1, <2>2, <2>3, <2>4, <2>5, <2>6 DEF WhereInv
<1>12. SessionInv(s)'
  BY <1>2, <1>7, <1>11 DEF SessionInv
<1> QED
  BY <1>3, <1>4, <1>12, OneSession

LEMMA ClientGoesIdle ==
  ASSUME IInv, NEW s \in Session, client' = [client EXCEPT ![s] = IdleClient],
         log' = log, refused' = refused, failures' \in 0..MaxFailures,
         server' = server, toServer' = toServer,
         toClient' \in [Session -> Seq(WireFrame)],
         \A t \in Session : Len(toClient'[t]) <= BufferCap,
         \A t \in Session \ {s} : toClient'[t] = toClient[t],
         Wire(toClient'[s]) \subseteq Wire(toClient[s])
  PROVE  IInv'
<1>1. IdleClient \in ClientState
  BY DEF IdleClient, ClientState
<1>2. /\ client'[s] = IdleClient /\ client' \in [Session -> ClientState]
      /\ \A t \in Session \ {s} : client'[t] = client[t]
  BY <1>1 DEF IInv, TypeInv
<1>3. TypeInv'
  BY <1>2 DEF IInv, TypeInv
<1>4. Only(s) /\ Grows
  BY <1>2 DEF Only, Grows
<1>5. Asked(s)' \subseteq Asked(s) /\ Answers(s)' \subseteq Answers(s)
  BY <1>2 DEF Answers, Asked, IdleClient
<1>6. DiffInv(s)'
  BY <1>5 DEF IInv, SessionInv, DiffInv
<1>7. SessionInv(s)'
  BY <1>2, <1>6 DEF SessionInv, IdleClient
<1> QED
  BY <1>3, <1>4, <1>7, OneSession

LEMMA ServerGoesIdle ==
  ASSUME IInv, NEW s \in Session, server' = [server EXCEPT ![s] = IdleServer],
         log' = log, refused' = refused, failures' \in 0..MaxFailures,
         client' = client, toClient' = toClient,
         toServer' \in [Session -> Seq(WireFrame)],
         \A t \in Session : Len(toServer'[t]) <= BufferCap,
         \A t \in Session \ {s} : toServer'[t] = toServer[t],
         Wire(toServer'[s]) \subseteq Wire(toServer[s])
  PROVE  IInv'
<1>1. IdleServer \in ServerState
  BY DEF IdleServer, ServerState
<1>2. /\ server'[s] = IdleServer /\ server' \in [Session -> ServerState]
      /\ \A t \in Session \ {s} : server'[t] = server[t]
  BY <1>1 DEF IInv, TypeInv
<1>3. TypeInv'
  BY <1>2 DEF IInv, TypeInv
<1>4. Only(s) /\ Grows
  BY <1>2 DEF Only, Grows
<1>5. DiffInv(s)'
  BY <1>2 DEF DiffInv, IdleServer, Handshake
<1>6. client[s].pc = "read" => WhereInv(s)'
  BY <1>2 DEF IInv, SessionInv, WhereInv, IdleServer, Handshake
<1>7. SessionInv(s)'
  BY <1>5, <1>6 DEF IInv, SessionInv
<1> QED
  BY <1>3, <1>4, <1>7, OneSession

-----------------------------------------------------------------------------
(* Each step keeps the invariant: the steps of no session, and the         *)
(* client's.                                                               *)
LEMMA PostKeeps ==
  ASSUME IInv, NEW n \in Node, NEW m \in Message, Post(n, m)
  PROVE  IInv'
<1>1. /\ log' \in [Node -> SUBSET Message] /\ Grows
      /\ UNCHANGED <<refused, client, server, toServer, toClient, failures>>
  BY Appended DEF IInv, Post
<1>2. TypeInv'
  BY <1>1 DEF IInv, TypeInv
<1>3. ASSUME NEW t \in Session PROVE SessionInv(t)'
  BY <1>1, SessionInvStable
<1> QED
  BY <1>2, <1>3 DEF IInv

LEMMA ChangePolicyKeeps ==
  ASSUME IInv, NEW n \in Node, ChangePolicy(n)
  PROVE  IInv'
<1>1. /\ refused' = [refused EXCEPT ![n] = Revocable \ refused[n]] /\ Grows
      /\ UNCHANGED <<log, client, server, toServer, toClient, failures>>
  BY DEF ChangePolicy, Grows
<1>2. refused' \in [Node -> {{}, Revocable}]
  <2>1. refused \in [Node -> {{}, Revocable}]
    BY DEF IInv, TypeInv
  <2>2. Revocable \ refused[n] \in {{}, Revocable}
    BY <2>1
  <2> QED
    BY <1>1, <2>1, <2>2
<1>3. TypeInv'
  BY <1>1, <1>2 DEF IInv, TypeInv
<1>4. ASSUME NEW t \in Session PROVE SessionInv(t)'
  BY <1>1, SessionInvStable
<1> QED
  BY <1>3, <1>4 DEF IInv

LEMMA ConnectKeeps ==
  ASSUME IInv, NEW s \in Session, Connect(s)
  PROVE  IInv'
<1> DEFINE c == log[ClientOf[s]]
           v == log[ServerOf[s]]
           x == [pc |-> "read", out |-> {}, had |-> c \cup v]
           z == [IdleServer EXCEPT !.pc = "status"]
           f == Frame("status", c)
<1>1. /\ client' = [client EXCEPT ![s] = x] /\ server' = [server EXCEPT ![s] = z]
      /\ toServer' = [toServer EXCEPT ![s] = <<f>>]
      /\ toClient' = [toClient EXCEPT ![s] = << >>]
      /\ UNCHANGED <<log, refused, failures>>
  BY DEF Connect
<1>2. c \in SUBSET Message /\ v \in SUBSET Message
  BY SyncConstantsOK DEF IInv, TypeInv
<1>3. /\ x.pc = "read" /\ x.out = {} /\ x.had = c \cup v
      /\ z.pc = "status" /\ z.out = {} /\ z.wanted = {}
      /\ x \in ClientState /\ z \in ServerState
  BY <1>2 DEF ClientState, ServerState, IdleServer, Handshake
<1>4. f \in WireFrame /\ f.kind = "status" /\ f.body = c
  BY <1>2, FrameFacts
<1>5. /\ <<f>> \in Seq(WireFrame) /\ Len(<<f>>) = 1 /\ Wire(<<f>>) = {f}
      /\ << >> \in Seq(WireFrame) /\ Len(<< >>) = 0 /\ Wire(<< >>) = {}
      /\ CompleteLast(<< >>)
  BY <1>4, WireOne
<1> HIDE DEF c, v, x, z, f
<1>6. /\ client' \in [Session -> ClientState] /\ server' \in [Session -> ServerState]
      /\ toServer' \in [Session -> Seq(WireFrame)] /\ toClient' \in [Session -> Seq(WireFrame)]
      /\ client'[s] = x /\ server'[s] = z /\ toServer'[s] = <<f>> /\ toClient'[s] = << >>
      /\ \A t \in Session \ {s} :
           /\ client'[t] = client[t] /\ server'[t] = server[t]
           /\ toServer'[t] = toServer[t] /\ toClient'[t] = toClient[t]
  BY <1>1, <1>3, <1>5 DEF IInv, TypeInv
<1>7. \A t \in Session : Len(toServer'[t]) <= BufferCap /\ Len(toClient'[t]) <= BufferCap
  <2>1. 1 <= BufferCap /\ 0 <= BufferCap
    BY SyncConstantsOK
  <2> QED
    BY <1>5, <1>6, <2>1 DEF IInv, TypeInv
<1>8. TypeInv'
  BY <1>1, <1>6, <1>7 DEF IInv, TypeInv
<1>9. Only(s) /\ Grows
  BY <1>1, <1>6 DEF Only, Grows
<1>10. /\ Wire(toServer'[s]) = {f} /\ Wire(toClient'[s]) = {} /\ CompleteLast(toClient'[s])
       /\ Answers(s)' = {} /\ Asked(s)' = {}
  BY <1>3, <1>4, <1>5, <1>6 DEF Answers, Asked
<1>11. DiffInv(s)'
  BY <1>3, <1>6, <1>10 DEF DiffInv
<1>12. log'[ClientOf[s]] = c /\ log'[ServerOf[s]] = v
  BY <1>1 DEF c, v
<1>13. WhereInv(s)'
  BY <1>3, <1>4, <1>6, <1>10, <1>12 DEF WhereInv, Handshake
<1>14. SessionInv(s)'
  BY <1>3, <1>6, <1>11, <1>13 DEF SessionInv
<1> QED
  BY <1>8, <1>9, <1>14, OneSession

LEMMA ClientSendKeeps ==
  ASSUME IInv, NEW s \in Session, ClientSend(s)
  PROVE  IInv'
<1>1. PICK f \in client[s].out :
        /\ toServer' = [toServer EXCEPT ![s] = Append(toServer[s], f)]
        /\ client' = [client EXCEPT ![s].out = client[s].out \ {f}]
  BY DEF ClientSend
<1>2. /\ client[s].pc = "read" /\ Len(toServer[s]) < BufferCap
      /\ UNCHANGED <<log, refused, server, toClient, failures>>
  BY DEF ClientSend
<1>3. /\ client[s] \in ClientState /\ f \in Answer /\ f \in WireFrame
      /\ f.kind \in {"key_sync", "chunk_ids", "envelope"}
      /\ toServer[s] \in Seq(WireFrame) /\ Len(toServer[s]) \in Nat /\ BufferCap \in Nat
  BY SyncConstantsOK DEF IInv, TypeInv, ClientState, Answer
<1>4. /\ Append(toServer[s], f) \in Seq(WireFrame)
      /\ Len(Append(toServer[s], f)) = Len(toServer[s]) + 1
      /\ Wire(Append(toServer[s], f)) = Wire(toServer[s]) \cup {f}
  BY <1>3, WireAppend
<1>5. /\ toServer' \in [Session -> Seq(WireFrame)]
      /\ toServer'[s] = Append(toServer[s], f)
      /\ \A t \in Session \ {s} : toServer'[t] = toServer[t]
  BY <1>1, <1>4 DEF IInv, TypeInv
<1>6. /\ client' \in [Session -> ClientState]
      /\ client'[s].pc = "read" /\ client'[s].had = client[s].had
      /\ client'[s].out = client[s].out \ {f}
      /\ \A t \in Session \ {s} : client'[t] = client[t]
  BY <1>1, <1>2, <1>3 DEF IInv, TypeInv, ClientState
<1>7. \A t \in Session : Len(toServer'[t]) <= BufferCap
  <2>1. \A t \in Session : Len(toServer[t]) <= BufferCap
    BY DEF IInv, TypeInv
  <2>2. Len(toServer'[s]) <= BufferCap
    BY <1>2, <1>3, <1>4, <1>5
  <2> QED
    BY <1>5, <2>1, <2>2
<1>8. TypeInv'
  BY <1>2, <1>5, <1>6, <1>7 DEF IInv, TypeInv
<1>9. Only(s) /\ Grows
  BY <1>2, <1>5, <1>6 DEF Only, Grows
<1>10. /\ Wire(toServer'[s]) = Wire(toServer[s]) \cup {f}
       /\ Answers(s)' \subseteq Answers(s) /\ Asked(s)' = Asked(s)
  BY <1>2, <1>4, <1>5, <1>6 DEF Answers, Asked
<1>11. DiffInv(s)'
  BY <1>2, <1>10 DEF IInv, SessionInv, DiffInv
<1>12. WhereInv(s)
  BY <1>2 DEF IInv, SessionInv
<1>13. WhereInv(s)'
  BY <1>2, <1>3, <1>6, <1>10, <1>12 DEF WhereInv
<1>14. SessionInv(s)'
  BY <1>6, <1>11, <1>13 DEF SessionInv
<1> QED
  BY <1>8, <1>9, <1>14, OneSession

LEMMA ClientHistoryKeeps ==
  ASSUME IInv, NEW s \in Session, ClientHistory(s)
  PROVE  IInv'
<1>1. PICK kind \in {"policy_sync", "moderation_sync"} : ClientTakes(s, kind)
  BY DEF ClientHistory
<1>2. log' = log /\ client' = client
  BY DEF ClientHistory
<1>3. /\ log' \in [Node -> SUBSET Message] /\ Grows
      /\ client[s] \in ClientState /\ client' = [client EXCEPT ![s] = client[s]]
  BY <1>2 DEF IInv, TypeInv, Grows
<1>4. client[s].pc = "read" /\ client[s].out = {}
  BY <1>1, ClientTook
<1> QED
  BY <1>1, <1>3, <1>4, ClientReads

(* The client takes a frame and has answers to send.                       *)
LEMMA ClientAnswers ==
  ASSUME IInv, NEW s \in Session, client[s].pc = "read",
         NEW out \in SUBSET Answer, client' = [client EXCEPT ![s].out = out], log' = log
  PROVE  \E x \in ClientState :
            /\ client' = [client EXCEPT ![s] = x]
            /\ x.pc = "read" /\ x.had = client[s].had /\ x.out = out
            /\ log' \in [Node -> SUBSET Message] /\ Grows
<1>1. client[s] \in ClientState
  BY DEF IInv, TypeInv
<1> DEFINE x == [client[s] EXCEPT !.out = out]
<1>2. x \in ClientState /\ x.pc = "read" /\ x.had = client[s].had /\ x.out = out
  BY <1>1 DEF ClientState
<1>3. client' = [client EXCEPT ![s] = x]
  OBVIOUS
<1> QED
  BY <1>2, <1>3 DEF IInv, TypeInv, Grows

LEMMA ClientKeySyncKeeps ==
  ASSUME IInv, NEW s \in Session, ClientKeySync(s)
  PROVE  IInv'
<1> DEFINE out == {Frame("key_sync", {})}
<1>1. ClientTakes(s, "key_sync") /\ client' = [client EXCEPT ![s].out = out] /\ log' = log
  BY DEF ClientKeySync
<1>2. client[s].pc = "read"
  BY <1>1, ClientTook
<1>3. out \in SUBSET Answer /\ \A f \in out : f.kind = "key_sync"
  BY FrameFacts DEF Answer
<1> HIDE DEF out
<1>4. PICK x \in ClientState :
        /\ client' = [client EXCEPT ![s] = x]
        /\ x.pc = "read" /\ x.had = client[s].had /\ x.out = out
        /\ log' \in [Node -> SUBSET Message] /\ Grows
  BY <1>1, <1>2, <1>3, ClientAnswers
<1> QED
  BY <1>1, <1>3, <1>4, ClientReads

LEMMA ClientWantKeeps ==
  ASSUME IInv, NEW s \in Session, ClientWant(s)
  PROVE  IInv'
<1> DEFINE ids == Head(toClient[s]).body
           out == Envelopes(ids)
<1>1. ClientTakes(s, "want") /\ client' = [client EXCEPT ![s].out = out] /\ log' = log
  BY DEF ClientWant
<1>2. client[s].pc = "read" /\ Head(toClient[s]) \in WireFrame /\ Head(toClient[s]).kind = "want"
  BY <1>1, ClientTook
<1>3. ids \in SUBSET Message
  BY <1>2 DEF WireFrame
<1> HIDE DEF ids
<1>4. out \in SUBSET Answer /\ \A f \in out : f.kind = "envelope"
  BY <1>3, EnvelopeFacts DEF Answer
<1> HIDE DEF out
<1>5. PICK x \in ClientState :
        /\ client' = [client EXCEPT ![s] = x]
        /\ x.pc = "read" /\ x.had = client[s].had /\ x.out = out
        /\ log' \in [Node -> SUBSET Message] /\ Grows
  BY <1>1, <1>2, <1>4, ClientAnswers
<1>6. \A f \in x.out : f.kind # "chunk_ids"
  BY <1>4, <1>5
<1>7. "want" # "complete" /\ "want" # "envelope"
  OBVIOUS
<1>8. \A f \in x.out : f.kind = "chunk_ids" =>
         /\ server[s].pc \notin Handshake \cup {"status", "chunk_diff"}
         /\ server[s].pc = "batch" =>
              /\ f.body \subseteq log'[ClientOf[s]]
              /\ \A m \in f.body : BucketOf[m] \in server[s].differing
              /\ \A m \in client[s].had :
                    BucketOf[m] \in server[s].differing => m \in server[s].ids \cup f.body
  BY <1>6
<1> QED
  BY <1>1, <1>5, <1>7, <1>8, ClientReads

(* What the answer to chunk_diff says is what the client holds then.       *)
LEMMA ClientChunkDiffKeeps ==
  ASSUME IInv, NEW s \in Session, ClientChunkDiff(s)
  PROVE  IInv'
<1> DEFINE q == Head(toClient[s])
           c == log[ClientOf[s]]
           ids == chunk_ids(c, q.body)
           a == Frame("chunk_ids", ids)
           out == {a}
<1>1. ClientTakes(s, "chunk_diff") /\ client' = [client EXCEPT ![s].out = out] /\ log' = log
  BY DEF ClientChunkDiff
<1>2. /\ client[s].pc = "read" /\ q \in WireFrame /\ q \in Wire(toClient[s])
      /\ q.kind = "chunk_diff"
  BY <1>1, ClientTook
<1>3. c \subseteq Message
  BY SyncConstantsOK DEF IInv, TypeInv
<1> HIDE DEF q, c
<1>4. ids \subseteq c /\ \A m \in Message : m \in ids <=> m \in c /\ BucketOf[m] \in q.body
  BY <1>3 DEF chunk_ids
<1> HIDE DEF ids
<1>5. a \in WireFrame /\ a.kind = "chunk_ids" /\ a.body = ids
  BY <1>3, <1>4, FrameFacts
<1> HIDE DEF a
<1>6. out \in SUBSET Answer
  BY <1>5 DEF Answer
<1>7. \A f \in out : f = a
  OBVIOUS
<1> HIDE DEF out
<1>8. PICK x \in ClientState :
        /\ client' = [client EXCEPT ![s] = x]
        /\ x.pc = "read" /\ x.had = client[s].had /\ x.out = out
        /\ log' \in [Node -> SUBSET Message] /\ Grows
  BY <1>1, <1>2, <1>6, ClientAnswers
<1>9. q \in Asked(s)
  BY <1>2 DEF Asked
<1>10. DiffInv(s) /\ WhereInv(s)
  BY <1>2 DEF IInv, SessionInv
<1>11. server[s].pc \notin Handshake \cup {"status", "chunk_diff"}
  BY <1>9, <1>10 DEF DiffInv
<1>12. server[s].pc = "batch" =>
         /\ a.body \subseteq log'[ClientOf[s]]
         /\ \A m \in a.body : BucketOf[m] \in server[s].differing
         /\ \A m \in client[s].had :
               BucketOf[m] \in server[s].differing => m \in server[s].ids \cup a.body
  <2> SUFFICES ASSUME server[s].pc = "batch"
               PROVE  /\ a.body \subseteq log'[ClientOf[s]]
                      /\ \A m \in a.body : BucketOf[m] \in server[s].differing
                      /\ \A m \in client[s].had :
                            BucketOf[m] \in server[s].differing =>
                               m \in server[s].ids \cup a.body
    OBVIOUS
  <2>1. q.body = server[s].differing
    BY <1>9, <1>10 DEF DiffInv
  <2>2. \A m \in client[s].had :
           m \in Message
           /\ (BucketOf[m] \in server[s].differing => m \in server[s].ids \cup c)
    BY <1>10 DEF WhereInv, IInv, TypeInv, ClientState, c
  <2> QED
    BY <1>1, <1>3, <1>4, <1>5, <2>1, <2>2 DEF c
<1>13. \A f \in x.out : f = a
  BY <1>7, <1>8
<1>14. "chunk_diff" # "complete" /\ "chunk_diff" # "envelope"
  OBVIOUS
<1>15. \A f \in x.out : f.kind = "chunk_ids" =>
          /\ server[s].pc \notin Handshake \cup {"status", "chunk_diff"}
          /\ server[s].pc = "batch" =>
               /\ f.body \subseteq log'[ClientOf[s]]
               /\ \A m \in f.body : BucketOf[m] \in server[s].differing
               /\ \A m \in client[s].had :
                     BucketOf[m] \in server[s].differing => m \in server[s].ids \cup f.body
  BY <1>11, <1>12, <1>13
<1> QED
  BY <1>1, <1>8, <1>14, <1>15, ClientReads

LEMMA ClientEnvelopeKeeps ==
  ASSUME IInv, NEW s \in Session, ClientEnvelope(s)
  PROVE  IInv'
<1>1. ClientTakes(s, "envelope")
  BY DEF ClientEnvelope
<1>2. PICK m \in Head(toClient[s]).body :
         IF Accepts(ClientOf[s], m)
         THEN append_message(ClientOf[s], m) /\ UNCHANGED client
         ELSE client' = [client EXCEPT ![s] = IdleClient] /\ UNCHANGED log
  BY DEF ClientEnvelope
<1>3. /\ client[s].pc = "read" /\ client[s].out = {}
      /\ Head(toClient[s]) \in WireFrame /\ Head(toClient[s]).kind = "envelope"
      /\ toClient' \in [Session -> Seq(WireFrame)]
      /\ \A t \in Session : Len(toClient'[t]) <= BufferCap
      /\ \A t \in Session \ {s} : toClient'[t] = toClient[t]
      /\ Wire(toClient'[s]) \subseteq Wire(toClient[s])
      /\ refused' = refused /\ server' = server /\ toServer' = toServer /\ failures' = failures
  BY <1>1, ClientTook
<1>4. m \in Message /\ ClientOf[s] \in Node
  BY <1>3, SyncConstantsOK DEF WireFrame
<1>5. CASE Accepts(ClientOf[s], m)
  <2>1. /\ log' \in [Node -> SUBSET Message] /\ Grows
        /\ log'[ClientOf[s]] = log[ClientOf[s]] \cup {m}
    BY <1>2, <1>4, <1>5, Appended DEF IInv
  <2>2. client[s] \in ClientState /\ client' = [client EXCEPT ![s] = client[s]]
    BY <1>2, <1>5 DEF IInv, TypeInv
  <2>3. \A n \in Message : Head(toClient[s]).body = {n} => n \in log'[ClientOf[s]]
    BY <1>2, <2>1
  <2> QED
    BY <1>1, <1>3, <2>1, <2>2, <2>3, ClientReads
<1>6. CASE ~Accepts(ClientOf[s], m)
  <2>1. client' = [client EXCEPT ![s] = IdleClient] /\ log' = log
    BY <1>2, <1>6
  <2>2. failures' \in 0..MaxFailures
    BY <1>3 DEF IInv, TypeInv
  <2> QED
    BY <1>3, <2>1, <2>2, ClientGoesIdle
<1> QED
  BY <1>5, <1>6

(* complete is the last frame: nothing the client has not applied is under *)
(* way when it reports success.                                            *)
LEMMA ClientCompleteKeeps ==
  ASSUME IInv, NEW s \in Session, ClientComplete(s)
  PROVE  IInv'
<1> DEFINE f == Head(toClient[s])
<1>1. /\ ClientTakes(s, "complete") /\ client' = [client EXCEPT ![s].pc = "done"]
      /\ log' = log
  BY DEF ClientComplete
<1>2. /\ client[s].pc = "read" /\ client[s].out = {} /\ f \in Wire(toClient[s])
      /\ f \in WireFrame /\ f.kind = "complete"
      /\ toClient' \in [Session -> Seq(WireFrame)]
      /\ \A t \in Session : Len(toClient'[t]) <= BufferCap
      /\ \A t \in Session \ {s} : toClient'[t] = toClient[t]
      /\ Wire(toClient[s]) = {f} \cup Wire(toClient'[s])
      /\ CompleteLast(toClient[s]) => Wire(toClient'[s]) = {}
      /\ refused' = refused /\ server' = server /\ toServer' = toServer /\ failures' = failures
  BY <1>1, ClientTook
<1> HIDE DEF f
<1>3. /\ client' \in [Session -> ClientState]
      /\ client'[s].pc = "done" /\ client'[s].out = {} /\ client'[s].had = client[s].had
      /\ \A t \in Session \ {s} : client'[t] = client[t]
  BY <1>1, <1>2 DEF IInv, TypeInv, ClientState
<1>4. TypeInv'
  BY <1>1, <1>2, <1>3 DEF IInv, TypeInv
<1>5. Only(s) /\ Grows
  BY <1>1, <1>2, <1>3 DEF Only, Grows
<1>6. WhereInv(s) /\ DiffInv(s)
  BY <1>2 DEF IInv, SessionInv
<1>7. Wire(toClient'[s]) = {} /\ Wire(toClient[s]) = {f}
  BY <1>2, <1>6 DEF WhereInv
<1>8. Enveloped({f}) = {}
  <2>1. {f} \subseteq {} \cup {f} /\ Enveloped({}) = {}
    BY DEF Enveloped
  <2>2. \A m \in Enveloped({f}) : m \in Enveloped({}) \/ (f.kind = "envelope" /\ f.body = {m})
    BY <1>2, <2>1, EnvelopedLess
  <2> QED
    BY <1>2, <2>1, <2>2
<1>9. client[s].had \subseteq log[ClientOf[s]] \cap log[ServerOf[s]]
  BY <1>2, <1>6, <1>7, <1>8 DEF WhereInv
<1>10. Answers(s)' \subseteq Answers(s) /\ Asked(s)' \subseteq Asked(s)
  BY <1>2, <1>3 DEF Answers, Asked
<1>11. DiffInv(s)'
  BY <1>2, <1>6, <1>10 DEF DiffInv
<1>12. SessionInv(s)'
  BY <1>1, <1>3, <1>9, <1>11 DEF SessionInv
<1> QED
  BY <1>4, <1>5, <1>12, OneSession

LEMMA ClientLeavesKeeps ==
  ASSUME IInv, NEW s \in Session, client' = [client EXCEPT ![s] = IdleClient],
         UNCHANGED <<log, refused, server, toServer, toClient>>,
         failures' \in 0..MaxFailures
  PROVE  IInv'
  BY ClientGoesIdle DEF IInv, TypeInv

-----------------------------------------------------------------------------
(* The server's steps.                                                     *)

(* What a step of the server has to show: the log is kept or grows, one    *)
(* queue at most changes, and the invariant holds of its session.          *)
LEMMA ServerMoves ==
  ASSUME IInv, NEW s \in Session, NEW z \in ServerState,
         server' = [server EXCEPT ![s] = z],
         client' = client, refused' = refused, failures' = failures,
         log' \in [Node -> SUBSET Message], Grows,
         toServer' \in [Session -> Seq(WireFrame)],
         toClient' \in [Session -> Seq(WireFrame)],
         \A t \in Session : Len(toServer'[t]) <= BufferCap /\ Len(toClient'[t]) <= BufferCap,
         \A t \in Session \ {s} : toServer'[t] = toServer[t] /\ toClient'[t] = toClient[t],
         DiffInv(s)', client[s].pc = "read" => WhereInv(s)'
  PROVE  IInv'
<1>1. /\ server'[s] = z /\ server' \in [Session -> ServerState]
      /\ \A t \in Session \ {s} : server'[t] = server[t]
  BY DEF IInv, TypeInv
<1>2. TypeInv'
  BY <1>1 DEF IInv, TypeInv
<1>3. Only(s)
  BY <1>1 DEF Only
<1>4. /\ log[ClientOf[s]] \subseteq log'[ClientOf[s]]
      /\ log[ServerOf[s]] \subseteq log'[ServerOf[s]]
  BY SyncConstantsOK DEF Grows
<1>5. client[s].pc = "done" =>
        client[s].had \subseteq log'[ClientOf[s]] \cap log'[ServerOf[s]]
  BY <1>4 DEF IInv, SessionInv
<1>6. SessionInv(s)'
  BY <1>5 DEF SessionInv
<1> QED
  BY <1>2, <1>3, <1>6, OneSession

LEMMA ServerTypes ==
  ASSUME IInv, NEW s \in Session
  PROVE  /\ server[s] \in ServerState /\ client[s] \in ClientState
         /\ log \in [Node -> SUBSET Message]
         /\ log[ClientOf[s]] \subseteq Message /\ log[ServerOf[s]] \subseteq Message
         /\ toServer \in [Session -> Seq(WireFrame)]
         /\ toClient \in [Session -> Seq(WireFrame)]
         /\ \A t \in Session : Len(toServer[t]) <= BufferCap /\ Len(toClient[t]) <= BufferCap
         /\ log' = log => log' \in [Node -> SUBSET Message] /\ Grows
  BY SyncConstantsOK DEF IInv, TypeInv, Grows

LEMMA ServerStatusKeeps ==
  ASSUME IInv, NEW s \in Session, ServerStatus(s)
  PROVE  IInv'
<1> DEFINE f == Head(toServer[s])
           z == [server[s] EXCEPT !.pc = "policy_sync", !.summary = f.body]
<1>1. /\ ServerTakes(s, "status", "status") /\ log' = log
      /\ server' = [server EXCEPT ![s] = z]
  BY DEF ServerStatus
<1>2. /\ server[s].pc = "status" /\ f \in WireFrame /\ f \in Wire(toServer[s])
      /\ f.kind = "status"
      /\ toServer' \in [Session -> Seq(WireFrame)]
      /\ \A t \in Session : Len(toServer'[t]) <= BufferCap
      /\ \A t \in Session \ {s} : toServer'[t] = toServer[t]
      /\ Wire(toServer[s]) = {f} \cup Wire(toServer'[s])
      /\ refused' = refused /\ client' = client /\ toClient' = toClient /\ failures' = failures
  BY <1>1, ServerTook
<1>3. f.body \in SUBSET Message
  BY <1>2 DEF WireFrame
<1>4. /\ z \in ServerState /\ z.pc = "policy_sync" /\ z.summary = f.body
      /\ z.wanted = server[s].wanted /\ z.differing = server[s].differing
      /\ server'[s] = z
  BY <1>1, <1>2, <1>3, ServerTypes DEF ServerState, Handshake, IInv, TypeInv
<1> HIDE DEF f, z
<1>5. Answers(s)' \subseteq Answers(s) /\ Asked(s)' = Asked(s)
  BY <1>2 DEF Answers, Asked
<1>6. DiffInv(s)'
  BY <1>2, <1>4, <1>5 DEF IInv, SessionInv, DiffInv, Handshake
<1>7. ASSUME client[s].pc = "read" PROVE WhereInv(s)'
  <2>1. WhereInv(s)
    BY <1>7 DEF IInv, SessionInv
  <2> QED
    BY <1>1, <1>2, <1>4, <2>1 DEF WhereInv, Handshake
<1> QED
  BY <1>1, <1>2, <1>4, <1>6, <1>7, ServerMoves, ServerTypes

LEMMA ServerHandshakeKeeps ==
  ASSUME IInv, NEW s \in Session, ServerHandshake(s)
  PROVE  IInv'
<1>1. PICK pc \in {"policy_sync", "moderation_sync", "key_sync"} :
        /\ ServerSends(s, pc, Frame(pc, {}))
        /\ server' = [server EXCEPT ![s].pc = HandshakeAfter[pc]]
  BY DEF ServerHandshake, HandshakeAfter
<1> DEFINE f == Frame(pc, {})
           next == HandshakeAfter[pc]
           z == [server[s] EXCEPT !.pc = next]
<1>2. f \in WireFrame /\ f.kind = pc /\ next \in Handshake /\ pc \in Handshake
  BY FrameFacts DEF HandshakeAfter, Handshake
<1>3. /\ server[s].pc = pc
      /\ toClient' \in [Session -> Seq(WireFrame)]
      /\ \A t \in Session : Len(toClient'[t]) <= BufferCap
      /\ \A t \in Session \ {s} : toClient'[t] = toClient[t]
      /\ Wire(toClient'[s]) = Wire(toClient[s]) \cup {f}
      /\ (\A g \in Wire(toClient[s]) : g.kind # "complete") => CompleteLast(toClient'[s])
      /\ log' = log /\ refused' = refused /\ client' = client
      /\ toServer' = toServer /\ failures' = failures
  BY <1>1, <1>2, ServerSent
<1> HIDE DEF next
<1>4. /\ z \in ServerState /\ z.pc \in Handshake /\ z.summary = server[s].summary
      /\ z.wanted = server[s].wanted /\ z.differing = server[s].differing
      /\ server' = [server EXCEPT ![s] = z] /\ server'[s] = z
  BY <1>1, <1>2, ServerTypes DEF ServerState, IInv, TypeInv, next
<1> HIDE DEF f, z
<1>5. Answers(s)' = Answers(s) /\ Asked(s)' = Asked(s)
  BY <1>2, <1>3 DEF Answers, Asked
<1>6. DiffInv(s)'
  BY <1>2, <1>3, <1>4, <1>5 DEF IInv, SessionInv, DiffInv, Handshake
<1>7. ASSUME client[s].pc = "read" PROVE WhereInv(s)'
  <2>1. WhereInv(s)
    BY <1>7 DEF IInv, SessionInv
  <2>2. \A g \in Wire(toClient'[s]) : g.kind # "complete"
    BY <1>2, <1>3, <2>1 DEF WhereInv, Handshake
  <2> QED
    BY <1>2, <1>3, <1>4, <2>1, <2>2 DEF WhereInv, Handshake
<1> QED
  BY <1>3, <1>4, <1>6, <1>7, ServerMoves, ServerTypes

(* A message of a bucket that is equal on both sides is held by both.      *)
LEMMA SameBucket ==
  ASSUME NEW a \in SUBSET Message, NEW v \in SUBSET Message, NEW m \in a \cup v,
         BucketOf[m] \notin Differing(a, v)
  PROVE  m \in a \cap v
<1>1. m \in Message /\ BucketOf[m] \in Bucket
  BY SyncConstantsOK
<1>2. InBucket(a, BucketOf[m]) = InBucket(v, BucketOf[m])
  BY <1>1 DEF Differing
<1> QED
  BY <1>2 DEF InBucket

LEMMA ServerKeySyncKeeps ==
  ASSUME IInv, NEW s \in Session, ServerKeySync(s)
  PROVE  IInv'
<1> DEFINE f == Head(toServer[s])
           v == log[ServerOf[s]]
           d == Differing(server[s].summary, v)
           z == [server[s] EXCEPT !.pc = "chunk_diff", !.differing = d]
<1>1. /\ ServerTakes(s, "keys", "key_sync") /\ log' = log
      /\ server' = [server EXCEPT ![s] = z]
  BY DEF ServerKeySync
<1>2. /\ server[s].pc = "keys"
      /\ toServer' \in [Session -> Seq(WireFrame)]
      /\ \A t \in Session : Len(toServer'[t]) <= BufferCap
      /\ \A t \in Session \ {s} : toServer'[t] = toServer[t]
      /\ Wire(toServer'[s]) \subseteq Wire(toServer[s])
      /\ refused' = refused /\ client' = client /\ toClient' = toClient /\ failures' = failures
  BY <1>1, ServerTook
<1>3. d \in SUBSET Bucket
  BY DEF Differing
<1> HIDE DEF d
<1>4. /\ z \in ServerState /\ z.pc = "chunk_diff" /\ z.differing = d
      /\ z.wanted = server[s].wanted /\ server'[s] = z
  BY <1>1, <1>3, ServerTypes DEF ServerState, IInv, TypeInv
<1> HIDE DEF f, z
<1>5. Answers(s)' \subseteq Answers(s) /\ Asked(s)' = Asked(s)
  BY <1>2 DEF Answers, Asked
<1>6. DiffInv(s)'
  BY <1>2, <1>4, <1>5 DEF IInv, SessionInv, DiffInv, Handshake
<1>7. ASSUME client[s].pc = "read" PROVE WhereInv(s)'
  <2>1. WhereInv(s)
    BY <1>7 DEF IInv, SessionInv
  <2>2. server[s].summary \in SUBSET Message /\ v \in SUBSET Message
        /\ server[s].summary \subseteq log[ClientOf[s]]
        /\ client[s].had \subseteq server[s].summary \cup v
    BY <1>2, <2>1, ServerTypes DEF ServerState, WhereInv, Handshake
  <2>3. \A m \in client[s].had : BucketOf[m] \notin d => m \in log[ClientOf[s]] \cap v
    BY <2>2, SameBucket DEF d
  <2> QED
    BY <1>1, <1>2, <1>4, <2>1, <2>3 DEF WhereInv, Handshake
<1> QED
  BY <1>1, <1>2, <1>4, <1>6, <1>7, ServerMoves, ServerTypes

(* The ids of the differing buckets are read after the comparison: what    *)
(* has come since is among them.                                           *)
LEMMA ServerChunkDiffKeeps ==
  ASSUME IInv, NEW s \in Session, ServerChunkDiff(s)
  PROVE  IInv'
<1> DEFINE d == server[s].differing
           v == log[ServerOf[s]]
           ids == chunk_ids(v, d)
           f == Frame("chunk_diff", d)
           z == [server[s] EXCEPT !.pc = "batch", !.ids = ids]
<1>1. ServerSends(s, "chunk_diff", f) /\ server' = [server EXCEPT ![s] = z]
  BY DEF ServerChunkDiff
<1>2. d \in SUBSET Bucket /\ v \in SUBSET Message
  BY ServerTypes DEF ServerState
<1> HIDE DEF d
<1>3. /\ f \in WireFrame /\ f.kind = "chunk_diff" /\ f.body = d
      /\ ids \in SUBSET Message /\ ids \subseteq v
      /\ \A m \in v : BucketOf[m] \in d => m \in ids
  BY <1>2, FrameFacts DEF chunk_ids
<1> HIDE DEF ids, f
<1>4. /\ server[s].pc = "chunk_diff"
      /\ toClient' \in [Session -> Seq(WireFrame)]
      /\ \A t \in Session : Len(toClient'[t]) <= BufferCap
      /\ \A t \in Session \ {s} : toClient'[t] = toClient[t]
      /\ Wire(toClient'[s]) = Wire(toClient[s]) \cup {f}
      /\ (\A g \in Wire(toClient[s]) : g.kind # "complete") => CompleteLast(toClient'[s])
      /\ log' = log /\ refused' = refused /\ client' = client
      /\ toServer' = toServer /\ failures' = failures
  BY <1>1, <1>3, ServerSent
<1>5. /\ z \in ServerState /\ z.pc = "batch" /\ z.ids = ids
      /\ z.wanted = server[s].wanted /\ z.differing = d /\ server'[s] = z
  BY <1>1, <1>3, ServerTypes DEF ServerState, IInv, TypeInv, d
<1> HIDE DEF z
<1>6. DiffInv(s)
  BY DEF IInv, SessionInv
<1>7. Answers(s)' = {} /\ Asked(s)' = {f}
  <2>1. Answers(s) = {} /\ Asked(s) = {}
    BY <1>4, <1>6 DEF DiffInv
  <2> QED
    BY <1>3, <1>4, <2>1 DEF Answers, Asked
<1>8. DiffInv(s)'
  BY <1>3, <1>4, <1>5, <1>6, <1>7 DEF DiffInv, Handshake, d
<1>9. ASSUME client[s].pc = "read" PROVE WhereInv(s)'
  <2>1. WhereInv(s)
    BY <1>9 DEF IInv, SessionInv
  <2>2. \A g \in Wire(toClient'[s]) : g.kind # "complete"
    BY <1>3, <1>4, <2>1 DEF WhereInv
  <2>3. /\ client[s].had \subseteq log[ClientOf[s]] \cup v
        /\ \A m \in client[s].had : BucketOf[m] \notin d => m \in log[ClientOf[s]] \cap v
    BY <1>4, <2>1 DEF WhereInv, d
  <2>4. \A m \in client[s].had : BucketOf[m] \in d => m \in ids \cup log[ClientOf[s]]
    BY <1>3, <2>3
  <2> QED
    BY <1>3, <1>4, <1>5, <1>7, <2>2, <2>3, <2>4 DEF WhereInv, Handshake
<1> QED
  BY <1>1, <1>4, <1>5, <1>8, <1>9, ServerMoves, ServerTypes

(* What is not wanted or under way is on both sides.                       *)
LEMMA ServerBatchKeeps ==
  ASSUME IInv, NEW s \in Session, ServerBatch(s)
  PROVE  IInv'
<1> DEFINE f == Head(toServer[s])
           wanted == f.body \ server[s].ids
           out == Envelopes(server[s].ids \ f.body)
           z == [server[s] EXCEPT !.pc = "want", !.wanted = wanted, !.out = out]
<1>1. /\ ServerTakes(s, "batch", "chunk_ids") /\ log' = log
      /\ server' = [server EXCEPT ![s] = z]
  BY DEF ServerBatch
<1>2. /\ server[s].pc = "batch" /\ f \in WireFrame /\ f \in Wire(toServer[s])
      /\ f.kind = "chunk_ids"
      /\ toServer' \in [Session -> Seq(WireFrame)]
      /\ \A t \in Session : Len(toServer'[t]) <= BufferCap
      /\ \A t \in Session \ {s} : toServer'[t] = toServer[t]
      /\ refused' = refused /\ client' = client /\ toClient' = toClient /\ failures' = failures
  BY <1>1, ServerTook
<1>3. f.body \in SUBSET Message /\ server[s].ids \in SUBSET Message
  BY <1>2, ServerTypes DEF WireFrame, ServerState
<1> HIDE DEF f
<1>4. out \in SUBSET {g \in WireFrame : g.kind = "envelope"}
      /\ server[s].ids \ f.body \subseteq Enveloped(out)
  <2>1. server[s].ids \ f.body \in SUBSET Message
    BY <1>3
  <2> QED
    BY <2>1, EnvelopeFacts
<1>5. wanted \in SUBSET Message
  BY <1>3
<1> HIDE DEF out
<1>6. /\ z \in ServerState /\ z.pc = "want" /\ z.wanted = wanted /\ z.out = out
      /\ z.differing = server[s].differing /\ server'[s] = z
  BY <1>1, <1>4, <1>5, ServerTypes DEF ServerState, IInv, TypeInv
<1> HIDE DEF z
<1>7. f \in Answers(s) /\ DiffInv(s)
  BY <1>2 DEF Answers, IInv, SessionInv
<1>8. DiffInv(s)'
  BY <1>2, <1>6, <1>7 DEF DiffInv, Handshake
<1>9. ASSUME client[s].pc = "read" PROVE WhereInv(s)'
  <2> DEFINE c == log[ClientOf[s]]
             v == log[ServerOf[s]]
  <2>1. WhereInv(s)
    BY <1>9 DEF IInv, SessionInv
  <2>2. /\ server[s].ids \subseteq v /\ f.body \subseteq c
        /\ \A m \in client[s].had :
             IF BucketOf[m] \in server[s].differing
             THEN m \in server[s].ids \cup f.body
             ELSE m \in c \cap v
    BY <1>2, <1>7, <2>1 DEF WhereInv
  <2>3. client[s].had \subseteq v \cup wanted
    BY <2>2
  <2>4. client[s].had \subseteq c \cup Enveloped(out)
    BY <1>4, <2>2
  <2>5. Enveloped(out) \subseteq Enveloped(out \cup Wire(toClient[s]))
    BY EnvelopedMore
  <2>6. client[s].had \subseteq c \cup Enveloped(out \cup Wire(toClient[s]))
    BY <2>4, <2>5
  <2> QED
    BY <1>1, <1>2, <1>6, <2>1, <2>3, <2>6 DEF WhereInv, Handshake
<1> QED
  BY <1>1, <1>2, <1>6, <1>8, <1>9, ServerMoves, ServerTypes

(* A frame other than complete is sent while the envelopes go out.         *)
LEMMA ServerSendsOn ==
  ASSUME IInv, NEW s \in Session, NEW pc \in {"want", "stream"}, NEW f \in WireFrame,
         ServerSends(s, pc, f), f.kind # "complete",
         NEW z \in ServerState, server' = [server EXCEPT ![s] = z],
         z.pc = "stream", z.wanted = server[s].wanted, z.differing = server[s].differing,
         server[s].out \subseteq z.out \cup {f}
  PROVE  IInv'
<1>1. /\ server[s].pc = pc
      /\ toClient' \in [Session -> Seq(WireFrame)]
      /\ \A t \in Session : Len(toClient'[t]) <= BufferCap
      /\ \A t \in Session \ {s} : toClient'[t] = toClient[t]
      /\ Wire(toClient'[s]) = Wire(toClient[s]) \cup {f}
      /\ (\A g \in Wire(toClient[s]) : g.kind # "complete") => CompleteLast(toClient'[s])
      /\ log' = log /\ refused' = refused /\ client' = client
      /\ toServer' = toServer /\ failures' = failures
  BY ServerSent
<1>2. server'[s] = z
  BY DEF IInv, TypeInv
<1>3. DiffInv(s)'
  BY <1>1, <1>2 DEF IInv, SessionInv, DiffInv, Handshake
<1>4. ASSUME client[s].pc = "read" PROVE WhereInv(s)'
  <2>1. WhereInv(s)
    BY <1>4 DEF IInv, SessionInv
  <2>2. \A g \in Wire(toClient'[s]) : g.kind # "complete"
    BY <1>1, <2>1 DEF WhereInv
  <2>3. server[s].out \cup Wire(toClient[s]) \subseteq z.out \cup Wire(toClient'[s])
    BY <1>1
  <2>4. Enveloped(server[s].out \cup Wire(toClient[s]))
        \subseteq Enveloped(z.out \cup Wire(toClient'[s]))
    BY <2>3, EnvelopedMore
  <2>5. client[s].had \subseteq log[ClientOf[s]] \cup Enveloped(z.out \cup Wire(toClient'[s]))
    BY <1>1, <2>1, <2>4 DEF WhereInv
  <2> QED
    BY <1>1, <1>2, <2>1, <2>2, <2>5 DEF WhereInv, Handshake
<1> QED
  BY <1>1, <1>3, <1>4, ServerMoves, ServerTypes

LEMMA ServerWantKeeps ==
  ASSUME IInv, NEW s \in Session, ServerWant(s)
  PROVE  IInv'
<1> DEFINE f == Frame("want", server[s].wanted)
           z == [server[s] EXCEPT !.pc = "stream"]
<1>1. ServerSends(s, "want", f) /\ server' = [server EXCEPT ![s] = z]
  BY DEF ServerWant
<1>2. f \in WireFrame /\ f.kind = "want"
  BY ServerTypes, FrameFacts DEF ServerState
<1>3. /\ z \in ServerState /\ z.pc = "stream" /\ z.wanted = server[s].wanted
      /\ z.differing = server[s].differing /\ z.out = server[s].out
  BY ServerTypes DEF ServerState
<1> HIDE DEF f, z
<1> QED
  BY <1>1, <1>2, <1>3, ServerSendsOn

LEMMA ServerStreamKeeps ==
  ASSUME IInv, NEW s \in Session, ServerStream(s)
  PROVE  IInv'
<1>1. PICK f \in server[s].out :
        ServerSends(s, "stream", f) /\ server' = [server EXCEPT ![s].out = @ \ {f}]
  BY DEF ServerStream
<1> DEFINE z == [server[s] EXCEPT !.out = server[s].out \ {f}]
<1>2. server' = [server EXCEPT ![s] = z]
  BY <1>1
<1>3. server[s].pc = "stream"
  BY <1>1 DEF ServerSends
<1>4. /\ z \in ServerState /\ z.pc = "stream" /\ z.wanted = server[s].wanted
      /\ z.differing = server[s].differing /\ z.out = server[s].out \ {f}
      /\ f \in WireFrame /\ f.kind = "envelope"
  BY <1>3, ServerTypes DEF ServerState
<1> HIDE DEF z
<1> QED
  BY <1>1, <1>2, <1>4, ServerSendsOn

(* A wanted message leaves wanted when it is in the log.                   *)
LEMMA ServerCollectKeeps ==
  ASSUME IInv, NEW s \in Session, ServerCollect(s)
  PROVE  IInv'
<1> DEFINE f == Head(toServer[s])
<1>1. ServerTakes(s, "stream", "envelope")
  BY DEF ServerCollect
<1>2. PICK m \in f.body :
         IF m \in server[s].wanted /\ Accepts(ServerOf[s], m)
         THEN /\ append_message(ServerOf[s], m)
              /\ server' = [server EXCEPT ![s].wanted = @ \ {m}]
         ELSE server' = [server EXCEPT ![s] = IdleServer] /\ UNCHANGED log
  BY DEF ServerCollect
<1>3. /\ server[s].pc = "stream" /\ f \in WireFrame /\ f.kind = "envelope"
      /\ toServer' \in [Session -> Seq(WireFrame)]
      /\ \A t \in Session : Len(toServer'[t]) <= BufferCap
      /\ \A t \in Session \ {s} : toServer'[t] = toServer[t]
      /\ Wire(toServer'[s]) \subseteq Wire(toServer[s])
      /\ refused' = refused /\ client' = client /\ toClient' = toClient /\ failures' = failures
  BY <1>1, ServerTook
<1>4. m \in Message /\ ServerOf[s] \in Node /\ ClientOf[s] \in Node
  BY <1>3, SyncConstantsOK DEF WireFrame
<1> HIDE DEF f
<1>5. CASE m \in server[s].wanted /\ Accepts(ServerOf[s], m)
  <2> DEFINE z == [server[s] EXCEPT !.wanted = server[s].wanted \ {m}]
  <2>1. /\ log' \in [Node -> SUBSET Message] /\ Grows
        /\ log'[ServerOf[s]] = log[ServerOf[s]] \cup {m}
        /\ log[ClientOf[s]] \subseteq log'[ClientOf[s]]
    BY <1>2, <1>4, <1>5, Appended DEF IInv, Grows
  <2>2. server' = [server EXCEPT ![s] = z]
    BY <1>2, <1>5
  <2>3. /\ z \in ServerState /\ z.pc = "stream" /\ z.wanted = server[s].wanted \ {m}
        /\ z.differing = server[s].differing /\ z.out = server[s].out /\ server'[s] = z
    BY <1>3, <2>2, ServerTypes DEF ServerState, IInv, TypeInv
  <2> HIDE DEF z
  <2>4. DiffInv(s)'
    BY <1>3, <2>3 DEF IInv, SessionInv, DiffInv, Handshake
  <2>5. ASSUME client[s].pc = "read" PROVE WhereInv(s)'
    <3>1. WhereInv(s)
      BY <2>5 DEF IInv, SessionInv
    <3>2. client[s].had \subseteq log'[ServerOf[s]] \cup z.wanted
      BY <1>3, <2>1, <2>3, <3>1 DEF WhereInv
    <3>3. client[s].had \subseteq log'[ClientOf[s]] \cup Enveloped(z.out \cup Wire(toClient[s]))
      BY <1>3, <2>1, <2>3, <3>1 DEF WhereInv
    <3>4. \A g \in Wire(toClient[s]) : g.kind # "complete"
      BY <1>3, <3>1 DEF WhereInv
    <3> QED
      BY <1>3, <2>1, <2>3, <3>1, <3>2, <3>3, <3>4 DEF WhereInv, Handshake
  <2> QED
    BY <1>3, <2>1, <2>2, <2>3, <2>4, <2>5, ServerMoves, ServerTypes
<1>6. CASE ~(m \in server[s].wanted /\ Accepts(ServerOf[s], m))
  <2>1. server' = [server EXCEPT ![s] = IdleServer] /\ log' = log
    BY <1>2, <1>6
  <2>2. failures' \in 0..MaxFailures
    BY <1>3 DEF IInv, TypeInv
  <2> QED
    BY <1>3, <2>1, <2>2, ServerGoesIdle
<1> QED
  BY <1>5, <1>6

(* complete goes out only when nothing is wanted and every envelope is     *)
(* sent.                                                                   *)
LEMMA ServerCompleteKeeps ==
  ASSUME IInv, NEW s \in Session, ServerComplete(s)
  PROVE  IInv'
<1> DEFINE f == Frame("complete", {})
<1>1. /\ ServerSends(s, "stream", f) /\ server' = [server EXCEPT ![s] = IdleServer]
      /\ server[s].out = {} /\ server[s].wanted = {}
  BY DEF ServerComplete, Collecting
<1>2. f \in WireFrame /\ f.kind = "complete"
  BY FrameFacts
<1> HIDE DEF f
<1>3. /\ server[s].pc = "stream"
      /\ toClient' \in [Session -> Seq(WireFrame)]
      /\ \A t \in Session : Len(toClient'[t]) <= BufferCap
      /\ \A t \in Session \ {s} : toClient'[t] = toClient[t]
      /\ Wire(toClient'[s]) = Wire(toClient[s]) \cup {f}
      /\ (\A g \in Wire(toClient[s]) : g.kind # "complete") => CompleteLast(toClient'[s])
      /\ log' = log /\ refused' = refused /\ client' = client
      /\ toServer' = toServer /\ failures' = failures
  BY <1>1, <1>2, ServerSent
<1>4. IdleServer \in ServerState /\ IdleServer.pc = "idle" /\ IdleServer.wanted = {}
      /\ server'[s] = IdleServer
  BY <1>1 DEF IdleServer, ServerState, IInv, TypeInv
<1>5. DiffInv(s)'
  BY <1>4 DEF DiffInv, Handshake
<1>6. ASSUME client[s].pc = "read" PROVE WhereInv(s)'
  <2>1. WhereInv(s)
    BY <1>6 DEF IInv, SessionInv
  <2>2. /\ client[s].had \subseteq log[ServerOf[s]]
        /\ client[s].had \subseteq log[ClientOf[s]] \cup Enveloped({} \cup Wire(toClient[s]))
    BY <1>1, <1>3, <2>1 DEF WhereInv
  <2>3. Enveloped({} \cup Wire(toClient[s])) \subseteq Enveloped(Wire(toClient'[s]))
    BY <1>3, EnvelopedMore
  <2>4. CompleteLast(toClient'[s])
    BY <1>3, <2>1 DEF WhereInv
  <2> QED
    BY <1>3, <1>4, <2>1, <2>2, <2>3, <2>4 DEF WhereInv, Handshake
<1> QED
  BY <1>1, <1>3, <1>4, <1>5, <1>6, ServerMoves, ServerTypes

LEMMA ServerLeavesKeeps ==
  ASSUME IInv, NEW s \in Session, server' = [server EXCEPT ![s] = IdleServer],
         UNCHANGED <<log, refused, client, toServer, toClient>>,
         failures' \in 0..MaxFailures
  PROVE  IInv'
  BY ServerGoesIdle DEF IInv, TypeInv

LEMMA DisconnectKeeps ==
  ASSUME IInv, NEW s \in Session, Disconnect(s)
  PROVE  IInv'
<1>1. failures' \in 0..MaxFailures
  BY SyncConstantsOK DEF IInv, TypeInv, Disconnect
<1>2. CASE client' = [client EXCEPT ![s] = IdleClient] /\ UNCHANGED server
  BY <1>1, <1>2, ClientLeavesKeeps DEF Disconnect
<1>3. CASE server' = [server EXCEPT ![s] = IdleServer] /\ UNCHANGED client
  BY <1>1, <1>3, ServerLeavesKeeps DEF Disconnect
<1> QED
  BY <1>2, <1>3 DEF Disconnect

LEMMA ClientStepKeeps ==
  ASSUME IInv, NEW s \in Session, ClientStep(s)
  PROVE  IInv'
<1>1. CASE ClientClosed(s)
  BY <1>1, ClientLeavesKeeps DEF ClientClosed, IInv, TypeInv
<1> QED
  BY <1>1, ConnectKeeps, ClientSendKeeps, ClientHistoryKeeps, ClientKeySyncKeeps,
     ClientChunkDiffKeeps, ClientWantKeeps, ClientEnvelopeKeeps, ClientCompleteKeeps
  DEF ClientStep

LEMMA ServerStepKeeps ==
  ASSUME IInv, NEW s \in Session, ServerStep(s)
  PROVE  IInv'
<1>1. CASE ServerClosed(s)
  BY <1>1, ServerLeavesKeeps DEF ServerClosed, IInv, TypeInv
<1> QED
  BY <1>1, ServerStatusKeeps, ServerHandshakeKeeps, ServerKeySyncKeeps, ServerChunkDiffKeeps,
     ServerBatchKeeps, ServerWantKeeps, ServerStreamKeeps, ServerCollectKeeps,
     ServerCompleteKeeps
  DEF ServerStep

-----------------------------------------------------------------------------
(* The theorems.                                                           *)

LEMMA InitEstablishes == Init => IInv
<1> SUFFICES ASSUME Init PROVE IInv
  OBVIOUS
<1>1. /\ IdleClient \in ClientState /\ IdleServer \in ServerState
      /\ IdleClient.pc = "idle" /\ IdleServer.pc = "idle" /\ IdleServer.wanted = {}
  BY DEF IdleClient, IdleServer, ClientState, ServerState
<1>2. << >> \in Seq(WireFrame) /\ Len(<< >>) = 0 /\ 0 <= BufferCap /\ 0 \in 0..MaxFailures
  BY SyncConstantsOK
<1>3. TypeInv
  BY <1>1, <1>2, SyncConstantsOK DEF Init, TypeInv
<1>4. ASSUME NEW s \in Session PROVE SessionInv(s)
  BY <1>1 DEF Init, SessionInv, DiffInv, Handshake
<1> QED
  BY <1>3, <1>4 DEF IInv

LEMMA NextKeeps == IInv /\ [Next]_vars => IInv'
<1> SUFFICES ASSUME IInv, [Next]_vars PROVE IInv'
  OBVIOUS
<1>1. CASE UNCHANGED vars
  <2>1. TypeInv' /\ Grows
    BY <1>1 DEF vars, IInv, TypeInv, Grows
  <2>2. ASSUME NEW t \in Session PROVE SessionInv(t)'
    BY <1>1, <2>1, SessionInvStable DEF vars
  <2> QED
    BY <2>1, <2>2 DEF IInv
<1>2. ASSUME NEW n \in Node, NEW m \in Message, Post(n, m) PROVE IInv'
  BY <1>2, PostKeeps
<1>3. ASSUME NEW n \in Node, ChangePolicy(n) PROVE IInv'
  BY <1>3, ChangePolicyKeeps
<1>4. ASSUME NEW s \in Session, ClientStep(s) \/ ServerStep(s) PROVE IInv'
  BY <1>4, ClientStepKeeps, ServerStepKeeps
<1>5. ASSUME NEW s \in Session, Timeout(s) PROVE IInv'
  BY <1>5, ClientLeavesKeeps DEF Timeout, IInv, TypeInv
<1>6. ASSUME NEW s \in Session, Disconnect(s) PROVE IInv'
  BY <1>6, DisconnectKeeps
<1> QED
  BY <1>1, <1>2, <1>3, <1>4, <1>5, <1>6 DEF Next

(* The states of both ends, the queues within the capacity of the          *)
(* connection, and no message wanted that lies outside the buckets found   *)
(* to differ (run_sync, sync_from_peer_inner).                             *)
THEOREM SyncTypes == Spec => []TypeOK
<1>1. IInv => TypeOK
  <2> SUFFICES ASSUME IInv, NEW s \in Session
               PROVE  /\ client[s] \in ClientState /\ server[s] \in ServerState
                      /\ \A m \in server[s].wanted : BucketOf[m] \in server[s].differing
    BY DEF IInv, TypeInv, TypeOK, ClientState, ServerState, Handshake
  <2> QED
    BY DEF IInv, TypeInv, SessionInv, DiffInv
<1> QED
  BY <1>1, InitEstablishes, NextKeeps, PTL DEF Spec

(* A client that sync_from_peer_inner reports success to, and its server,  *)
(* both hold what either held when the session began: whatever is posted,  *)
(* brought by other sessions or refused in between, and whichever          *)
(* connections are lost.                                                   *)
THEOREM SyncConverges == Spec => []CompleteIsConverged
<1>1. IInv => CompleteIsConverged
  BY DEF IInv, SessionInv, CompleteIsConverged
<1> QED
  BY <1>1, InitEstablishes, NextKeeps, PTL DEF Spec

-----------------------------------------------------------------------------
(* A step of a session leaves the other sessions alone, and logs grow.     *)

LEMMA ClientIsLocal ==
  ASSUME IInv, NEW s \in Session, ClientStep(s)
  PROVE  Only(s) /\ Grows
<1>1. /\ client \in [Session -> ClientState] /\ server \in [Session -> ServerState]
      /\ toServer \in [Session -> Seq(WireFrame)] /\ toClient \in [Session -> Seq(WireFrame)]
  BY DEF IInv, TypeInv
<1>2. CASE Connect(s)
  BY <1>1, <1>2 DEF Connect, Only, Grows
<1>3. CASE ClientSend(s)
  BY <1>1, <1>3 DEF ClientSend, Only, Grows
<1>4. CASE ClientHistory(s)
  BY <1>1, <1>4 DEF ClientHistory, ClientTakes, Only, Grows
<1>5. CASE ClientKeySync(s)
  BY <1>1, <1>5 DEF ClientKeySync, ClientTakes, Only, Grows
<1>6. CASE ClientChunkDiff(s)
  BY <1>1, <1>6 DEF ClientChunkDiff, ClientTakes, Only, Grows
<1>7. CASE ClientWant(s)
  BY <1>1, <1>7 DEF ClientWant, ClientTakes, Only, Grows
<1>8. CASE ClientEnvelope(s)
  <2>1. Only(s)
    BY <1>1, <1>8 DEF ClientEnvelope, ClientTakes, Only
  <2>2. Head(toClient[s]) \in WireFrame /\ Head(toClient[s]).kind = "envelope"
    BY <1>8, ClientTook DEF ClientEnvelope
  <2>3. PICK m \in Head(toClient[s]).body : append_message(ClientOf[s], m) \/ UNCHANGED log
    BY <1>8 DEF ClientEnvelope
  <2>4. m \in Message /\ ClientOf[s] \in Node
    BY <2>2, SyncConstantsOK DEF WireFrame
  <2>5. Grows
    BY <2>3, <2>4, Appended DEF Grows, IInv
  <2> QED
    BY <2>1, <2>5
<1>9. CASE ClientComplete(s)
  BY <1>1, <1>9 DEF ClientComplete, ClientTakes, Only, Grows
<1>10. CASE ClientClosed(s)
  BY <1>1, <1>10 DEF ClientClosed, Only, Grows
<1> QED
  BY <1>2, <1>3, <1>4, <1>5, <1>6, <1>7, <1>8, <1>9, <1>10 DEF ClientStep

LEMMA ServerIsLocal ==
  ASSUME IInv, NEW s \in Session, ServerStep(s)
  PROVE  Only(s) /\ Grows
<1>1. /\ client \in [Session -> ClientState] /\ server \in [Session -> ServerState]
      /\ toServer \in [Session -> Seq(WireFrame)] /\ toClient \in [Session -> Seq(WireFrame)]
  BY DEF IInv, TypeInv
<1>2. CASE ServerStatus(s)
  BY <1>1, <1>2 DEF ServerStatus, ServerTakes, Only, Grows
<1>3. CASE ServerHandshake(s)
  BY <1>1, <1>3 DEF ServerHandshake, ServerSends, Only, Grows
<1>4. CASE ServerKeySync(s)
  BY <1>1, <1>4 DEF ServerKeySync, ServerTakes, Only, Grows
<1>5. CASE ServerChunkDiff(s)
  BY <1>1, <1>5 DEF ServerChunkDiff, ServerSends, Only, Grows
<1>6. CASE ServerBatch(s)
  BY <1>1, <1>6 DEF ServerBatch, ServerTakes, Only, Grows
<1>7. CASE ServerWant(s)
  BY <1>1, <1>7 DEF ServerWant, ServerSends, Only, Grows
<1>8. CASE ServerStream(s)
  BY <1>1, <1>8 DEF ServerStream, ServerSends, Only, Grows
<1>9. CASE ServerCollect(s)
  <2>1. Only(s)
    BY <1>1, <1>9 DEF ServerCollect, ServerTakes, Only
  <2>2. Head(toServer[s]) \in WireFrame /\ Head(toServer[s]).kind = "envelope"
    BY <1>9, ServerTook DEF ServerCollect
  <2>3. PICK m \in Head(toServer[s]).body : append_message(ServerOf[s], m) \/ UNCHANGED log
    BY <1>9 DEF ServerCollect
  <2>4. m \in Message /\ ServerOf[s] \in Node
    BY <2>2, SyncConstantsOK DEF WireFrame
  <2>5. Grows
    BY <2>3, <2>4, Appended DEF Grows, IInv
  <2> QED
    BY <2>1, <2>5
<1>10. CASE ServerComplete(s)
  BY <1>1, <1>10 DEF ServerComplete, ServerSends, Only, Grows
<1>11. CASE ServerClosed(s)
  BY <1>1, <1>11 DEF ServerClosed, Only, Grows
<1> QED
  BY <1>2, <1>3, <1>4, <1>5, <1>6, <1>7, <1>8, <1>9, <1>10, <1>11 DEF ServerStep

LEMMA LossIsLocal ==
  ASSUME IInv, NEW s \in Session, Timeout(s) \/ Disconnect(s)
  PROVE  /\ Only(s) /\ log' = log /\ refused' = refused
         /\ toServer' = toServer /\ toClient' = toClient
         /\ \/ client'[s] = IdleClient /\ server'[s] = server[s]
            \/ server'[s] = IdleServer /\ client'[s] = client[s]
  BY DEF Timeout, Disconnect, Only, IInv, TypeInv

-----------------------------------------------------------------------------
(* Queues, once more.                                                      *)

LEMMA QueueTail ==
  ASSUME NEW q \in Seq(WireFrame), q # << >>
  PROVE  /\ Len(q) \in Nat /\ Len(q) >= 1 /\ Head(q) = q[1]
         /\ Tail(q) \in Seq(WireFrame) /\ Len(Tail(q)) = Len(q) - 1
         /\ \A i \in 1..(Len(q) - 1) : Tail(q)[i] = q[i + 1]
         /\ Len(q) = 1 <=> Tail(q) = << >>
<1>1. /\ Len(q) \in Nat /\ Len(q) >= 1 /\ Head(q) = q[1]
      /\ Tail(q) \in Seq(WireFrame) /\ Len(Tail(q)) = Len(q) - 1
      /\ \A i \in 1..Len(Tail(q)) : Tail(q)[i] = q[i + 1]
  OBVIOUS
<1>2. ASSUME NEW t \in Seq(WireFrame) PROVE Len(t) = 0 <=> t = << >>
  OBVIOUS
<1> QED
  BY <1>1, <1>2

LEMMA QueueAppend ==
  ASSUME NEW q \in Seq(WireFrame), NEW f \in WireFrame
  PROVE  /\ Len(q) \in Nat /\ Len(Append(q, f)) = Len(q) + 1
         /\ Append(q, f) \in Seq(WireFrame) /\ Append(q, f) # << >>
         /\ \A i \in 1..Len(q) : Append(q, f)[i] = q[i]
         /\ Append(q, f)[Len(q) + 1] = f
         /\ q = << >> => Append(q, f) = <<f>>
<1>1. /\ Len(q) \in Nat /\ Append(q, f) \in Seq(WireFrame)
      /\ Len(Append(q, f)) = Len(q) + 1
      /\ \A i \in 1..Len(q) : Append(q, f)[i] = q[i]
      /\ Append(q, f)[Len(q) + 1] = f
  OBVIOUS
<1>2. q = << >> => Append(q, f) = <<f>>
  OBVIOUS
<1>3. Append(q, f) # << >>
  BY <1>1
<1> QED
  BY <1>1, <1>2, <1>3

LEMMA WireEmpty ==
  ASSUME NEW q \in Seq(WireFrame)
  PROVE  q = << >> <=> Wire(q) = {}
<1>1. Len(q) \in Nat /\ (q = << >> <=> Len(q) = 0)
  OBVIOUS
<1>2. Len(q) # 0 => q[1] \in Wire(q)
  BY <1>1 DEF Wire
<1>3. Len(q) = 0 => Wire(q) = {}
  BY DEF Wire
<1> QED
  BY <1>1, <1>2, <1>3

-----------------------------------------------------------------------------
(* The order of the frames.                                                *)

Envelope == {Frame("envelope", {m}) : m \in Message}

(* The envelopes under way to the server, and to the client.               *)
Uploads(s) == client[s].out \cup Wire(toServer[s])
Downloads(s) == server[s].out \cup Wire(toClient[s])

Distinct(q) == \A i, j \in 1..Len(q) : q[i] = q[j] => i = j

(* Nothing is under way, and the client has nothing to say.                *)
Quiet(s) == client[s].out = {} /\ toServer[s] = << >>

(* The server has asked and waits: the question is under way behind        *)
(* frames that need no answer, or the answer is ready, or under way, or    *)
(* the client is gone.                                                     *)
Asking(s, before, question, answer) ==
    LET r == toClient[s]
        q == toServer[s]
        out == client[s].out
    IN  \/ /\ Quiet(s)
           /\ r # << >> /\ r[Len(r)].kind = question
           /\ \A i \in 1..(Len(r) - 1) : r[i].kind \in before
        \/ /\ r = << >> /\ q = << >>
           /\ \E f \in out : out = {f} /\ f.kind = answer
        \/ r = << >> /\ out = {} /\ Len(q) = 1 /\ q[1].kind = answer
        \/ Quiet(s) /\ client[s].pc = "idle"

(* The envelopes go both ways: want is the first frame to the client, and  *)
(* only when it has been read does the client upload what is wanted.       *)
Streaming(s) ==
    LET r == toClient[s]
        q == toServer[s]
    IN  /\ \/ /\ Quiet(s)
              /\ r # << >> /\ r[1] = Frame("want", server[s].wanted)
              /\ \A i \in 2..Len(r) : r[i] \in Envelope
           \/ /\ Wire(r) \subseteq Envelope
              /\ client[s].pc = "read" => server[s].wanted \subseteq Enveloped(Uploads(s))
        /\ Uploads(s) \subseteq Envelopes(server[s].wanted)
        /\ Distinct(q) /\ client[s].out \cap Wire(q) = {}
        /\ server[s].out \subseteq Envelope
        /\ Distinct(r) /\ server[s].out \cap Wire(r) = {}

PhaseInv(s) ==
    LET z == server[s].pc
        r == toClient[s]
    IN  /\ z = "status" =>
             /\ client[s].out = {} /\ r = << >>
             /\ Len(toServer[s]) = 1 /\ toServer[s][1].kind = "status"
        /\ z \in {"policy_sync", "moderation_sync", "key_sync"} =>
             Quiet(s) /\ \A f \in Wire(r) : f.kind \in {"policy_sync", "moderation_sync"}
        /\ z = "keys" => Asking(s, {"policy_sync", "moderation_sync"}, "key_sync", "key_sync")
        /\ z = "batch" => Asking(s, {}, "chunk_diff", "chunk_ids")
        /\ z \in {"chunk_diff", "want"} => Quiet(s) /\ r = << >>
        /\ z = "want" => server[s].out \subseteq Envelope
        /\ z = "stream" => Streaming(s)

LEMMA DistinctTail ==
  ASSUME NEW q \in Seq(WireFrame), q # << >>, Distinct(q)
  PROVE  Distinct(Tail(q)) /\ Wire(Tail(q)) = Wire(q) \ {Head(q)}
<1> DEFINE t == Tail(q)
           n == Len(q)
<1>1. /\ n \in Nat /\ n >= 1 /\ Head(q) = q[1] /\ Len(t) = n - 1
      /\ \A i \in 1..(n - 1) : t[i] = q[i + 1]
      /\ Wire(q) = {Head(q)} \cup Wire(t)
  BY QueueTail, WireTail
<1>2. \A i, j \in 1..n : q[i] = q[j] => i = j
  BY DEF Distinct
<1> HIDE DEF t, n
<1>3. ASSUME NEW i \in 1..(n - 1), NEW j \in 1..(n - 1), t[i] = t[j] PROVE i = j
  <2>1. i + 1 \in 1..n /\ j + 1 \in 1..n /\ q[i + 1] = q[j + 1]
    BY <1>1, <1>3
  <2>2. i + 1 = j + 1
    BY <1>2, <2>1
  <2> QED
    BY <1>1, <2>2
<1>4. ASSUME NEW i \in 1..(n - 1), t[i] = q[1] PROVE FALSE
  <2>1. i + 1 \in 1..n /\ 1 \in 1..n /\ q[i + 1] = q[1]
    BY <1>1, <1>4
  <2>2. i + 1 = 1
    BY <1>2, <2>1
  <2> QED
    BY <1>1, <2>2
<1>5. Head(q) \notin Wire(t)
  BY <1>1, <1>4 DEF Wire
<1>6. Distinct(t)
  BY <1>1, <1>3 DEF Distinct
<1> QED
  BY <1>1, <1>5, <1>6 DEF t

LEMMA DistinctAppend ==
  ASSUME NEW q \in Seq(WireFrame), NEW f \in WireFrame, Distinct(q), f \notin Wire(q)
  PROVE  Distinct(Append(q, f))
<1>1. /\ Len(q) \in Nat /\ Len(Append(q, f)) = Len(q) + 1
      /\ \A i \in 1..Len(q) : Append(q, f)[i] = q[i]
      /\ Append(q, f)[Len(q) + 1] = f
  BY QueueAppend
<1>2. /\ \A i, j \in 1..Len(q) : q[i] = q[j] => i = j
      /\ \A i \in 1..Len(q) : q[i] # f
  BY DEF Distinct, Wire
<1>3. \A i \in 1..(Len(q) + 1) : i \in 1..Len(q) \/ i = Len(q) + 1
  BY <1>1
<1> QED
  BY <1>1, <1>2, <1>3 DEF Distinct

-----------------------------------------------------------------------------
(* Each step keeps to the order.                                           *)

(* The states of one session.                                              *)
LEMMA SessionTypes ==
  ASSUME TypeInv, NEW s \in Session
  PROVE  /\ client[s] \in ClientState /\ server[s] \in ServerState
         /\ toServer[s] \in Seq(WireFrame) /\ toClient[s] \in Seq(WireFrame)
         /\ Len(toServer[s]) \in Nat /\ Len(toClient[s]) \in Nat
  BY DEF TypeInv

(* A client that goes on says nothing more, or is gone for good.           *)
LEMMA PhaseLost ==
  ASSUME IInv, NEW s \in Session, PhaseInv(s),
         toServer'[s] = toServer[s], toClient'[s] = toClient[s],
         server'[s] = server[s], client'[s] = IdleClient
  PROVE  PhaseInv(s)'
<1>1. client'[s].pc = "idle" /\ client'[s].out = {}
  BY DEF IdleClient
<1>2. Quiet(s) => Quiet(s)'
  BY <1>1 DEF Quiet
<1>3. \A before, question, answer :
         Asking(s, before, question, answer) => Asking(s, before, question, answer)'
  BY <1>1, <1>2 DEF Asking, Quiet
<1>4. Streaming(s) => Streaming(s)'
  BY <1>1, <1>2 DEF Streaming, Uploads
<1> QED
  BY <1>1, <1>2, <1>3, <1>4 DEF PhaseInv

(* A server that has gone expects nothing.                                 *)
LEMMA PhaseIdle ==
  ASSUME NEW s \in Session, server'[s].pc = "idle"
  PROVE  PhaseInv(s)'
  BY DEF PhaseInv

LEMMA EnvelopeShape ==
  ASSUME NEW f \in Envelope
  PROVE  /\ f \in WireFrame /\ f.kind = "envelope"
         /\ \E m \in Message : f.body = {m} /\ f = Frame("envelope", {m})
<1>1. PICK m \in Message : f = Frame("envelope", {m})
  BY DEF Envelope
<1>2. f.kind = "envelope" /\ f.body = {m} /\ f \in WireFrame
  BY <1>1, FrameFacts
<1> QED
  BY <1>1, <1>2

LEMMA PhaseSend ==
  ASSUME IInv, NEW s \in Session, PhaseInv(s), ClientSend(s)
  PROVE  PhaseInv(s)'
<1> DEFINE q == toServer[s]
           out == client[s].out
<1>1. PICK f \in client[s].out :
         /\ toServer' = [toServer EXCEPT ![s] = Append(@, f)]
         /\ client' = [client EXCEPT ![s].out = @ \ {f}]
  BY DEF ClientSend
<1>2. /\ client[s].pc = "read" /\ q \in Seq(WireFrame) /\ out \subseteq WireFrame /\ f \in out
      /\ server'[s] = server[s] /\ toClient'[s] = toClient[s]
      /\ toServer'[s] = Append(q, f) /\ client'[s].pc = "read" /\ client'[s].out = out \ {f}
  BY <1>1, SessionTypes DEF ClientSend, IInv, TypeInv, ClientState, Answer
<1>3. /\ Len(q) \in Nat /\ Len(Append(q, f)) = Len(q) + 1
      /\ Append(q, f)[Len(q) + 1] = f /\ Wire(Append(q, f)) = Wire(q) \cup {f}
  BY <1>2, QueueAppend, WireAppend
<1> HIDE DEF q, out
<1>4. ~Quiet(s)
  BY <1>2 DEF Quiet, out
<1>5. ASSUME NEW before, NEW question, NEW answer, Asking(s, before, question, answer)
      PROVE  Asking(s, before, question, answer)'
  <2>1. toClient[s] = << >> /\ q = << >> /\ out = {f} /\ f.kind = answer
    BY <1>2, <1>4, <1>5 DEF Asking, q, out
  <2>2. Len(q) = 0
    BY <2>1
  <2> QED
    BY <1>2, <1>3, <2>1, <2>2 DEF Asking
<1>6. ASSUME Streaming(s) PROVE Streaming(s)'
  <2>1. Uploads(s)' = Uploads(s)
    BY <1>2, <1>3 DEF Uploads, q, out
  <2>2. Distinct(q) /\ out \cap Wire(q) = {}
    BY <1>6 DEF Streaming, q, out
  <2>3. Distinct(Append(q, f))
    BY <1>2, <2>2, DistinctAppend
  <2>4. (out \ {f}) \cap Wire(Append(q, f)) = {}
    BY <1>3, <2>2
  <2> QED
    BY <1>2, <1>4, <1>6, <2>1, <2>3, <2>4 DEF Streaming
<1> QED
  BY <1>2, <1>4, <1>5, <1>6 DEF PhaseInv, out

(* Which frame the client can find, by what the server does.               *)
LEMMA PhaseTakes ==
  ASSUME IInv, NEW s \in Session, PhaseInv(s), NEW kind, ClientTakes(s, kind)
  PROVE  LET r == toClient[s]
             z == server[s].pc
         IN  /\ client[s].pc = "read" /\ client[s].out = {}
             /\ r \in Seq(WireFrame) /\ r # << >> /\ r[1].kind = kind /\ Head(r) = r[1]
             /\ toClient'[s] = Tail(r) /\ server'[s] = server[s] /\ toServer'[s] = toServer[s]
             /\ z \in {"policy_sync", "moderation_sync", "key_sync"} =>
                  Quiet(s) /\ kind \in {"policy_sync", "moderation_sync"}
             /\ z = "keys" =>
                  /\ Quiet(s) /\ r[Len(r)].kind = "key_sync"
                  /\ \A i \in 1..(Len(r) - 1) : r[i].kind \in {"policy_sync", "moderation_sync"}
                  /\ IF Len(r) = 1 THEN kind = "key_sync"
                                   ELSE kind \in {"policy_sync", "moderation_sync"}
             /\ z = "batch" => Quiet(s) /\ kind = "chunk_diff" /\ Len(r) = 1
             /\ z = "stream" =>
                  \/ /\ kind = "want" /\ Quiet(s) /\ r[1] = Frame("want", server[s].wanted)
                     /\ \A i \in 2..Len(r) : r[i] \in Envelope
                  \/ /\ kind = "envelope" /\ Wire(r) \subseteq Envelope
                     /\ server[s].wanted \subseteq Enveloped(Uploads(s))
             /\ z \notin {"status", "chunk_diff", "want"}
<1> DEFINE r == toClient[s]
           z == server[s].pc
<1>1. /\ client[s].pc = "read" /\ client[s].out = {}
      /\ r \in Seq(WireFrame) /\ r # << >> /\ Head(r).kind = kind
      /\ toClient'[s] = Tail(r) /\ server'[s] = server[s] /\ toServer'[s] = toServer[s]
  BY DEF ClientTakes, IInv, TypeInv
<1>2. Len(r) \in Nat /\ Len(r) >= 1 /\ Head(r) = r[1] /\ r[1] \in Wire(r)
  BY <1>1, QueueTail DEF Wire
<1> HIDE DEF r
<1>3. CASE z \in {"policy_sync", "moderation_sync", "key_sync"}
  BY <1>1, <1>2, <1>3 DEF PhaseInv, r
<1>4. CASE z = "keys"
  <2>1. /\ Quiet(s) /\ r[Len(r)].kind = "key_sync"
        /\ \A i \in 1..(Len(r) - 1) : r[i].kind \in {"policy_sync", "moderation_sync"}
    BY <1>1, <1>4 DEF PhaseInv, Asking, r
  <2>2. Len(r) # 1 => 1 \in 1..(Len(r) - 1)
    <3>1. \A n \in Nat : n >= 1 /\ n # 1 => 1 \in 1..(n - 1)
      OBVIOUS
    <3> QED
      BY <1>2, <3>1
  <2>3. IF Len(r) = 1 THEN kind = "key_sync" ELSE kind \in {"policy_sync", "moderation_sync"}
    BY <1>1, <1>2, <2>1, <2>2
  <2> QED
    BY <1>1, <1>2, <1>4, <2>1, <2>3 DEF r
<1>5. CASE z = "batch"
  <2>1. /\ Quiet(s) /\ r[Len(r)].kind = "chunk_diff"
        /\ \A i \in 1..(Len(r) - 1) : r[i].kind \in {}
    BY <1>1, <1>5 DEF PhaseInv, Asking, r
  <2>2. Len(r) # 1 => 1 \in 1..(Len(r) - 1)
    <3>1. \A n \in Nat : n >= 1 /\ n # 1 => 1 \in 1..(n - 1)
      OBVIOUS
    <3> QED
      BY <1>2, <3>1
  <2>3. Len(r) = 1
    BY <2>1, <2>2
  <2> QED
    BY <1>1, <1>2, <1>5, <2>1, <2>3 DEF r
<1>6. CASE z = "stream"
  <2>1. CASE /\ Quiet(s) /\ r[1] = Frame("want", server[s].wanted)
             /\ \A i \in 2..Len(r) : r[i] \in Envelope
    BY <1>1, <1>2, <1>6, <2>1, FrameFacts DEF r
  <2>2. CASE Wire(r) \subseteq Envelope /\ server[s].wanted \subseteq Enveloped(Uploads(s))
    <3>1. r[1].kind = "envelope"
      BY <1>2, <2>2, EnvelopeShape
    <3> QED
      BY <1>1, <1>2, <1>6, <2>2, <3>1 DEF r
  <2> QED
    BY <1>1, <1>6, <2>1, <2>2 DEF PhaseInv, Streaming, r
<1>7. CASE z \notin {"policy_sync", "moderation_sync", "key_sync", "keys", "batch", "stream"}
  BY <1>1, <1>2, <1>7 DEF PhaseInv, r
<1> QED
  BY <1>3, <1>4, <1>5, <1>6, <1>7

LEMMA PhaseHistory ==
  ASSUME IInv, NEW s \in Session, PhaseInv(s), ClientHistory(s)
  PROVE  PhaseInv(s)'
<1> DEFINE r == toClient[s]
<1>1. PICK kind \in {"policy_sync", "moderation_sync"} : ClientTakes(s, kind)
  BY DEF ClientHistory
<1>2. /\ client[s].out = {} /\ client'[s] = client[s]
      /\ r \in Seq(WireFrame) /\ r # << >> /\ r[1].kind = kind
      /\ toClient'[s] = Tail(r) /\ server'[s] = server[s] /\ toServer'[s] = toServer[s]
      /\ server[s].pc \notin {"status", "chunk_diff", "want", "batch", "stream"}
  BY <1>1, PhaseTakes DEF ClientHistory
<1>3. Quiet(s) => Quiet(s)'
  BY <1>2 DEF Quiet
<1>4. CASE server[s].pc \in {"policy_sync", "moderation_sync", "key_sync"}
  <2>1. Quiet(s) /\ \A f \in Wire(r) : f.kind \in {"policy_sync", "moderation_sync"}
    BY <1>4 DEF PhaseInv
  <2>2. Wire(Tail(r)) \subseteq Wire(r)
    BY <1>2, WireTail
  <2> QED
    BY <1>2, <1>3, <1>4, <2>1, <2>2 DEF PhaseInv
<1>5. CASE server[s].pc = "keys"
  <2>1. /\ Quiet(s) /\ r[Len(r)].kind = "key_sync" /\ Len(r) # 1
        /\ \A i \in 1..(Len(r) - 1) : r[i].kind \in {"policy_sync", "moderation_sync"}
    BY <1>1, <1>5, PhaseTakes
  <2>2. /\ Len(r) \in Nat /\ Len(r) >= 1 /\ Tail(r) \in Seq(WireFrame)
        /\ Len(Tail(r)) = Len(r) - 1 /\ \A i \in 1..(Len(r) - 1) : Tail(r)[i] = r[i + 1]
    BY <1>2, QueueTail
  <2> DEFINE t == Tail(r)
  <2> HIDE DEF r
  <2>3. t[Len(t)].kind = "key_sync" /\ t # << >>
    <3>1. Len(r) - 1 \in 1..(Len(r) - 1) /\ (Len(r) - 1) + 1 = Len(r)
      BY <2>1, <2>2
    <3>2. t[Len(t)] = r[Len(r)]
      BY <2>2, <3>1
    <3>3. t # << >>
      BY <1>2, <2>1, QueueTail
    <3>4. t[Len(t)].kind = "key_sync"
      BY <2>1, <3>2
    <3> QED
      BY <3>3, <3>4
  <2>4. \A i \in 1..(Len(t) - 1) : t[i].kind \in {"policy_sync", "moderation_sync"}
    BY <2>1, <2>2
  <2>5. Asking(s, {"policy_sync", "moderation_sync"}, "key_sync", "key_sync")'
    BY <1>2, <1>3, <2>1, <2>3, <2>4 DEF Asking
  <2> QED
    BY <1>2, <1>5, <2>5 DEF PhaseInv
<1> QED
  BY <1>2, <1>4, <1>5 DEF PhaseInv

(* The client has the answer ready.                                        *)
LEMMA PhaseAnswers ==
  ASSUME IInv, NEW s \in Session, PhaseInv(s),
         NEW pc, NEW question, NEW answer, NEW f,
         <<pc, question, answer>> \in {<<"keys", "key_sync", "key_sync">>,
                                       <<"batch", "chunk_diff", "chunk_ids">>},
         ClientTakes(s, question), f.kind = answer,
         client'[s].pc = "read", client'[s].out = {f}
  PROVE  PhaseInv(s)'
<1>0. \/ pc = "keys" /\ question = "key_sync" /\ answer = "key_sync"
      \/ pc = "batch" /\ question = "chunk_diff" /\ answer = "chunk_ids"
  OBVIOUS
<1>1. /\ toClient[s] \in Seq(WireFrame) /\ toClient[s] # << >> /\ toClient'[s] = Tail(toClient[s])
      /\ server'[s] = server[s] /\ toServer'[s] = toServer[s]
      /\ server[s].pc \in {"policy_sync", "moderation_sync", "key_sync"} =>
           question \in {"policy_sync", "moderation_sync"}
      /\ server[s].pc = "keys" =>
           /\ Quiet(s)
           /\ Len(toClient[s]) # 1 => question \in {"policy_sync", "moderation_sync"}
           /\ Len(toClient[s]) = 1 => question = "key_sync"
      /\ server[s].pc = "batch" => Quiet(s) /\ question = "chunk_diff" /\ Len(toClient[s]) = 1
      /\ server[s].pc = "stream" => question \in {"want", "envelope"}
      /\ server[s].pc \notin {"status", "chunk_diff", "want"}
  BY PhaseTakes
<1>2. server[s].pc \notin {"status", "chunk_diff", "want", "policy_sync", "moderation_sync",
                           "key_sync", "stream"}
  BY <1>0, <1>1
<1>3. ASSUME server[s].pc \in {"keys", "batch"}
      PROVE  server[s].pc = pc /\ Quiet(s) /\ Len(toClient[s]) = 1
  BY <1>0, <1>1, <1>3
<1>4. ASSUME server[s].pc \in {"keys", "batch"}, NEW before
      PROVE  Asking(s, before, question, answer)'
  <2>1. toClient'[s] = << >> /\ toServer'[s] = << >>
    BY <1>1, <1>3, <1>4, QueueTail DEF Quiet
  <2> QED
    BY <2>1 DEF Asking
<1> QED
  BY <1>0, <1>1, <1>2, <1>3, <1>4 DEF PhaseInv

LEMMA PhaseClientAnswers ==
  ASSUME IInv, NEW s \in Session, PhaseInv(s), ClientKeySync(s) \/ ClientChunkDiff(s)
  PROVE  PhaseInv(s)'
<1>1. ASSUME NEW kind, ClientTakes(s, kind), NEW x \in SUBSET Answer,
             client' = [client EXCEPT ![s].out = x]
      PROVE  client'[s].pc = "read" /\ client'[s].out = x
  BY <1>1 DEF ClientTakes, IInv, TypeInv, ClientState
<1>2. CASE ClientKeySync(s)
  <2>1. Frame("key_sync", {}) \in Answer /\ Frame("key_sync", {}).kind = "key_sync"
    BY FrameFacts DEF Answer
  <2>2. ClientTakes(s, "key_sync") /\ client' = [client EXCEPT ![s].out = {Frame("key_sync", {})}]
    BY <1>2 DEF ClientKeySync
  <2>3. client'[s].pc = "read" /\ client'[s].out = {Frame("key_sync", {})}
    BY <1>1, <2>1, <2>2
  <2> QED
    BY <2>1, <2>2, <2>3, PhaseAnswers
<1>3. CASE ClientChunkDiff(s)
  <2> DEFINE ids == chunk_ids(log[ClientOf[s]], Head(toClient[s]).body)
  <2>0. ids \in SUBSET Message
    BY SyncConstantsOK DEF chunk_ids, IInv, TypeInv
  <2>1. Frame("chunk_ids", ids) \in Answer /\ Frame("chunk_ids", ids).kind = "chunk_ids"
    BY <2>0, FrameFacts DEF Answer
  <2>2. /\ ClientTakes(s, "chunk_diff")
        /\ client' = [client EXCEPT ![s].out = {Frame("chunk_ids", ids)}]
    BY <1>3 DEF ClientChunkDiff
  <2>3. client'[s].pc = "read" /\ client'[s].out = {Frame("chunk_ids", ids)}
    BY <1>1, <2>1, <2>2
  <2> QED
    BY <2>1, <2>2, <2>3, PhaseAnswers
<1> QED
  BY <1>2, <1>3

(* What is wanted is asked for once, and uploaded once.                    *)
LEMMA PhaseWant ==
  ASSUME IInv, NEW s \in Session, PhaseInv(s), ClientWant(s)
  PROVE  PhaseInv(s)'
<1> DEFINE r == toClient[s]
           wanted == server[s].wanted
<1>1. /\ ClientTakes(s, "want") /\ Head(r).kind = "want" /\ Head(r) \in WireFrame
      /\ client' = [client EXCEPT ![s].out = Envelopes(Head(r).body)]
  BY ClientTook DEF ClientWant
<1>2. Envelopes(Head(r).body) \in SUBSET Answer
  BY <1>1, EnvelopeFacts DEF WireFrame, Answer
<1>3. client'[s].pc = "read" /\ client'[s].out = Envelopes(Head(r).body)
  BY <1>1, <1>2 DEF ClientTakes, IInv, TypeInv, ClientState
<1>4. /\ r \in Seq(WireFrame) /\ r # << >> /\ Head(r) = r[1]
      /\ toClient'[s] = Tail(r) /\ server'[s] = server[s] /\ toServer'[s] = toServer[s]
      /\ server[s].pc \notin {"status", "chunk_diff", "want", "policy_sync", "moderation_sync",
                              "key_sync", "keys", "batch"}
      /\ server[s].pc = "stream" =>
           /\ Quiet(s) /\ r[1] = Frame("want", wanted)
           /\ \A i \in 2..Len(r) : r[i] \in Envelope
  BY <1>1, PhaseTakes
<1> HIDE DEF r
<1>5. ASSUME server[s].pc = "stream" PROVE Streaming(s)'
  <2>1. /\ toServer'[s] = << >> /\ Wire(toServer'[s]) = {}
        /\ client'[s].out = Envelopes(wanted)
    BY <1>3, <1>4, <1>5, FrameFacts, WireEmpty, SessionTypes DEF Quiet, IInv
  <2>2. Uploads(s)' = Envelopes(wanted)
    BY <2>1 DEF Uploads
  <2>3. wanted \subseteq Enveloped(Envelopes(wanted))
    BY EnvelopeFacts, SessionTypes DEF IInv, ServerState
  <2>4. /\ Len(r) \in Nat /\ Len(Tail(r)) = Len(r) - 1
        /\ \A i \in 1..(Len(r) - 1) : Tail(r)[i] = r[i + 1]
    BY <1>4, QueueTail
  <2>5. Wire(Tail(r)) \subseteq Envelope
    <3>1. ASSUME NEW i \in 1..(Len(r) - 1) PROVE i + 1 \in 2..Len(r)
      BY <2>4
    <3> QED
      BY <1>4, <1>5, <2>4, <3>1 DEF Wire
  <2>6. Streaming(s)
    BY <1>5 DEF PhaseInv
  <2>7. Distinct(Tail(r)) /\ Wire(Tail(r)) \subseteq Wire(r)
    BY <1>4, <2>6, DistinctTail DEF Streaming, r
  <2> QED
    BY <1>4, <2>1, <2>2, <2>3, <2>5, <2>6, <2>7 DEF Streaming, r
<1> QED
  BY <1>4, <1>5 DEF PhaseInv

LEMMA PhaseEnvelope ==
  ASSUME IInv, NEW s \in Session, PhaseInv(s), ClientEnvelope(s)
  PROVE  PhaseInv(s)'
<1> DEFINE r == toClient[s]
<1>1. /\ ClientTakes(s, "envelope")
      /\ client' = client \/ client' = [client EXCEPT ![s] = IdleClient]
  BY DEF ClientEnvelope
<1>2. /\ client[s].pc = "read" /\ client[s].out = {}
      /\ r \in Seq(WireFrame) /\ r # << >>
      /\ toClient'[s] = Tail(r) /\ server'[s] = server[s] /\ toServer'[s] = toServer[s]
      /\ server[s].pc \notin {"status", "chunk_diff", "want", "policy_sync", "moderation_sync",
                              "key_sync", "keys", "batch"}
      /\ server[s].pc = "stream" =>
           Wire(r) \subseteq Envelope /\ server[s].wanted \subseteq Enveloped(Uploads(s))
  BY <1>1, PhaseTakes
<1>3. client'[s].out = {}
  BY <1>1, <1>2 DEF IdleClient, IInv, TypeInv
<1> HIDE DEF r
<1>4. ASSUME server[s].pc = "stream" PROVE Streaming(s)'
  <2>1. Uploads(s)' = Uploads(s)
    BY <1>2, <1>3 DEF Uploads
  <2>2. Streaming(s)
    BY <1>4 DEF PhaseInv
  <2>3. Distinct(Tail(r)) /\ Wire(Tail(r)) \subseteq Wire(r)
    BY <1>2, <2>2, DistinctTail DEF Streaming, r
  <2> QED
    BY <1>2, <1>3, <1>4, <2>1, <2>2, <2>3 DEF Streaming, r
<1> QED
  BY <1>2, <1>4 DEF PhaseInv

LEMMA PhaseComplete ==
  ASSUME IInv, NEW s \in Session, PhaseInv(s), ClientComplete(s)
  PROVE  PhaseInv(s)'
<1>1. ClientTakes(s, "complete")
  BY DEF ClientComplete
<1>2. /\ server'[s] = server[s]
      /\ server[s].pc \notin {"status", "chunk_diff", "want", "policy_sync", "moderation_sync",
                              "key_sync", "keys", "batch", "stream"}
  BY <1>1, PhaseTakes
<1> QED
  BY <1>2 DEF PhaseInv

LEMMA PhaseConnect ==
  ASSUME IInv, NEW s \in Session, Connect(s)
  PROVE  PhaseInv(s)'
<1> DEFINE f == Frame("status", log[ClientOf[s]])
<1>1. /\ client'[s].out = {} /\ server'[s].pc = "status"
      /\ toServer'[s] = <<f>> /\ toClient'[s] = << >> /\ f.kind = "status"
  BY FrameFacts DEF Connect, IInv, TypeInv, ServerState, IdleServer
<1> HIDE DEF f
<1>2. Len(<<f>>) = 1 /\ <<f>>[1] = f
  OBVIOUS
<1> QED
  BY <1>1, <1>2 DEF PhaseInv

LEMMA PhaseClient ==
  ASSUME IInv, NEW s \in Session, PhaseInv(s), ClientStep(s)
  PROVE  PhaseInv(s)'
<1>1. CASE ClientClosed(s)
  BY <1>1 DEF ClientClosed, PhaseInv
<1> QED
  BY <1>1, PhaseConnect, PhaseSend, PhaseHistory, PhaseClientAnswers, PhaseWant,
     PhaseEnvelope, PhaseComplete
  DEF ClientStep

-----------------------------------------------------------------------------
(* The server asks only when nothing is under way to it.                   *)

LEMMA PhaseServerReads ==
  ASSUME IInv, NEW s \in Session, PhaseInv(s),
         ServerStatus(s) \/ ServerKeySync(s) \/ ServerBatch(s)
  PROVE  PhaseInv(s)'
<1> DEFINE q == toServer[s]
           r == toClient[s]
<1>1. q \in Seq(WireFrame) /\ q # << >>
  BY SessionTypes DEF IInv, ServerStatus, ServerKeySync, ServerBatch, ServerTakes
<1>2. client'[s] = client[s] /\ toClient'[s] = r /\ toServer'[s] = Tail(q)
  BY DEF IInv, TypeInv, ServerStatus, ServerKeySync, ServerBatch, ServerTakes
<1>3. server[s].pc \in {"status", "keys", "batch"}
  BY DEF ServerStatus, ServerKeySync, ServerBatch, ServerTakes
<1>4. client[s].out = {} /\ r = << >> /\ Len(q) = 1
  BY <1>1, <1>3 DEF PhaseInv, Asking, Quiet
<1>5. Quiet(s)' /\ toClient'[s] = << >>
  BY <1>1, <1>2, <1>4, QueueTail DEF Quiet
<1>6. Wire(toClient'[s]) = {}
  BY <1>5 DEF Wire
<1>7. CASE ServerStatus(s)
  <2>1. server'[s].pc = "policy_sync"
    BY <1>7, SessionTypes DEF ServerStatus, IInv, TypeInv, ServerState
  <2> QED
    BY <1>5, <1>6, <2>1 DEF PhaseInv
<1>8. CASE ServerKeySync(s)
  <2>1. server'[s].pc = "chunk_diff"
    BY <1>8, SessionTypes DEF ServerKeySync, IInv, TypeInv, ServerState
  <2> QED
    BY <1>5, <2>1 DEF PhaseInv
<1>9. CASE ServerBatch(s)
  <2> DEFINE ids == server[s].ids \ Head(q).body
  <2>1. server'[s].pc = "want" /\ server'[s].out = Envelopes(ids) /\ ids \in SUBSET Message
    BY <1>9, SessionTypes DEF ServerBatch, IInv, TypeInv, ServerState
  <2>2. Envelopes(ids) \subseteq Envelope
    BY <2>1 DEF Envelopes, Envelope
  <2> QED
    BY <1>5, <2>1, <2>2 DEF PhaseInv
<1> QED
  BY <1>7, <1>8, <1>9

LEMMA PhaseHandshake ==
  ASSUME IInv, NEW s \in Session, PhaseInv(s), ServerHandshake(s)
  PROVE  PhaseInv(s)'
<1> DEFINE r == toClient[s]
<1>0. PICK pc \in DOMAIN HandshakeAfter :
         /\ ServerSends(s, pc, Frame(pc, {}))
         /\ server' = [server EXCEPT ![s].pc = HandshakeAfter[pc]]
  BY DEF ServerHandshake
<1> DEFINE f == Frame(pc, {})
<1>1. pc \in {"policy_sync", "moderation_sync", "key_sync"}
  BY DEF HandshakeAfter
<1>2. /\ server[s].pc = pc /\ server'[s].pc = HandshakeAfter[pc]
      /\ client'[s] = client[s] /\ toServer'[s] = toServer[s] /\ toClient'[s] = Append(r, f)
      /\ r \in Seq(WireFrame) /\ f \in WireFrame /\ f.kind = pc
  BY <1>0, <1>1, FrameFacts, SessionTypes DEF ServerSends, IInv, TypeInv, ServerState
<1> HIDE DEF f
<1>3. Quiet(s) /\ \A g \in Wire(r) : g.kind \in {"policy_sync", "moderation_sync"}
  BY <1>1, <1>2 DEF PhaseInv
<1>4. Quiet(s)'
  BY <1>2, <1>3 DEF Quiet
<1>5. Wire(toClient'[s]) = Wire(r) \cup {f}
  BY <1>2, WireAppend
<1>6. CASE pc \in {"policy_sync", "moderation_sync"}
  <2>1. server'[s].pc \in {"moderation_sync", "key_sync"}
    BY <1>2, <1>6 DEF HandshakeAfter
  <2> QED
    BY <1>2, <1>3, <1>4, <1>5, <1>6, <2>1 DEF PhaseInv
<1>7. CASE pc = "key_sync"
  <2>1. server'[s].pc = "keys"
    BY <1>2, <1>7 DEF HandshakeAfter
  <2>2. /\ Len(r) \in Nat /\ Len(Append(r, f)) = Len(r) + 1 /\ Append(r, f) # << >>
        /\ Append(r, f)[Len(r) + 1] = f /\ \A i \in 1..Len(r) : Append(r, f)[i] = r[i]
    BY <1>2, QueueAppend
  <2>3. \A i \in 1..Len(r) : r[i].kind \in {"policy_sync", "moderation_sync"}
    BY <1>3 DEF Wire
  <2>4. Asking(s, {"policy_sync", "moderation_sync"}, "key_sync", "key_sync")'
    BY <1>2, <1>4, <1>7, <2>2, <2>3 DEF Asking
  <2> QED
    BY <2>1, <2>4 DEF PhaseInv
<1> QED
  BY <1>1, <1>6, <1>7

LEMMA PhaseChunkDiff ==
  ASSUME IInv, NEW s \in Session, PhaseInv(s), ServerChunkDiff(s)
  PROVE  PhaseInv(s)'
<1> DEFINE f == Frame("chunk_diff", server[s].differing)
<1>1. /\ server[s].pc = "chunk_diff" /\ server'[s].pc = "batch"
      /\ client'[s] = client[s] /\ toServer'[s] = toServer[s]
      /\ toClient'[s] = Append(toClient[s], f)
      /\ f \in WireFrame /\ f.kind = "chunk_diff"
  BY FrameFacts, SessionTypes DEF ServerChunkDiff, ServerSends, IInv, TypeInv, ServerState
<1> HIDE DEF f
<1>2. Quiet(s) /\ toClient[s] = << >>
  BY <1>1 DEF PhaseInv
<1>3. Quiet(s)' /\ toClient'[s] = <<f>>
  BY <1>1, <1>2, QueueAppend DEF Quiet
<1>4. Len(<<f>>) = 1 /\ <<f>>[1] = f /\ <<f>> # << >>
  OBVIOUS
<1>5. Asking(s, {}, "chunk_diff", "chunk_ids")'
  BY <1>1, <1>3, <1>4 DEF Asking
<1> QED
  BY <1>1, <1>5 DEF PhaseInv

LEMMA PhaseServerWant ==
  ASSUME IInv, NEW s \in Session, PhaseInv(s), ServerWant(s)
  PROVE  PhaseInv(s)'
<1> DEFINE f == Frame("want", server[s].wanted)
<1>1. /\ server[s].pc = "want" /\ server'[s].pc = "stream"
      /\ server'[s].out = server[s].out /\ server'[s].wanted = server[s].wanted
      /\ client'[s] = client[s] /\ toServer'[s] = toServer[s]
      /\ toClient'[s] = Append(toClient[s], f)
      /\ f \in WireFrame /\ f.kind = "want"
  BY FrameFacts, SessionTypes DEF ServerWant, ServerSends, IInv, TypeInv, ServerState
<1>2. Quiet(s) /\ toClient[s] = << >> /\ server[s].out \subseteq Envelope
  BY <1>1 DEF PhaseInv
<1>3. Quiet(s)' /\ toClient'[s] = <<f>> /\ Uploads(s)' = {}
  <2>1. toServer'[s] = << >> /\ client'[s].out = {}
    BY <1>1, <1>2 DEF Quiet
  <2>2. Uploads(s)' = {} /\ Quiet(s)'
    BY <2>1 DEF Uploads, Quiet, Wire
  <2>3. toClient'[s] = <<f>>
    BY <1>1, <1>2, QueueAppend, SessionTypes DEF IInv
  <2> QED
    BY <2>2, <2>3
<1>4. f = Frame("want", server'[s].wanted)
  BY <1>1
<1> HIDE DEF f
<1>5. Len(<<f>>) = 1 /\ <<f>>[1] = f /\ <<f>> # << >>
  OBVIOUS
<1>6. Wire(<<f>>) = {f} /\ Distinct(<<f>>)
  BY <1>5 DEF Wire, Distinct
<1>7. f \notin server[s].out
  BY <1>1, <1>2, EnvelopeShape
<1>8. Distinct(toServer'[s]) /\ Wire(toServer'[s]) = {}
  BY <1>3 DEF Quiet, Distinct, Wire
<1>9. Streaming(s)'
  BY <1>1, <1>2, <1>3, <1>4, <1>5, <1>6, <1>7, <1>8 DEF Streaming
<1> QED
  BY <1>1, <1>9 DEF PhaseInv

LEMMA PhaseStream ==
  ASSUME IInv, NEW s \in Session, PhaseInv(s), ServerStream(s)
  PROVE  PhaseInv(s)'
<1> DEFINE r == toClient[s]
           out == server[s].out
<1>1. PICK f \in out :
        ServerSends(s, "stream", f) /\ server' = [server EXCEPT ![s].out = @ \ {f}]
  BY DEF ServerStream
<1>2. /\ server[s].pc = "stream" /\ server'[s].pc = "stream"
      /\ server'[s].out = out \ {f} /\ server'[s].wanted = server[s].wanted
      /\ client'[s] = client[s] /\ toServer'[s] = toServer[s] /\ toClient'[s] = Append(r, f)
      /\ r \in Seq(WireFrame) /\ f \in WireFrame
  BY <1>1, SessionTypes DEF ServerSends, IInv, TypeInv, ServerState
<1>3. Streaming(s)
  BY <1>2 DEF PhaseInv
<1> HIDE DEF r, out
<1>4. out \subseteq Envelope /\ Distinct(r) /\ out \cap Wire(r) = {}
  BY <1>3 DEF Streaming, r, out
<1>5. Distinct(Append(r, f)) /\ Wire(Append(r, f)) = Wire(r) \cup {f}
  BY <1>1, <1>2, <1>4, DistinctAppend, WireAppend
<1>6. /\ Uploads(s)' = Uploads(s) /\ Quiet(s)' = Quiet(s)
  BY <1>2 DEF Uploads, Quiet
<1>7. ASSUME r # << >>, r[1] = Frame("want", server[s].wanted),
             \A i \in 2..Len(r) : r[i] \in Envelope
      PROVE  /\ Append(r, f) # << >> /\ Append(r, f)[1] = Frame("want", server[s].wanted)
             /\ \A i \in 2..Len(Append(r, f)) : Append(r, f)[i] \in Envelope
  <2>1. /\ Len(r) \in Nat /\ Len(Append(r, f)) = Len(r) + 1 /\ Append(r, f) # << >>
        /\ Append(r, f)[Len(r) + 1] = f /\ \A i \in 1..Len(r) : Append(r, f)[i] = r[i]
    BY <1>2, QueueAppend
  <2>2. 1 \in 1..Len(r)
    BY <1>2, <1>7, QueueTail
  <2>3. \A i \in 2..(Len(r) + 1) : i \in 2..Len(r) \/ i = Len(r) + 1
    BY <2>1
  <2>4. \A i \in 2..Len(r) : i \in 1..Len(r)
    BY <2>1
  <2>5. \A i \in 2..Len(Append(r, f)) : Append(r, f)[i] \in Envelope
    BY <1>1, <1>4, <1>7, <2>1, <2>3, <2>4
  <2> QED
    BY <1>7, <2>1, <2>2, <2>5
<1>8. Wire(r) \subseteq Envelope => Wire(Append(r, f)) \subseteq Envelope
  BY <1>1, <1>4, <1>5
<1>9. (out \ {f}) \cap Wire(Append(r, f)) = {}
  BY <1>4, <1>5
<1>10. Streaming(s)'
  BY <1>2, <1>3, <1>4, <1>5, <1>6, <1>7, <1>8, <1>9 DEF Streaming, r, out
<1> QED
  BY <1>2, <1>10 DEF PhaseInv

LEMMA PhaseCollect ==
  ASSUME IInv, NEW s \in Session, PhaseInv(s), ServerCollect(s)
  PROVE  PhaseInv(s)'
<1> DEFINE q == toServer[s]
           wanted == server[s].wanted
<1>1. ServerTakes(s, "stream", "envelope")
  BY DEF ServerCollect
<1>2. /\ server[s].pc = "stream" /\ q \in Seq(WireFrame) /\ q # << >>
      /\ toServer'[s] = Tail(q) /\ client'[s] = client[s] /\ toClient'[s] = toClient[s]
  BY <1>1, SessionTypes DEF ServerTakes, IInv, TypeInv
<1>3. PICK m \in Head(q).body :
         IF m \in wanted /\ Accepts(ServerOf[s], m)
         THEN server' = [server EXCEPT ![s].wanted = @ \ {m}]
         ELSE server' = [server EXCEPT ![s] = IdleServer]
  BY DEF ServerCollect
<1>4. CASE server' = [server EXCEPT ![s] = IdleServer]
  <2>1. server'[s].pc = "idle"
    BY <1>4 DEF IInv, TypeInv, IdleServer
  <2> QED
    BY <2>1, PhaseIdle
<1>5. CASE server' = [server EXCEPT ![s].wanted = @ \ {m}] /\ m \in wanted
  <2>1. /\ server'[s].pc = "stream" /\ server'[s].out = server[s].out
        /\ server'[s].wanted = wanted \ {m} /\ wanted \subseteq Message
    BY <1>2, <1>5, SessionTypes DEF IInv, TypeInv, ServerState
  <2>2. Streaming(s)
    BY <1>2 DEF PhaseInv
  <2> DEFINE f == Head(q)
  <2>3. /\ Distinct(Tail(q)) /\ Wire(Tail(q)) = Wire(q) \ {f} /\ f \in Wire(q)
    BY <1>2, <2>2, DistinctTail, WireTail DEF Streaming
  <2>4. /\ f \in Envelopes(wanted) /\ client[s].out \cap Wire(q) = {}
        /\ Uploads(s) \subseteq Envelopes(wanted)
    BY <2>2, <2>3 DEF Streaming, Uploads
  <2> HIDE DEF f
  <2>5. PICK n \in wanted : f = Frame("envelope", {n})
    BY <2>4 DEF Envelopes
  <2>6. f = Frame("envelope", {m})
    <3>1. m \in f.body
      BY DEF f
    <3>2. f.body = {n}
      BY <2>5, FrameFacts
    <3> QED
      BY <2>5, <3>1, <3>2
  <2>7. Uploads(s)' = Uploads(s) \ {f}
    BY <1>2, <2>3, <2>4 DEF Uploads
  <2>8. Uploads(s)' \subseteq Envelopes(wanted \ {m})
    BY <2>4, <2>6, <2>7 DEF Envelopes
  <2>9. ASSUME wanted \subseteq Enveloped(Uploads(s))
        PROVE  wanted \ {m} \subseteq Enveloped(Uploads(s)')
    <3>1. ASSUME NEW k \in wanted \ {m} PROVE Frame("envelope", {k}) # f
      <4>1. Frame("envelope", {k}).body = {k} /\ f.body = {m}
        BY <2>6, FrameFacts
      <4> QED
        BY <3>1, <4>1
    <3> QED
      BY <2>1, <2>7, <2>9, <3>1 DEF Enveloped
  <2>10. Wire(toClient[s]) \subseteq Envelope /\
         (client[s].pc = "read" => wanted \subseteq Enveloped(Uploads(s)))
    BY <1>2, <2>2 DEF Streaming, Quiet
  <2>11. Streaming(s)'
    BY <1>2, <2>1, <2>2, <2>3, <2>4, <2>8, <2>9, <2>10 DEF Streaming
  <2> QED
    BY <2>1, <2>11 DEF PhaseInv
<1> QED
  BY <1>3, <1>4, <1>5

LEMMA PhaseServer ==
  ASSUME IInv, NEW s \in Session, PhaseInv(s), ServerStep(s)
  PROVE  PhaseInv(s)'
<1>1. CASE ServerComplete(s) \/ ServerClosed(s)
  <2>1. server' = [server EXCEPT ![s] = IdleServer]
    BY <1>1 DEF ServerComplete, ServerClosed
  <2>2. server'[s].pc = "idle"
    BY <2>1 DEF IInv, TypeInv, IdleServer
  <2> QED
    BY <2>2, PhaseIdle
<1> QED
  BY <1>1, PhaseServerReads, PhaseHandshake, PhaseChunkDiff, PhaseServerWant, PhaseStream,
     PhaseCollect
  DEF ServerStep

-----------------------------------------------------------------------------
(* What a frame names, its sender holds.                                   *)
SourceInv(s) ==
    LET c == log[ClientOf[s]]
        v == log[ServerOf[s]]
    IN  /\ \A f \in Uploads(s) : f.kind \in {"chunk_ids", "envelope"} => f.body \subseteq c
        /\ \A f \in Wire(toClient[s]) : f.kind = "want" => f.body \subseteq c
        /\ \A f \in Downloads(s) : f.kind = "envelope" => f.body \subseteq v
        /\ server[s].wanted \subseteq c
        /\ server[s].ids \subseteq v

LEMMA EnvelopeBodies ==
  ASSUME NEW ids, NEW f \in Envelopes(ids)
  PROVE  f.body \subseteq ids
<1>1. PICK m \in ids : f = Frame("envelope", {m})
  BY DEF Envelopes
<1>2. f.body = {m}
  BY <1>1, FrameFacts
<1> QED
  BY <1>2

(* Frames and log grow, and nothing is named that is not held.             *)
LEMMA SourceFrom ==
  ASSUME NEW s \in Session, SourceInv(s), Grows,
         \A f \in Uploads(s)' : \/ f \in Uploads(s)
                                \/ f.kind \in {"chunk_ids", "envelope"} =>
                                     f.body \subseteq log'[ClientOf[s]],
         \A f \in Wire(toClient'[s]) : \/ f \in Wire(toClient[s])
                                       \/ f.kind = "want" => f.body \subseteq log'[ClientOf[s]],
         \A f \in Downloads(s)' : \/ f \in Downloads(s)
                                  \/ f.kind = "envelope" => f.body \subseteq log'[ServerOf[s]],
         server'[s].wanted \subseteq log'[ClientOf[s]],
         server'[s].ids \subseteq log'[ServerOf[s]]
  PROVE  SourceInv(s)'
<1>1. /\ log[ClientOf[s]] \subseteq log'[ClientOf[s]]
      /\ log[ServerOf[s]] \subseteq log'[ServerOf[s]]
  BY SyncConstantsOK DEF Grows
<1> QED
  BY <1>1 DEF SourceInv

(* A client that takes a frame: only what it answers is new.               *)
LEMMA SourceTakes ==
  ASSUME IInv, NEW s \in Session, SourceInv(s), Grows, NEW kind, ClientTakes(s, kind),
         \A f \in client'[s].out : f.kind \in {"chunk_ids", "envelope"} =>
                                      f.body \subseteq log'[ClientOf[s]]
  PROVE  SourceInv(s)'
<1>1. /\ Wire(toClient'[s]) \subseteq Wire(toClient[s])
      /\ server'[s] = server[s] /\ toServer'[s] = toServer[s]
  BY ClientTook
<1>2. /\ log[ClientOf[s]] \subseteq log'[ClientOf[s]]
      /\ log[ServerOf[s]] \subseteq log'[ServerOf[s]]
  BY SyncConstantsOK DEF Grows
<1>3. /\ \A f \in Uploads(s)' : f \in Uploads(s) \/ f \in client'[s].out
      /\ \A f \in Downloads(s)' : f \in Downloads(s)
  BY <1>1 DEF Uploads, Downloads
<1>4. server[s].wanted \subseteq log[ClientOf[s]] /\ server[s].ids \subseteq log[ServerOf[s]]
  BY DEF SourceInv
<1> QED
  BY <1>1, <1>2, <1>3, <1>4, SourceFrom

LEMMA SourceClient ==
  ASSUME IInv, NEW s \in Session, SourceInv(s), ClientStep(s)
  PROVE  SourceInv(s)'
<1>1. Grows /\ Only(s)
  BY ClientIsLocal
<1>2. /\ client[s] \in ClientState /\ server[s] \in ServerState
      /\ toServer[s] \in Seq(WireFrame) /\ toClient[s] \in Seq(WireFrame)
  BY SessionTypes DEF IInv
<1>3. /\ log[ClientOf[s]] \subseteq log'[ClientOf[s]]
      /\ log[ServerOf[s]] \subseteq log'[ServerOf[s]]
  BY <1>1, SyncConstantsOK DEF Grows
<1>4. CASE Connect(s)
  <2>1. /\ client'[s].out = {} /\ toServer'[s] = <<Frame("status", log[ClientOf[s]])>>
        /\ toClient'[s] = << >> /\ server'[s].out = {}
        /\ server'[s].wanted = {} /\ server'[s].ids = {}
    BY <1>4 DEF Connect, IInv, TypeInv, IdleServer
  <2>2. Wire(toClient'[s]) = {}
    BY <2>1 DEF Wire
  <2>3. \A f \in Wire(toServer'[s]) : f.kind = "status"
    BY <2>1, FrameFacts DEF Wire
  <2> QED
    BY <2>1, <2>2, <2>3 DEF SourceInv, Uploads, Downloads
<1>5. CASE ClientSend(s)
  <2>1. PICK f \in client[s].out :
           /\ toServer' = [toServer EXCEPT ![s] = Append(@, f)]
           /\ client' = [client EXCEPT ![s].out = @ \ {f}]
    BY <1>5 DEF ClientSend
  <2>2. /\ f \in WireFrame /\ toServer'[s] = Append(toServer[s], f)
        /\ client'[s].out = client[s].out \ {f}
        /\ server'[s] = server[s] /\ toClient'[s] = toClient[s]
    BY <1>2, <1>5, <2>1 DEF ClientSend, IInv, TypeInv, ClientState, Answer
  <2>3. Uploads(s)' = Uploads(s) /\ Downloads(s)' = Downloads(s)
    BY <1>2, <2>2, WireAppend DEF Uploads, Downloads
  <2> QED
    BY <1>3, <2>2, <2>3 DEF SourceInv
<1>6. CASE ClientHistory(s) \/ ClientComplete(s)
  <2>1. PICK kind : ClientTakes(s, kind)
    BY <1>6 DEF ClientHistory, ClientComplete
  <2>2. client' = client \/ client' = [client EXCEPT ![s].pc = "done"]
    BY <1>6 DEF ClientHistory, ClientComplete
  <2>3. client'[s].out = {}
    BY <1>2, <2>1, <2>2 DEF ClientTakes, ClientState, IInv, TypeInv
  <2> QED
    BY <1>1, <2>1, <2>3, SourceTakes
<1>7. CASE ClientKeySync(s)
  <2>1. ClientTakes(s, "key_sync") /\ client'[s].out = {Frame("key_sync", {})}
    BY <1>7 DEF ClientKeySync, IInv, TypeInv
  <2> QED
    BY <1>1, <2>1, FrameFacts, SourceTakes
<1>8. CASE ClientChunkDiff(s)
  <2>1. /\ ClientTakes(s, "chunk_diff") /\ log' = log
        /\ client'[s].out = {Frame("chunk_ids",
                                   chunk_ids(log[ClientOf[s]], Head(toClient[s]).body))}
    BY <1>8 DEF ClientChunkDiff, IInv, TypeInv
  <2>2. chunk_ids(log[ClientOf[s]], Head(toClient[s]).body) \subseteq log'[ClientOf[s]]
    BY <2>1 DEF chunk_ids
  <2> QED
    BY <1>1, <2>1, <2>2, FrameFacts, SourceTakes
<1>9. CASE ClientWant(s)
  <2>1. /\ ClientTakes(s, "want") /\ log' = log
        /\ client'[s].out = Envelopes(Head(toClient[s]).body)
    BY <1>9 DEF ClientWant, IInv, TypeInv
  <2>2. Head(toClient[s]).body \subseteq log[ClientOf[s]]
    BY <2>1, ClientTook DEF SourceInv
  <2>3. \A f \in client'[s].out : f.body \subseteq log'[ClientOf[s]]
    BY <2>1, <2>2, EnvelopeBodies
  <2> QED
    BY <1>1, <2>1, <2>3, SourceTakes
<1>10. CASE ClientEnvelope(s)
  <2>1. ClientTakes(s, "envelope") /\ client[s].out = {}
    BY <1>10 DEF ClientEnvelope, ClientTakes
  <2>2. client' = client \/ client' = [client EXCEPT ![s] = IdleClient]
    BY <1>10 DEF ClientEnvelope
  <2>3. client'[s].out = {}
    BY <2>1, <2>2 DEF IdleClient, IInv, TypeInv
  <2> QED
    BY <1>1, <2>1, <2>3, SourceTakes
<1>11. CASE ClientClosed(s)
  <2>1. /\ client'[s].out = {} /\ log' = log /\ server'[s] = server[s]
        /\ toServer'[s] = toServer[s] /\ toClient'[s] = toClient[s]
    BY <1>11 DEF ClientClosed, IdleClient, IInv, TypeInv
  <2> QED
    BY <2>1 DEF SourceInv, Uploads, Downloads
<1> QED
  BY <1>4, <1>5, <1>6, <1>7, <1>8, <1>9, <1>10, <1>11 DEF ClientStep

(* A server that sends a frame of its own, or reads one.                   *)
LEMMA SourceSends ==
  ASSUME IInv, NEW s \in Session, SourceInv(s), Grows, NEW pc, NEW f \in WireFrame,
         ServerSends(s, pc, f),
         f.kind = "want" => f.body \subseteq log[ClientOf[s]],
         f.kind = "envelope" => f.body \subseteq log[ServerOf[s]],
         server'[s].out \subseteq server[s].out,
         server'[s].wanted \subseteq server[s].wanted,
         server'[s].ids \subseteq log[ServerOf[s]]
  PROVE  SourceInv(s)'
<1>1. /\ Wire(toClient'[s]) = Wire(toClient[s]) \cup {f} /\ log' = log
      /\ client'[s] = client[s] /\ toServer'[s] = toServer[s]
  BY ServerSent
<1>2. /\ Uploads(s)' = Uploads(s)
      /\ \A g \in Downloads(s)' : g \in Downloads(s) \/ g = f
  BY <1>1 DEF Uploads, Downloads
<1>3. server[s].wanted \subseteq log[ClientOf[s]]
  BY DEF SourceInv
<1> QED
  BY <1>1, <1>2, <1>3, SourceFrom

LEMMA SourceReads ==
  ASSUME IInv, NEW s \in Session, SourceInv(s), Grows, NEW pc, NEW kind,
         ServerTakes(s, pc, kind),
         \A f \in server'[s].out : \/ f \in server[s].out
                                   \/ f.body \subseteq log[ServerOf[s]],
         server'[s].wanted \subseteq log[ClientOf[s]],
         server'[s].ids \subseteq log[ServerOf[s]]
  PROVE  SourceInv(s)'
<1>1. /\ Wire(toServer'[s]) \subseteq Wire(toServer[s])
      /\ client'[s] = client[s] /\ toClient'[s] = toClient[s]
  BY ServerTook
<1>2. /\ log[ClientOf[s]] \subseteq log'[ClientOf[s]]
      /\ log[ServerOf[s]] \subseteq log'[ServerOf[s]]
  BY SyncConstantsOK DEF Grows
<1>3. /\ Uploads(s)' \subseteq Uploads(s)
      /\ \A g \in Downloads(s)' : g \in Downloads(s) \/ g.body \subseteq log'[ServerOf[s]]
  BY <1>1, <1>2 DEF Uploads, Downloads
<1> QED
  BY <1>1, <1>2, <1>3, SourceFrom

LEMMA SourceServer ==
  ASSUME IInv, NEW s \in Session, SourceInv(s), ServerStep(s)
  PROVE  SourceInv(s)'
<1>1. Grows /\ Only(s)
  BY ServerIsLocal
<1>2. /\ client[s] \in ClientState /\ server[s] \in ServerState
      /\ toServer[s] \in Seq(WireFrame) /\ toClient[s] \in Seq(WireFrame)
      /\ server \in [Session -> ServerState]
  BY SessionTypes DEF IInv, TypeInv
<1>3. server[s].wanted \subseteq log[ClientOf[s]] /\ server[s].ids \subseteq log[ServerOf[s]]
  BY DEF SourceInv
<1>4. CASE ServerStatus(s) \/ ServerKeySync(s)
  <2>1. PICK pc, kind : ServerTakes(s, pc, kind)
    BY <1>4 DEF ServerStatus, ServerKeySync
  <2>2. /\ server'[s].out = server[s].out /\ server'[s].wanted = server[s].wanted
        /\ server'[s].ids = server[s].ids
    BY <1>2, <1>4 DEF ServerStatus, ServerKeySync, ServerState
  <2> QED
    BY <1>1, <1>3, <2>1, <2>2, SourceReads
<1>5. CASE ServerHandshake(s)
  <2>1. PICK pc \in DOMAIN HandshakeAfter :
           /\ ServerSends(s, pc, Frame(pc, {}))
           /\ server' = [server EXCEPT ![s].pc = HandshakeAfter[pc]]
    BY <1>5 DEF ServerHandshake
  <2>2. pc \in {"policy_sync", "moderation_sync", "key_sync"}
    BY DEF HandshakeAfter
  <2>3. /\ server'[s].out = server[s].out /\ server'[s].wanted = server[s].wanted
        /\ server'[s].ids = server[s].ids
    BY <1>2, <2>1 DEF ServerState
  <2>4. Frame(pc, {}) \in WireFrame /\ Frame(pc, {}).kind = pc
    BY <2>2, FrameFacts
  <2> QED
    BY <1>1, <1>3, <2>1, <2>2, <2>3, <2>4, SourceSends
<1>6. CASE ServerChunkDiff(s)
  <2> DEFINE f == Frame("chunk_diff", server[s].differing)
  <2>1. /\ ServerSends(s, "chunk_diff", f) /\ server'[s].out = server[s].out
        /\ server'[s].wanted = server[s].wanted
        /\ server'[s].ids = chunk_ids(log[ServerOf[s]], server[s].differing)
    BY <1>2, <1>6 DEF ServerChunkDiff, ServerState
  <2>2. f \in WireFrame /\ f.kind = "chunk_diff"
    BY <1>2, FrameFacts DEF ServerState
  <2>3. server'[s].ids \subseteq log[ServerOf[s]]
    BY <2>1 DEF chunk_ids
  <2> HIDE DEF f
  <2> QED
    BY <1>1, <1>3, <2>1, <2>2, <2>3, SourceSends
<1>7. CASE ServerBatch(s)
  <2> DEFINE f == Head(toServer[s])
             out == Envelopes(server[s].ids \ f.body)
  <2>1. /\ ServerTakes(s, "batch", "chunk_ids") /\ server'[s].out = out
        /\ server'[s].wanted = f.body \ server[s].ids
        /\ server'[s].ids = server[s].ids
    BY <1>2, <1>7 DEF ServerBatch, ServerState
  <2>2. f.body \subseteq log[ClientOf[s]]
    BY <2>1, ServerTook DEF SourceInv, Uploads
  <2>3. \A g \in out : g.body \subseteq log[ServerOf[s]]
    BY <1>3, EnvelopeBodies
  <2> HIDE DEF f, out
  <2> QED
    BY <1>1, <1>3, <2>1, <2>2, <2>3, SourceReads
<1>8. CASE ServerWant(s)
  <2> DEFINE f == Frame("want", server[s].wanted)
  <2>1. /\ ServerSends(s, "want", f) /\ server'[s].out = server[s].out
        /\ server'[s].wanted = server[s].wanted /\ server'[s].ids = server[s].ids
    BY <1>2, <1>8 DEF ServerWant, ServerState
  <2>2. f \in WireFrame /\ f.kind = "want" /\ f.body = server[s].wanted
    BY <1>2, FrameFacts DEF ServerState
  <2> HIDE DEF f
  <2> QED
    BY <1>1, <1>3, <2>1, <2>2, SourceSends
<1>9. CASE ServerStream(s)
  <2>1. PICK f \in server[s].out :
          ServerSends(s, "stream", f) /\ server' = [server EXCEPT ![s].out = @ \ {f}]
    BY <1>9 DEF ServerStream
  <2>2. /\ server'[s].out = server[s].out \ {f} /\ server'[s].wanted = server[s].wanted
        /\ server'[s].ids = server[s].ids /\ f \in WireFrame /\ f.kind = "envelope"
    BY <1>2, <2>1 DEF ServerState
  <2>3. f.body \subseteq log[ServerOf[s]]
    BY <2>2 DEF SourceInv, Downloads
  <2> QED
    BY <1>1, <1>3, <2>1, <2>2, <2>3, SourceSends
<1>10. CASE ServerCollect(s)
  <2>1. ServerTakes(s, "stream", "envelope")
    BY <1>10 DEF ServerCollect
  <2>2. PICK m : \/ server' = [server EXCEPT ![s].wanted = @ \ {m}]
                 \/ server' = [server EXCEPT ![s] = IdleServer]
    BY <1>10 DEF ServerCollect
  <2>3. CASE server' = [server EXCEPT ![s].wanted = @ \ {m}]
    <3>1. /\ server'[s].out = server[s].out /\ server'[s].wanted = server[s].wanted \ {m}
          /\ server'[s].ids = server[s].ids
      BY <1>2, <2>3 DEF ServerState
    <3> QED
      BY <1>1, <1>3, <2>1, <3>1, SourceReads
  <2>4. CASE server' = [server EXCEPT ![s] = IdleServer]
    <3>1. server'[s].out = {} /\ server'[s].wanted = {} /\ server'[s].ids = {}
      BY <1>2, <2>4 DEF IdleServer
    <3> QED
      BY <1>1, <2>1, <3>1, SourceReads
  <2> QED
    BY <2>2, <2>3, <2>4
<1>11. CASE ServerComplete(s)
  <2> DEFINE f == Frame("complete", {})
  <2>1. /\ ServerSends(s, "stream", f) /\ server'[s].out = {}
        /\ server'[s].wanted = {} /\ server'[s].ids = {}
    BY <1>2, <1>11 DEF ServerComplete, IdleServer
  <2>2. f \in WireFrame /\ f.kind = "complete"
    BY FrameFacts
  <2> HIDE DEF f
  <2> QED
    BY <1>1, <2>1, <2>2, SourceSends
<1>12. CASE ServerClosed(s)
  <2>1. /\ server'[s].out = {} /\ server'[s].wanted = {} /\ server'[s].ids = {}
        /\ client'[s] = client[s] /\ toServer'[s] = toServer[s]
        /\ toClient'[s] = toClient[s] /\ log' = log
    BY <1>2, <1>12 DEF ServerClosed, IdleServer
  <2> QED
    BY <2>1 DEF SourceInv, Uploads, Downloads
<1> QED
  BY <1>4, <1>5, <1>6, <1>7, <1>8, <1>9, <1>10, <1>11, <1>12 DEF ServerStep

-----------------------------------------------------------------------------
OrderInv == IInv /\ \A s \in Session : PhaseInv(s) /\ SourceInv(s)

(* The order of a session is its own affair.                               *)
LEMMA OrderElsewhere ==
  ASSUME IInv, NEW t \in Session, PhaseInv(t), SourceInv(t), Grows,
         client'[t] = client[t], server'[t] = server[t],
         toServer'[t] = toServer[t], toClient'[t] = toClient[t]
  PROVE  PhaseInv(t)' /\ SourceInv(t)'
<1>1. /\ log[ClientOf[t]] \subseteq log'[ClientOf[t]]
      /\ log[ServerOf[t]] \subseteq log'[ServerOf[t]]
  BY SyncConstantsOK DEF Grows
<1>2. /\ Uploads(t)' = Uploads(t) /\ Downloads(t)' = Downloads(t) /\ Quiet(t)' = Quiet(t)
  BY DEF Uploads, Downloads, Quiet
<1>3. \A before, question, answer :
         Asking(t, before, question, answer) => Asking(t, before, question, answer)'
  BY <1>2 DEF Asking
<1>4. Streaming(t) => Streaming(t)'
  BY <1>2 DEF Streaming
<1>5. PhaseInv(t)'
  BY <1>2, <1>3, <1>4 DEF PhaseInv
<1>6. SourceInv(t)'
  BY <1>1, <1>2 DEF SourceInv
<1> QED
  BY <1>5, <1>6

LEMMA OrderInit == Init => OrderInv
<1> SUFFICES ASSUME Init, NEW s \in Session PROVE PhaseInv(s) /\ SourceInv(s)
  BY InitEstablishes DEF OrderInv
<1>1. /\ server[s].pc = "idle" /\ server[s].out = {} /\ client[s].out = {}
      /\ server[s].wanted = {} /\ server[s].ids = {}
      /\ Wire(toServer[s]) = {} /\ Wire(toClient[s]) = {}
  BY WireOne DEF Init, IdleClient, IdleServer, Wire
<1> QED
  BY <1>1 DEF PhaseInv, SourceInv, Uploads, Downloads

LEMMA OrderNext == OrderInv /\ [Next]_vars => OrderInv'
<1> SUFFICES ASSUME OrderInv, [Next]_vars PROVE OrderInv'
  OBVIOUS
<1>1. IInv /\ IInv' /\ \A s \in Session : PhaseInv(s) /\ SourceInv(s)
  BY NextKeeps DEF OrderInv
<1>2. ASSUME NEW s \in Session, Grows, Only(s), PhaseInv(s)', SourceInv(s)'
      PROVE  OrderInv'
  <2>1. ASSUME NEW t \in Session \ {s} PROVE PhaseInv(t)' /\ SourceInv(t)'
    BY <1>1, <1>2, OrderElsewhere DEF Only
  <2> QED
    BY <1>1, <1>2, <2>1 DEF OrderInv
<1>3. ASSUME Grows, client' = client, server' = server,
             toServer' = toServer, toClient' = toClient
      PROVE  OrderInv'
  BY <1>1, <1>3, OrderElsewhere DEF OrderInv
<1>4. CASE UNCHANGED vars
  BY <1>3, <1>4 DEF vars, Grows
<1>5. ASSUME NEW n \in Node, NEW m \in Message, Post(n, m) PROVE OrderInv'
  BY <1>1, <1>3, <1>5, Appended DEF Post, IInv
<1>6. ASSUME NEW n \in Node, ChangePolicy(n) PROVE OrderInv'
  BY <1>3, <1>6 DEF ChangePolicy, Grows
<1>7. ASSUME NEW s \in Session, ClientStep(s) PROVE OrderInv'
  BY <1>1, <1>2, <1>7, ClientIsLocal, PhaseClient, SourceClient
<1>8. ASSUME NEW s \in Session, ServerStep(s) PROVE OrderInv'
  BY <1>1, <1>2, <1>8, ServerIsLocal, PhaseServer, SourceServer
<1>9. ASSUME NEW s \in Session, Timeout(s) \/ Disconnect(s) PROVE OrderInv'
  <2>1. /\ Only(s) /\ log' = log /\ toServer'[s] = toServer[s] /\ toClient'[s] = toClient[s]
        /\ \/ client'[s] = IdleClient /\ server'[s] = server[s]
           \/ server'[s] = IdleServer /\ client'[s] = client[s]
    BY <1>1, <1>9, LossIsLocal
  <2>2. PhaseInv(s)'
    <3>1. CASE client'[s] = IdleClient /\ server'[s] = server[s]
      BY <1>1, <2>1, <3>1, PhaseLost
    <3>2. CASE server'[s] = IdleServer
      BY <3>2, PhaseIdle DEF IdleServer
    <3> QED
      BY <2>1, <3>1, <3>2
  <2>3. SourceInv(s)'
    BY <1>1, <2>1 DEF SourceInv, Uploads, Downloads, IdleClient, IdleServer
  <2> QED
    BY <1>2, <2>1, <2>2, <2>3 DEF Grows
<1> QED
  BY <1>4, <1>5, <1>6, <1>7, <1>8, <1>9 DEF Next

(* run_sync reads the frame it waits for, the ids it asked about and the   *)
(* envelopes it wants, in that order, and so never ends the session of a   *)
(* client that keeps to the protocol over a frame.                         *)
THEOREM FramesAlwaysExpected == Spec => []FramesExpected
<1>1. OrderInv => FramesExpected
  <2> SUFFICES ASSUME OrderInv, NEW s \in Session, ServerReads(s), toServer[s] # << >>
               PROVE  LET f == Head(toServer[s]) IN
                        /\ f.kind = Expected[server[s].pc]
                        /\ f.kind = "chunk_ids" =>
                             \A m \in f.body : BucketOf[m] \in server[s].differing
                        /\ f.kind = "envelope" => f.body \subseteq server[s].wanted
    BY DEF FramesExpected
  <2> DEFINE q == toServer[s]
             f == Head(q)
  <2>1. q \in Seq(WireFrame) /\ q # << >> /\ Head(q) = q[1] /\ f \in Wire(q)
    BY SessionTypes, QueueTail, WireTail DEF OrderInv, IInv
  <2>2. PhaseInv(s) /\ DiffInv(s)
    BY DEF OrderInv, IInv, SessionInv
  <2> HIDE DEF q, f
  <2>3. CASE server[s].pc = "status"
    BY <2>1, <2>2, <2>3 DEF PhaseInv, Expected, q, f
  <2>4. CASE server[s].pc = "keys"
    BY <2>1, <2>2, <2>4 DEF PhaseInv, Asking, Quiet, Expected, q, f
  <2>5. CASE server[s].pc = "batch"
    <3>1. f.kind = "chunk_ids"
      BY <2>1, <2>2, <2>5 DEF PhaseInv, Asking, Quiet, q, f
    <3>2. f \in Answers(s)
      BY <2>1, <3>1 DEF Answers, q
    <3> QED
      BY <2>2, <2>5, <3>1, <3>2 DEF DiffInv, Expected, q, f
  <2>6. CASE server[s].pc = "stream"
    <3>1. f \in Envelopes(server[s].wanted)
      BY <2>1, <2>2, <2>6 DEF PhaseInv, Streaming, Uploads, q
    <3>2. f.body \subseteq server[s].wanted /\ f.kind = "envelope"
      BY <3>1, EnvelopeBodies, EnvelopeFacts, SessionTypes DEF OrderInv, IInv, ServerState
    <3> QED
      BY <2>6, <3>2 DEF Expected, q, f
  <2> QED
    BY <2>3, <2>4, <2>5, <2>6 DEF ServerReads, Collecting
<1> QED
  BY <1>1, OrderInit, OrderNext, PTL DEF Spec

-----------------------------------------------------------------------------
(* The exchange implements SharedLog.                                      *)

LEMMA Linked ==
  ASSUME NEW s \in Session, NEW m \in Message,
         \/ m \in log[ServerOf[s]] /\ Shared!Enter(ClientOf[s], m)
         \/ m \in log[ClientOf[s]] /\ Shared!Enter(ServerOf[s], m)
  PROVE  Shared!Next
<1> DEFINE both(t) == {<<ClientOf[t], ServerOf[t]>>, <<ServerOf[t], ClientOf[t]>>}
           links == UNION {both(t) : t \in Session}
<1>1. ClientOf[s] \in Node /\ ServerOf[s] \in Node
  BY SyncConstantsOK
<1>2. <<ClientOf[s], ServerOf[s]>> \in links /\ <<ServerOf[s], ClientOf[s]>> \in links
  OBVIOUS
<1>3. CASE m \in log[ServerOf[s]] /\ Shared!Enter(ClientOf[s], m)
  <2>1. Shared!Copy(ClientOf[s], ServerOf[s], m)
    BY <1>2, <1>3 DEF Shared!Copy
  <2> QED
    BY <1>1, <2>1 DEF Shared!Next
<1>4. CASE m \in log[ClientOf[s]] /\ Shared!Enter(ServerOf[s], m)
  <2>1. Shared!Copy(ServerOf[s], ClientOf[s], m)
    BY <1>2, <1>4 DEF Shared!Copy
  <2> QED
    BY <1>1, <2>1 DEF Shared!Next
<1> QED
  BY <1>3, <1>4

LEMMA SharedStep ==
  ASSUME OrderInv, [Next]_vars
  PROVE  [Shared!Next]_(Shared!vars)
<1>1. IInv /\ \A s \in Session : SourceInv(s)
  BY DEF OrderInv
<1>2. ASSUME log' = log, refused' = refused PROVE UNCHANGED Shared!vars
  BY <1>2 DEF Shared!vars
<1>3. CASE UNCHANGED vars
  BY <1>2, <1>3 DEF vars
<1>4. ASSUME NEW n \in Node, NEW m \in Message, Post(n, m) PROVE Shared!Next
  BY <1>4 DEF Post, append_message, Accepts, Shared!Post, Shared!Enter, Shared!Next
<1>5. ASSUME NEW n \in Node, ChangePolicy(n) PROVE Shared!Next
  BY <1>5 DEF ChangePolicy, Shared!ChangePolicy, Shared!Next
<1>6. ASSUME NEW s \in Session, ClientStep(s) PROVE [Shared!Next]_(Shared!vars)
  <2>1. CASE ClientEnvelope(s)
    <3>1. /\ ClientTakes(s, "envelope") /\ refused' = refused
          /\ Head(toClient[s]) \in WireFrame /\ Head(toClient[s]).kind = "envelope"
          /\ Head(toClient[s]) \in Wire(toClient[s])
      BY <1>1, <2>1, ClientTook DEF ClientEnvelope
    <3>2. PICK m \in Head(toClient[s]).body :
             IF Accepts(ClientOf[s], m)
             THEN append_message(ClientOf[s], m) /\ UNCHANGED client
             ELSE client' = [client EXCEPT ![s] = IdleClient] /\ UNCHANGED log
      BY <2>1 DEF ClientEnvelope
    <3>3. m \in Message /\ m \in log[ServerOf[s]]
      BY <1>1, <3>1 DEF SourceInv, Downloads, WireFrame
    <3>4. CASE Accepts(ClientOf[s], m)
      <4>1. Shared!Enter(ClientOf[s], m)
        BY <3>1, <3>2, <3>4 DEF Accepts, append_message, Shared!Enter
      <4> QED
        BY <3>3, <4>1, Linked
    <3>5. CASE ~Accepts(ClientOf[s], m)
      BY <1>2, <3>1, <3>2, <3>5
    <3> QED
      BY <3>4, <3>5
  <2>2. CASE ~ClientEnvelope(s)
    <3>1. log' = log /\ refused' = refused
      BY <1>6, <2>2 DEF ClientStep, Connect, ClientSend, ClientHistory, ClientKeySync,
         ClientChunkDiff, ClientWant, ClientComplete, ClientClosed, ClientTakes
    <3> QED
      BY <1>2, <3>1
  <2> QED
    BY <2>1, <2>2
<1>7. ASSUME NEW s \in Session, ServerStep(s) PROVE [Shared!Next]_(Shared!vars)
  <2>1. CASE ServerCollect(s)
    <3>1. /\ ServerTakes(s, "stream", "envelope") /\ refused' = refused
      BY <2>1 DEF ServerCollect, ServerTakes
    <3>2. PICK m \in Head(toServer[s]).body :
             IF m \in server[s].wanted /\ Accepts(ServerOf[s], m)
             THEN append_message(ServerOf[s], m)
             ELSE UNCHANGED log
      BY <2>1 DEF ServerCollect
    <3>3. CASE m \in server[s].wanted /\ Accepts(ServerOf[s], m)
      <4>1. m \in Message /\ m \in log[ClientOf[s]]
        BY <1>1, <3>3, SessionTypes DEF SourceInv, IInv, ServerState
      <4>2. Shared!Enter(ServerOf[s], m)
        BY <3>1, <3>2, <3>3 DEF Accepts, append_message, Shared!Enter
      <4> QED
        BY <4>1, <4>2, Linked
    <3>4. CASE ~(m \in server[s].wanted /\ Accepts(ServerOf[s], m))
      BY <1>2, <3>1, <3>2, <3>4
    <3> QED
      BY <3>3, <3>4
  <2>2. CASE ~ServerCollect(s)
    <3>1. log' = log /\ refused' = refused
      BY <1>7, <2>2 DEF ServerStep, ServerStatus, ServerHandshake, ServerKeySync,
         ServerChunkDiff, ServerBatch, ServerWant, ServerStream, ServerComplete,
         ServerClosed, ServerTakes, ServerSends
    <3> QED
      BY <1>2, <3>1
  <2> QED
    BY <2>1, <2>2
<1>8. ASSUME NEW s \in Session, Timeout(s) \/ Disconnect(s) PROVE UNCHANGED Shared!vars
  BY <1>1, <1>2, <1>8, LossIsLocal
<1> QED
  BY <1>3, <1>4, <1>5, <1>6, <1>7, <1>8 DEF Next

(* Whatever the frames, the queues, the failures and the retries of the    *)
(* two ends, a log only ever takes what is posted there, or what the other *)
(* end of a session holds and its own policy does not refuse just then.    *)
THEOREM ImplementsSharedLog == Spec => SharedSpec
<1>1. Init => Shared!Init
  BY DEF Init, Shared!Init
<1> QED
  BY <1>1, OrderInit, OrderNext, SharedStep, PTL DEF Spec, SharedSpec, Shared!Spec

-----------------------------------------------------------------------------
(* Neither end waits for a frame that will not come.                       *)

(* A queue of envelopes, each sent once, and one more to send.             *)
LEMMA QueueBound ==
  ASSUME NEW q \in Seq(WireFrame), Distinct(q), NEW out, NEW f \in out, f \in WireFrame,
         out \cap Wire(q) = {},
         NEW S, IsFiniteSet(S), out \cup Wire(q) \subseteq Envelopes(S),
         NEW n \in Nat, Len(q) >= n
  PROVE  Cardinality(S) > n
<1> DEFINE p == Append(q, f)
           k == Len(p)
<1>1. f \in Envelopes(S) /\ f \notin Wire(q)
  OBVIOUS
<1>2. \A g \in Envelopes(S) : \E m \in S : g = Frame("envelope", {m})
  BY DEF Envelopes
<1>3. Distinct(p) /\ Wire(p) = Wire(q) \cup {f} /\ k = Len(q) + 1 /\ k \in Nat
  BY <1>1, DistinctAppend, WireAppend, QueueAppend
<1> HIDE DEF p, k
<1>4. \A i \in 1..k : p[i] \in Envelopes(S)
  BY <1>1, <1>3 DEF Wire, k
<1> DEFINE g == [i \in 1..k |-> CHOOSE m \in S : p[i] = Frame("envelope", {m})]
<1>5. \A i \in 1..k : g[i] \in S /\ p[i] = Frame("envelope", {g[i]})
  BY <1>2, <1>4
<1>6. g \in [1..k -> S]
  BY <1>5
<1> HIDE DEF g
<1>7. IsFiniteSet(1..k) /\ Cardinality(1..k) = k
  BY <1>3, FS_Interval
<1>8. Cardinality(S) \in Nat
  BY FS_CardinalityType
<1>9. ASSUME Cardinality(S) < k PROVE FALSE
  <2> DEFINE D == 1..k
  <2>0. IsFiniteSet(D) /\ Cardinality(S) < Cardinality(D) /\ g \in [D -> S]
    BY <1>6, <1>7, <1>9
  <2> HIDE DEF D
  <2>1. PICK i, j \in D : i # j /\ g[i] = g[j]
    BY <2>0, FS_PigeonHole
  <2>2. p[i] = p[j]
    BY <1>5, <2>1 DEF D
  <2> QED
    BY <1>3, <2>1, <2>2 DEF Distinct, k, D
<1> QED
  BY <1>3, <1>8, <1>9

(* Both ends are blocked only when each has a full connection before it    *)
(* and an envelope to send.                                                *)
LEMMA StuckStreaming ==
  ASSUME OrderInv, NEW s \in Session, Stuck(s)
  PROVE  /\ server[s].pc = "stream"
         /\ client[s].out # {} /\ Len(toServer[s]) >= BufferCap
         /\ server[s].out # {} /\ Len(toClient[s]) >= BufferCap
         /\ Wire(toClient[s]) \subseteq Envelope
<1> DEFINE q == toServer[s]
           r == toClient[s]
           z == server[s].pc
<1>1. /\ client[s].pc = "read" /\ z # "idle"
      /\ client[s].out = {} => r = << >>
      /\ client[s].out # {} => Len(q) >= BufferCap
      /\ ServerReads(s) => q = << >>
      /\ ~ServerReads(s) => Len(r) >= BufferCap
  BY DEF Stuck, ClientWaits, ServerWaits
<1>2. /\ BufferCap \in Nat /\ BufferCap >= 1 /\ Len(q) \in Nat /\ Len(r) \in Nat
      /\ (q = << >> => Len(q) = 0) /\ (r = << >> => Len(r) = 0)
  BY SessionTypes, SyncConstantsOK DEF OrderInv, IInv
<1>3. PhaseInv(s) /\ server[s] \in ServerState
  BY SessionTypes DEF OrderInv, IInv
<1>4. client[s].out # {} => q # << >>
  BY <1>1, <1>2
<1>5. ~ServerReads(s) => r # << >> /\ client[s].out # {} /\ q # << >>
  BY <1>1, <1>2
<1> HIDE DEF q, r
<1>6. z \notin {"status", "policy_sync", "moderation_sync", "key_sync", "chunk_diff", "want"}
  BY <1>1, <1>2, <1>3, <1>5 DEF PhaseInv, Quiet, ServerReads, Collecting, q, r
<1>7. z \notin {"keys", "batch"}
  BY <1>1, <1>2, <1>3, <1>4 DEF PhaseInv, Asking, Quiet, ServerReads, q, r
<1>8. z = "stream"
  BY <1>1, <1>3, <1>6, <1>7 DEF ServerState, Handshake
<1>9. Streaming(s) /\ Uploads(s) \subseteq Envelopes(server[s].wanted)
  BY <1>3, <1>8 DEF PhaseInv, Streaming
<1>10. ~ServerReads(s)
  <2> SUFFICES ASSUME ServerReads(s) PROVE FALSE
    OBVIOUS
  <2>1. server[s].wanted # {} /\ q = << >> /\ client[s].out = {} /\ r = << >>
    BY <1>1, <1>4, <1>8 DEF ServerReads, Collecting
  <2>2. Uploads(s) = {}
    BY <2>1 DEF Uploads, Wire, q
  <2>3. server[s].wanted \subseteq Enveloped(Uploads(s))
    BY <1>1, <1>9, <2>1 DEF Streaming, r
  <2> QED
    BY <2>1, <2>2, <2>3 DEF Enveloped
<1>11. server[s].wanted # {}
  BY <1>5, <1>9, <1>10 DEF Uploads, Envelopes
<1>12. server[s].out # {}
  BY <1>8, <1>10, <1>11 DEF ServerReads, Collecting
<1>13. Wire(r) \subseteq Envelope
  BY <1>5, <1>9, <1>10 DEF Streaming, Quiet, q, r
<1> QED
  BY <1>1, <1>5, <1>8, <1>10, <1>12, <1>13 DEF q, r

(* Logs are finite, and a message posted later is where it was posted      *)
(* before it is anywhere else.                                             *)
LogsInv ==
    /\ \A n \in Node : IsFiniteSet(log[n])
    /\ \A n, k \in Node : \A m \in log[k] : <<n, m>> \in Posts => m \in log[n]

LEMMA LogsInit == Init => LogsInv
  BY SyncConstantsOK DEF Init, LogsInv

LEMMA LogsEnter ==
  ASSUME TypeInv, LogsInv, NEW i \in Node, NEW m \in Message,
         log' = [log EXCEPT ![i] = @ \cup {m}],
         \/ \E k \in Node : m \in log[k]
         \/ \A n \in Node : <<n, m>> \in Posts => n = i
  PROVE  LogsInv'
<1>1. /\ log'[i] = log[i] \cup {m}
      /\ \A n \in Node : log[n] \subseteq log'[n]
      /\ \A n \in Node \ {i} : log'[n] = log[n]
  BY DEF TypeInv
<1>2. IsFiniteSet(log[i] \cup {m})
  BY FS_AddElement DEF LogsInv
<1>3. ASSUME NEW n \in Node PROVE IsFiniteSet(log'[n])
  BY <1>1, <1>2 DEF LogsInv
<1>4. ASSUME NEW n \in Node, NEW k \in Node, NEW h \in log'[k], <<n, h>> \in Posts
      PROVE  h \in log'[n]
  <2>1. CASE \E j \in Node : h \in log[j]
    BY <1>1, <1>4, <2>1 DEF LogsInv
  <2>2. CASE \A j \in Node : h \notin log[j]
    BY <1>1, <1>4, <2>2
  <2> QED
    BY <2>1, <2>2
<1> QED
  BY <1>3, <1>4 DEF LogsInv

LEMMA LogsNext ==
  ASSUME OrderInv, LogsInv, [Next]_vars
  PROVE  LogsInv'
<1>1. [Shared!Next]_(Shared!vars) /\ TypeInv
  BY SharedStep DEF OrderInv, IInv
<1>2. CASE log' = log
  BY <1>2 DEF LogsInv
<1>3. ASSUME NEW n \in Node, NEW m \in Message, Shared!Post(n, m) PROVE LogsInv'
  <2>1. /\ <<n, m>> \in Posts /\ log' = [log EXCEPT ![n] = @ \cup {m}]
    BY <1>3 DEF Shared!Post, Shared!Enter
  <2>2. \A k \in Node : <<k, m>> \in Posts => k = n
    BY <2>1, SyncConstantsOK
  <2> QED
    BY <1>1, <2>1, <2>2, LogsEnter
<1>4. ASSUME NEW n \in Node, NEW m \in Message, NEW k \in Node, Shared!Copy(n, k, m)
      PROVE  LogsInv'
  <2>1. m \in log[k] /\ log' = [log EXCEPT ![n] = @ \cup {m}]
    BY <1>4 DEF Shared!Copy, Shared!Enter
  <2> QED
    BY <1>1, <2>1, LogsEnter
<1> QED
  BY <1>1, <1>2, <1>3, <1>4 DEF Shared!Next, Shared!vars, Shared!ChangePolicy

(* Where no other session concerns the two nodes, what one end has for the *)
(* other, the other lacks.                                                 *)
ApartInv(s) ==
    LET c == log[ClientOf[s]]
        v == log[ServerOf[s]]
        z == server[s]
    IN  /\ z.pc = "batch" =>
             /\ \A m \in c \cap v : BucketOf[m] \in z.differing => m \in z.ids
             /\ \A m \in z.ids : BucketOf[m] \in z.differing
             /\ \A f \in Answers(s) : (z.ids \ f.body) \cap c = {}
        /\ z.pc \in {"want", "stream"} =>
             /\ z.wanted \cap v = {}
             /\ Enveloped(Downloads(s)) \cap c = {}

(* No frame is new, and the two logs are as they were.                     *)
LEMMA ApartLess ==
  ASSUME NEW s \in Session, ApartInv(s), server'[s] = server[s],
         Answers(s)' \subseteq Answers(s), Downloads(s)' \subseteq Downloads(s),
         log'[ClientOf[s]] = log[ClientOf[s]], log'[ServerOf[s]] = log[ServerOf[s]]
  PROVE  ApartInv(s)'
<1>1. Enveloped(Downloads(s)') \subseteq Enveloped(Downloads(s))
  BY EnvelopedMore
<1> QED
  BY <1>1 DEF ApartInv

(* A local post is of a message that neither end holds.                    *)
LEMMA ApartPost ==
  ASSUME OrderInv, LogsInv, NEW s \in Session, Alone(s), ApartInv(s),
         NEW n \in Node, NEW h \in Message, Post(n, h)
  PROVE  ApartInv(s)'
<1> DEFINE c == log[ClientOf[s]]
           v == log[ServerOf[s]]
           z == server[s]
<1>1. /\ ClientOf[s] \in Node /\ ServerOf[s] \in Node /\ ClientOf[s] # ServerOf[s]
  BY SyncConstantsOK DEF Alone
<1>2. /\ \A k \in Node : h \notin log[k]
      /\ log' = [log EXCEPT ![n] = @ \cup {h}] /\ log \in [Node -> SUBSET Message]
      /\ client' = client /\ server' = server /\ toServer' = toServer /\ toClient' = toClient
  BY DEF Post, append_message, LogsInv, OrderInv, IInv, TypeInv
<1>3. /\ c \subseteq log'[ClientOf[s]] /\ \A m \in log'[ClientOf[s]] : m \in c \/ m = h
      /\ v \subseteq log'[ServerOf[s]] /\ \A m \in log'[ServerOf[s]] : m \in v \/ m = h
      /\ ~(h \in log'[ClientOf[s]] /\ h \in log'[ServerOf[s]])
      /\ h \notin c /\ h \notin v
  BY <1>1, <1>2
<1>4. /\ \A f \in Downloads(s) : f.kind = "envelope" => f.body \subseteq v
      /\ z.wanted \subseteq c /\ z.ids \subseteq v
  BY DEF OrderInv, SourceInv
<1>5. h \notin Enveloped(Downloads(s))
  <2>1. Frame("envelope", {h}).kind = "envelope" /\ Frame("envelope", {h}).body = {h}
    BY FrameFacts
  <2> QED
    BY <1>3, <1>4, <2>1 DEF Enveloped
<1>6. Answers(s)' = Answers(s) /\ Downloads(s)' = Downloads(s)
  BY <1>2 DEF Answers, Downloads
<1> HIDE DEF c, v, z
<1>7. z.pc = "batch" =>
        /\ \A m \in log'[ClientOf[s]] \cap log'[ServerOf[s]] :
              BucketOf[m] \in z.differing => m \in z.ids
        /\ \A m \in z.ids : BucketOf[m] \in z.differing
        /\ \A f \in Answers(s) : (z.ids \ f.body) \cap log'[ClientOf[s]] = {}
  BY <1>3, <1>4 DEF ApartInv, c, v, z
<1>8. z.pc \in {"want", "stream"} =>
        /\ z.wanted \cap log'[ServerOf[s]] = {}
        /\ Enveloped(Downloads(s)) \cap log'[ClientOf[s]] = {}
  BY <1>3, <1>4, <1>5 DEF ApartInv, c, v, z
<1> QED
  BY <1>2, <1>6, <1>7, <1>8 DEF ApartInv, z

LEMMA ApartClient ==
  ASSUME OrderInv, NEW s \in Session, Alone(s), ApartInv(s), ClientStep(s)
  PROVE  ApartInv(s)'
<1>0. IInv /\ PhaseInv(s) /\ DiffInv(s)
  BY DEF OrderInv, IInv, SessionInv
<1>1. /\ client[s] \in ClientState /\ server[s] \in ServerState
      /\ toServer[s] \in Seq(WireFrame) /\ toClient[s] \in Seq(WireFrame)
  BY <1>0, SessionTypes DEF IInv
<1>2. ClientOf[s] \in Node /\ ServerOf[s] \in Node /\ ClientOf[s] # ServerOf[s]
  BY SyncConstantsOK DEF Alone
<1>3. ASSUME NEW kind, ClientTakes(s, kind)
      PROVE  /\ client[s].out = {} /\ server'[s] = server[s] /\ toServer'[s] = toServer[s]
             /\ Head(toClient[s]) \in Wire(toClient[s])
             /\ Wire(toClient'[s]) \subseteq Wire(toClient[s])
             /\ Downloads(s)' \subseteq Downloads(s)
  BY <1>0, <1>3, ClientTook DEF Downloads
<1>4. CASE Connect(s)
  <2>1. server'[s].pc = "status"
    BY <1>0, <1>4 DEF Connect, IInv, TypeInv, IdleServer, ServerState
  <2> QED
    BY <2>1 DEF ApartInv
<1>5. CASE ClientSend(s)
  <2>1. PICK f \in client[s].out :
           /\ toServer' = [toServer EXCEPT ![s] = Append(@, f)]
           /\ client' = [client EXCEPT ![s].out = @ \ {f}]
    BY <1>5 DEF ClientSend
  <2>2. /\ f \in WireFrame /\ toServer'[s] = Append(toServer[s], f)
        /\ client'[s].out = client[s].out \ {f} /\ log' = log
        /\ server'[s] = server[s] /\ toClient'[s] = toClient[s]
    BY <1>0, <1>1, <1>5, <2>1 DEF ClientSend, IInv, TypeInv, ClientState, Answer
  <2>3. Answers(s)' = Answers(s) /\ Downloads(s)' = Downloads(s)
    BY <1>1, <2>2, WireAppend DEF Answers, Downloads
  <2> QED
    BY <2>2, <2>3, ApartLess
<1>6. CASE ClientHistory(s) \/ ClientComplete(s) \/ ClientKeySync(s)
  <2>1. PICK kind : ClientTakes(s, kind)
    BY <1>6 DEF ClientHistory, ClientComplete, ClientKeySync
  <2>2. /\ log' = log
        /\ \/ client' = client \/ client' = [client EXCEPT ![s].pc = "done"]
           \/ client' = [client EXCEPT ![s].out = {Frame("key_sync", {})}]
    BY <1>6 DEF ClientHistory, ClientComplete, ClientKeySync
  <2>3. \A f \in client'[s].out : f.kind = "key_sync"
    <3>1. client \in [Session -> ClientState] /\ client[s].out = {}
      BY <1>0, <1>3, <2>1 DEF IInv, TypeInv
    <3>2. client'[s].out \in {{}, {Frame("key_sync", {})}}
      BY <2>2, <3>1 DEF ClientState
    <3> QED
      BY <3>2, FrameFacts
  <2>4. Answers(s)' \subseteq Answers(s)
    BY <1>3, <2>1, <2>3 DEF Answers
  <2> QED
    BY <1>3, <2>1, <2>2, <2>4, ApartLess
<1>7. CASE ClientChunkDiff(s)
  <2> DEFINE f == Frame("chunk_ids", chunk_ids(log[ClientOf[s]], Head(toClient[s]).body))
  <2>1. ClientTakes(s, "chunk_diff") /\ log' = log /\ client'[s].out = {f}
    BY <1>0, <1>7 DEF ClientChunkDiff, IInv, TypeInv
  <2>2. server[s].pc \notin {"want", "stream"} /\ server'[s] = server[s]
    BY <1>0, <2>1, PhaseTakes
  <2>3. ASSUME server[s].pc = "batch"
        PROVE  /\ f.body = chunk_ids(log[ClientOf[s]], server[s].differing)
               /\ (server[s].ids \ f.body) \cap log[ClientOf[s]] = {}
    <3>1. Head(toClient[s]) \in Asked(s)
      BY <1>0, <2>1, ClientTook DEF Asked
    <3>2. f.body = chunk_ids(log[ClientOf[s]], server[s].differing)
      BY <1>0, <2>3, <3>1, FrameFacts DEF DiffInv
    <3> QED
      BY <2>3, <3>2 DEF ApartInv, chunk_ids
  <2>4. \A g \in Answers(s)' : g \in Answers(s) \/ g = f
    BY <1>3, <2>1 DEF Answers
  <2> HIDE DEF f
  <2> QED
    BY <2>1, <2>2, <2>3, <2>4 DEF ApartInv
<1>8. CASE ClientWant(s)
  <2> DEFINE ids == Head(toClient[s]).body
  <2>1. ClientTakes(s, "want") /\ log' = log /\ client'[s].out = Envelopes(ids)
    BY <1>0, <1>8 DEF ClientWant, IInv, TypeInv
  <2>2. ids \in SUBSET Message
    BY <1>0, <2>1, ClientTook DEF WireFrame
  <2>3. Answers(s)' \subseteq Answers(s)
    BY <1>3, <2>1, <2>2, EnvelopeFacts DEF Answers
  <2> QED
    BY <1>3, <2>1, <2>3, ApartLess
<1>9. CASE ClientEnvelope(s)
  <2> DEFINE f == Head(toClient[s])
             r == toClient[s]
  <2>1. ClientTakes(s, "envelope")
    BY <1>9 DEF ClientEnvelope
  <2>2. PICK m \in f.body :
           IF Accepts(ClientOf[s], m)
           THEN append_message(ClientOf[s], m) /\ UNCHANGED client
           ELSE client' = [client EXCEPT ![s] = IdleClient] /\ UNCHANGED log
    BY <1>9 DEF ClientEnvelope
  <2>3. CASE ~Accepts(ClientOf[s], m)
    <3>1. client'[s].out = {} /\ log' = log
      BY <1>0, <2>2, <2>3 DEF IdleClient, IInv, TypeInv
    <3>2. Answers(s)' \subseteq Answers(s)
      BY <1>3, <2>1, <3>1 DEF Answers
    <3> QED
      BY <1>3, <2>1, <3>1, <3>2, ApartLess
  <2>4. CASE Accepts(ClientOf[s], m)
    <3>1. /\ log'[ClientOf[s]] = log[ClientOf[s]] \cup {m}
          /\ log'[ServerOf[s]] = log[ServerOf[s]]
          /\ client' = client
      BY <1>0, <1>2, <2>2, <2>4 DEF append_message, IInv, TypeInv
    <3>2. /\ server'[s] = server[s] /\ server[s].pc \notin {"batch", "want"}
          /\ server[s].pc = "stream" => Wire(r) \subseteq Envelope
          /\ r # << >> /\ toClient'[s] = Tail(r)
      BY <1>0, <2>1, PhaseTakes
    <3>3. ASSUME server[s].pc = "stream"
          PROVE  /\ server[s].wanted \cap log'[ServerOf[s]] = {}
                 /\ Enveloped(Downloads(s)') \cap log'[ClientOf[s]] = {}
      <4>1. Distinct(r) /\ server[s].out \cap Wire(r) = {}
        BY <1>0, <3>3 DEF PhaseInv, Streaming
      <4>2. Wire(Tail(r)) = Wire(r) \ {f} /\ f \in Wire(r) /\ f \in Envelope
        BY <1>1, <1>3, <2>1, <3>2, <3>3, <4>1, DistinctTail
      <4>3. f \notin Downloads(s)'
        BY <3>2, <4>1, <4>2 DEF Downloads
      <4>4. f = Frame("envelope", {m})
        BY <4>2, EnvelopeShape
      <4>5. Enveloped(Downloads(s)') \subseteq Enveloped(Downloads(s))
        BY <1>3, <2>1, EnvelopedMore
      <4>6. m \notin Enveloped(Downloads(s)')
        BY <4>3, <4>4 DEF Enveloped
      <4> QED
        BY <3>1, <3>3, <4>5, <4>6 DEF ApartInv
    <3> QED
      BY <3>2, <3>3 DEF ApartInv
  <2> QED
    BY <2>3, <2>4
<1>10. CASE ClientClosed(s)
  <2>1. /\ client'[s].out = {} /\ log' = log /\ server'[s] = server[s]
        /\ toServer'[s] = toServer[s] /\ toClient'[s] = toClient[s]
    BY <1>0, <1>10 DEF ClientClosed, IdleClient, IInv, TypeInv
  <2>2. Answers(s)' \subseteq Answers(s) /\ Downloads(s)' = Downloads(s)
    BY <2>1 DEF Answers, Downloads
  <2> QED
    BY <2>1, <2>2, ApartLess
<1> QED
  BY <1>4, <1>5, <1>6, <1>7, <1>8, <1>9, <1>10 DEF ClientStep

LEMMA ApartServer ==
  ASSUME OrderInv, NEW s \in Session, Alone(s), ApartInv(s), ServerStep(s)
  PROVE  ApartInv(s)'
<1>0. IInv /\ PhaseInv(s) /\ DiffInv(s) /\ SourceInv(s)
  BY DEF OrderInv, IInv, SessionInv
<1>1. /\ client[s] \in ClientState /\ server[s] \in ServerState
      /\ toServer[s] \in Seq(WireFrame) /\ toClient[s] \in Seq(WireFrame)
      /\ server \in [Session -> ServerState]
  BY <1>0, SessionTypes DEF IInv, TypeInv
<1>2. ClientOf[s] \in Node /\ ServerOf[s] \in Node /\ ClientOf[s] # ServerOf[s]
  BY SyncConstantsOK DEF Alone
<1>3. CASE server'[s].pc \notin {"batch", "want", "stream"}
  BY <1>3 DEF ApartInv
<1>4. CASE ServerStatus(s) \/ ServerKeySync(s)
  <2>1. server'[s].pc \in {"policy_sync", "chunk_diff"}
    BY <1>1, <1>4 DEF ServerStatus, ServerKeySync, ServerState
  <2> QED
    BY <1>3, <2>1
<1>5. CASE ServerHandshake(s)
  <2>1. server'[s].pc \in {"moderation_sync", "key_sync", "keys"}
    BY <1>1, <1>5 DEF ServerHandshake, HandshakeAfter, ServerState
  <2> QED
    BY <1>3, <2>1
<1>6. CASE ServerChunkDiff(s)
  <2>1. /\ server[s].pc = "chunk_diff" /\ server'[s].pc = "batch" /\ log' = log
        /\ server'[s].differing = server[s].differing
        /\ server'[s].ids = chunk_ids(log[ServerOf[s]], server[s].differing)
        /\ client'[s] = client[s] /\ toServer'[s] = toServer[s]
    BY <1>1, <1>6 DEF ServerChunkDiff, ServerSends, ServerState
  <2>2. Answers(s)' = {}
    BY <1>0, <2>1 DEF Answers, DiffInv
  <2> QED
    BY <2>1, <2>2 DEF ApartInv, chunk_ids
<1>7. CASE ServerBatch(s)
  <2> DEFINE f == Head(toServer[s])
             left == server[s].ids \ f.body
  <2>1. /\ ServerTakes(s, "batch", "chunk_ids") /\ log' = log
        /\ server'[s].pc = "want" /\ server'[s].wanted = f.body \ server[s].ids
        /\ server'[s].out = Envelopes(left)
    BY <1>1, <1>7 DEF ServerBatch, ServerState
  <2>2. /\ server[s].pc = "batch" /\ f \in Wire(toServer[s]) /\ f.kind = "chunk_ids"
        /\ toClient'[s] = toClient[s] /\ toServer[s] # << >>
    BY <1>0, <2>1, ServerTook DEF ServerTakes
  <2>3. f \in Answers(s) /\ f \in Uploads(s)
    BY <2>2 DEF Answers, Uploads
  <2>4. Wire(toClient[s]) = {}
    BY <1>0, <1>1, <2>2, WireEmpty DEF PhaseInv, Asking, Quiet
  <2> HIDE DEF f
  <2>5. server'[s].wanted \cap log'[ServerOf[s]] = {}
    <3>1. f.body \subseteq log[ClientOf[s]]
      BY <1>0, <2>2, <2>3 DEF SourceInv
    <3>2. \A m \in f.body : BucketOf[m] \in server[s].differing
      BY <1>0, <2>2, <2>3 DEF DiffInv
    <3> QED
      BY <2>1, <2>2, <3>1, <3>2 DEF ApartInv
  <2>6. Enveloped(Downloads(s)') \subseteq left
    <3>1. Downloads(s)' = Envelopes(left)
      BY <2>1, <2>2, <2>4 DEF Downloads
    <3>2. \A m \in Message : Frame("envelope", {m}) \in Envelopes(left) => {m} \subseteq left
      BY EnvelopeBodies, FrameFacts
    <3> QED
      BY <3>1, <3>2 DEF Enveloped
  <2>7. left \cap log'[ClientOf[s]] = {}
    BY <2>1, <2>2, <2>3 DEF ApartInv
  <2> HIDE DEF left
  <2> QED
    BY <2>1, <2>5, <2>6, <2>7 DEF ApartInv
<1>8. CASE ServerWant(s)
  <2> DEFINE f == Frame("want", server[s].wanted)
  <2>1. /\ ServerSends(s, "want", f) /\ log' = log
        /\ server'[s].pc = "stream" /\ server'[s].wanted = server[s].wanted
        /\ server'[s].out = server[s].out
    BY <1>1, <1>8 DEF ServerWant, ServerSends, ServerState
  <2>2. f \in WireFrame /\ f.kind = "want"
    BY <1>1, FrameFacts DEF ServerState
  <2>3. server[s].pc = "want" /\ Wire(toClient'[s]) = Wire(toClient[s]) \cup {f}
    BY <1>0, <2>1, <2>2, ServerSent
  <2> HIDE DEF f
  <2>4. Downloads(s)' \subseteq Downloads(s) \cup {f}
    BY <2>1, <2>3 DEF Downloads
  <2> DEFINE F == Downloads(s)'
             G == Downloads(s)
  <2>5. F \subseteq G \cup {f}
    BY <2>4
  <2> HIDE DEF F, G
  <2>6. Enveloped(F) \subseteq Enveloped(G)
    BY <2>2, <2>5, EnvelopedLess
  <2> QED
    BY <2>1, <2>3, <2>6 DEF ApartInv, F, G
<1>9. CASE ServerStream(s)
  <2>1. PICK f \in server[s].out :
          ServerSends(s, "stream", f) /\ server' = [server EXCEPT ![s].out = @ \ {f}]
    BY <1>9 DEF ServerStream
  <2>2. /\ server'[s].out = server[s].out \ {f} /\ server'[s].wanted = server[s].wanted
        /\ server'[s].pc = server[s].pc /\ f \in WireFrame /\ log' = log
    BY <1>1, <2>1 DEF ServerState, ServerSends
  <2>3. server[s].pc = "stream" /\ Wire(toClient'[s]) = Wire(toClient[s]) \cup {f}
    BY <1>0, <2>1, <2>2, ServerSent
  <2>4. Downloads(s)' = Downloads(s)
    BY <2>2, <2>3 DEF Downloads
  <2> QED
    BY <2>2, <2>3, <2>4 DEF ApartInv
<1>10. CASE ServerCollect(s)
  <2>1. ServerTakes(s, "stream", "envelope")
    BY <1>10 DEF ServerCollect
  <2>2. PICK m \in Head(toServer[s]).body :
           IF m \in server[s].wanted /\ Accepts(ServerOf[s], m)
           THEN /\ append_message(ServerOf[s], m)
                /\ server' = [server EXCEPT ![s].wanted = @ \ {m}]
           ELSE server' = [server EXCEPT ![s] = IdleServer] /\ UNCHANGED log
    BY <1>10 DEF ServerCollect
  <2>3. CASE m \in server[s].wanted /\ Accepts(ServerOf[s], m)
    <3>1. /\ log'[ServerOf[s]] = log[ServerOf[s]] \cup {m}
          /\ log'[ClientOf[s]] = log[ClientOf[s]]
      BY <1>0, <1>2, <2>2, <2>3 DEF append_message, IInv, TypeInv
    <3>2. /\ server'[s].pc = "stream" /\ server[s].pc = "stream"
          /\ server'[s].wanted = server[s].wanted \ {m} /\ server'[s].out = server[s].out
          /\ toClient'[s] = toClient[s]
      BY <1>1, <2>1, <2>2, <2>3 DEF ServerTakes, ServerState
    <3>3. Downloads(s)' = Downloads(s)
      BY <3>2 DEF Downloads
    <3> QED
      BY <3>1, <3>2, <3>3 DEF ApartInv
  <2>4. CASE ~(m \in server[s].wanted /\ Accepts(ServerOf[s], m))
    <3>1. server'[s].pc = "idle"
      BY <1>1, <2>2, <2>4 DEF IdleServer
    <3> QED
      BY <1>3, <3>1
  <2> QED
    BY <2>3, <2>4
<1>11. CASE ServerComplete(s) \/ ServerClosed(s)
  <2>1. server'[s].pc = "idle"
    BY <1>1, <1>11 DEF ServerComplete, ServerClosed, IdleServer
  <2> QED
    BY <1>3, <2>1
<1> QED
  BY <1>4, <1>5, <1>6, <1>7, <1>8, <1>9, <1>10, <1>11 DEF ServerStep

(* A step of another session changes the logs of its own nodes.            *)
LEMMA LogsElsewhere ==
  ASSUME IInv, NEW t \in Session, ClientStep(t) \/ ServerStep(t),
         NEW n \in Node, n \notin {ClientOf[t], ServerOf[t]}
  PROVE  log'[n] = log[n]
<1>1. \/ log' = log
      \/ \E k \in {ClientOf[t], ServerOf[t]}, m \in Message : append_message(k, m)
  <2>1. CASE ClientEnvelope(t)
    <3>1. Head(toClient[t]) \in WireFrame /\ Head(toClient[t]).kind = "envelope"
      BY <2>1, ClientTook DEF ClientEnvelope
    <3> QED
      BY <2>1, <3>1 DEF ClientEnvelope, WireFrame
  <2>2. CASE ServerCollect(t)
    <3>1. Head(toServer[t]) \in WireFrame /\ Head(toServer[t]).kind = "envelope"
      BY <2>2, ServerTook DEF ServerCollect
    <3> QED
      BY <2>2, <3>1 DEF ServerCollect, WireFrame
  <2>3. CASE ~ClientEnvelope(t) /\ ~ServerCollect(t)
    BY <2>3 DEF ClientStep, Connect, ClientSend, ClientHistory, ClientKeySync,
       ClientChunkDiff, ClientWant, ClientComplete, ClientClosed, ClientTakes,
       ServerStep, ServerStatus, ServerHandshake, ServerKeySync, ServerChunkDiff,
       ServerBatch, ServerWant, ServerStream, ServerComplete, ServerClosed,
       ServerTakes, ServerSends
  <2> QED
    BY <2>1, <2>2, <2>3
<1> QED
  BY <1>1 DEF append_message, IInv, TypeInv

BacklogInv == OrderInv /\ LogsInv /\ \A s \in Session : Alone(s) => ApartInv(s)

LEMMA BacklogInit == Init => BacklogInv
<1> SUFFICES ASSUME Init, NEW s \in Session PROVE ApartInv(s)
  BY OrderInit, LogsInit DEF BacklogInv
<1> QED
  BY DEF Init, IdleServer, ApartInv

LEMMA BacklogNext == BacklogInv /\ [Next]_vars => BacklogInv'
<1> SUFFICES ASSUME BacklogInv, [Next]_vars PROVE BacklogInv'
  OBVIOUS
<1>1. OrderInv /\ LogsInv /\ IInv /\ OrderInv' /\ LogsInv'
  BY OrderNext, LogsNext DEF BacklogInv, OrderInv
<1> SUFFICES ASSUME NEW s \in Session, Alone(s) PROVE ApartInv(s)'
  BY <1>1 DEF BacklogInv, Alone
<1>2. ApartInv(s) /\ ClientOf[s] \in Node /\ ServerOf[s] \in Node
  BY SyncConstantsOK DEF BacklogInv
<1>3. ASSUME log'[ClientOf[s]] = log[ClientOf[s]], log'[ServerOf[s]] = log[ServerOf[s]],
             client'[s] = client[s], server'[s] = server[s],
             toServer'[s] = toServer[s], toClient'[s] = toClient[s]
      PROVE  ApartInv(s)'
  <2>1. Answers(s)' = Answers(s) /\ Downloads(s)' = Downloads(s)
    BY <1>3 DEF Answers, Downloads
  <2> QED
    BY <1>2, <1>3, <2>1, ApartLess
<1>4. CASE UNCHANGED vars
  BY <1>3, <1>4 DEF vars
<1>5. ASSUME NEW n \in Node, NEW m \in Message, Post(n, m) PROVE ApartInv(s)'
  BY <1>1, <1>2, <1>5, ApartPost
<1>6. ASSUME NEW n \in Node, ChangePolicy(n) PROVE ApartInv(s)'
  BY <1>3, <1>6 DEF ChangePolicy
<1>7. ASSUME ClientStep(s) \/ ServerStep(s) PROVE ApartInv(s)'
  BY <1>1, <1>2, <1>7, ApartClient, ApartServer
<1>8. ASSUME NEW t \in Session \ {s}, ClientStep(t) \/ ServerStep(t) PROVE ApartInv(s)'
  <2>1. /\ ClientOf[s] \notin {ClientOf[t], ServerOf[t]}
        /\ ServerOf[s] \notin {ClientOf[t], ServerOf[t]}
    BY DEF Alone
  <2>2. log'[ClientOf[s]] = log[ClientOf[s]] /\ log'[ServerOf[s]] = log[ServerOf[s]]
    BY <1>1, <1>2, <1>8, <2>1, LogsElsewhere
  <2>3. Only(t)
    BY <1>1, <1>8, ClientIsLocal, ServerIsLocal
  <2> QED
    BY <1>3, <2>2, <2>3 DEF Only
<1>9. ASSUME NEW t \in Session, Timeout(t) \/ Disconnect(t) PROVE ApartInv(s)'
  <2>1. /\ Only(t) /\ log' = log /\ toServer' = toServer /\ toClient' = toClient
        /\ \/ client'[t] = IdleClient /\ server'[t] = server[t]
           \/ server'[t] = IdleServer /\ client'[t] = client[t]
    BY <1>1, <1>9, LossIsLocal
  <2>2. CASE t # s
    BY <1>3, <2>1, <2>2 DEF Only
  <2>3. CASE server'[s] = IdleServer
    BY <2>3 DEF ApartInv, IdleServer
  <2>4. CASE client'[s] = IdleClient /\ server'[s] = server[s]
    <3>1. Answers(s)' \subseteq Answers(s) /\ Downloads(s)' = Downloads(s)
      BY <2>1, <2>4 DEF Answers, Downloads, IdleClient
    <3> QED
      BY <1>2, <2>1, <2>4, <3>1, ApartLess
  <2> QED
    BY <2>1, <2>2, <2>3, <2>4
<1> QED
  BY <1>4, <1>5, <1>6, <1>7, <1>8, <1>9 DEF Next

(* run_sync and sync_from_peer_inner never both wait for a frame: they can *)
(* be blocked only when each has a connection full of envelopes before it  *)
(* and one more to send, and those are messages the other end lacks.       *)
THEOREM BlockedOnlyByBacklog == Spec => []StuckOnlyByBacklog
<1>1. BacklogInv => StuckOnlyByBacklog
  <2> SUFFICES ASSUME BacklogInv, NEW s \in Session, Alone(s), Stuck(s)
               PROVE  /\ Cardinality(log[ClientOf[s]] \ log[ServerOf[s]]) > BufferCap
                      /\ Cardinality(log[ServerOf[s]] \ log[ClientOf[s]]) > BufferCap
    BY DEF StuckOnlyByBacklog
  <2> DEFINE c == log[ClientOf[s]]
             v == log[ServerOf[s]]
             z == server[s]
             q == toServer[s]
             r == toClient[s]
             out == client[s].out
  <2>1. OrderInv /\ IInv /\ LogsInv /\ PhaseInv(s) /\ SourceInv(s) /\ ApartInv(s)
    BY DEF BacklogInv, OrderInv
  <2>2. /\ z.pc = "stream" /\ out # {} /\ z.out # {}
        /\ Len(q) >= BufferCap /\ Len(r) >= BufferCap /\ Wire(r) \subseteq Envelope
    BY <2>1, StuckStreaming
  <2>3. /\ q \in Seq(WireFrame) /\ r \in Seq(WireFrame) /\ BufferCap \in Nat
        /\ out \subseteq WireFrame /\ z.out \subseteq WireFrame
    BY <2>1, SessionTypes, SyncConstantsOK DEF IInv, ClientState, Answer, ServerState
  <2>4. /\ out \cup Wire(q) \subseteq Envelopes(z.wanted)
        /\ Distinct(q) /\ out \cap Wire(q) = {} /\ z.out \subseteq Envelope
        /\ Distinct(r) /\ z.out \cap Wire(r) = {}
    BY <2>1, <2>2 DEF PhaseInv, Streaming, Uploads
  <2>5. IsFiniteSet(c \ v) /\ IsFiniteSet(v \ c)
    <3>1. IsFiniteSet(c) /\ IsFiniteSet(v)
      BY <2>1, SyncConstantsOK DEF LogsInv
    <3>2. c \ v \in SUBSET c /\ v \ c \in SUBSET v
      OBVIOUS
    <3> QED
      BY <3>1, <3>2, FS_Subset
  <2>6. out \cup Wire(q) \subseteq Envelopes(c \ v)
    <3>1. z.wanted \subseteq c \ v
      BY <2>1, <2>2 DEF ApartInv, SourceInv
    <3> QED
      BY <2>4, <3>1 DEF Envelopes
  <2>7. z.out \cup Wire(r) \subseteq Envelopes(v \ c)
    <3> SUFFICES ASSUME NEW f \in z.out \cup Wire(r) PROVE f \in Envelopes(v \ c)
      OBVIOUS
    <3>1. f \in Envelope /\ f \in Downloads(s)
      BY <2>2, <2>4 DEF Downloads
    <3>2. PICK m \in Message : f.body = {m} /\ f = Frame("envelope", {m}) /\ f.kind = "envelope"
      BY <3>1, EnvelopeShape
    <3>3. m \in v
      BY <2>1, <3>1, <3>2 DEF SourceInv
    <3>4. m \in Enveloped(Downloads(s))
      BY <3>1, <3>2 DEF Enveloped
    <3>5. m \notin c
      BY <2>1, <2>2, <3>4 DEF ApartInv
    <3> QED
      BY <3>2, <3>3, <3>5 DEF Envelopes
  <2> HIDE DEF c, v, z, q, r, out
  <2>8. Cardinality(c \ v) > BufferCap
    <3>1. PICK f \in out : f \in WireFrame
      BY <2>2, <2>3
    <3> QED
      BY <2>2, <2>3, <2>4, <2>5, <2>6, <3>1, QueueBound
  <2>9. Cardinality(v \ c) > BufferCap
    <3> DEFINE sent == z.out
    <3>1. PICK f \in sent : f \in WireFrame
      BY <2>2, <2>3
    <3>2. sent \cap Wire(r) = {} /\ sent \cup Wire(r) \subseteq Envelopes(v \ c)
      BY <2>4, <2>7
    <3> HIDE DEF sent
    <3> QED
      BY <2>2, <2>3, <2>4, <2>5, <3>1, <3>2, QueueBound
  <2> QED
    BY <2>8, <2>9 DEF c, v
<1> QED
  BY <1>1, BacklogInit, BacklogNext, PTL DEF Spec
==============================================================================
