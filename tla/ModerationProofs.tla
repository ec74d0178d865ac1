---------------------------- MODULE ModerationProofs ----------------------------
(***************************************************************************)
(* TLAPS proofs about the moderation histories, over the proofs about the  *)
(* policy histories they name, for any nodes, identities, edits and        *)
(* bounds.                                                                 *)
(***************************************************************************)
EXTENDS Moderation, PolicyHistoryProofs

Heads == {h \in Seq(PolicyEvent) : Len(h) <= MaxEvents}

ModEvent == [actor : Identity, head : Heads, action : {e[2] : e \in ModEdits}]

ModFile == [exists : {TRUE}, events : Seq(ModEvent), tail : {"clean", "open", "bad"}]

ModsTyped == mods \in [Node -> ModFile]

ModSavedTyped == modSaved \in [Node -> SUBSET Seq(ModEvent)]

ExchangeTyped ==
    exchange \subseteq [client : Node, server : Node,
                        stage : {"status", "admitted", "update", "conflict"},
                        mods : Seq(ModEvent)]

(* The moderation part of a session is under way once at a time.           *)
OneExchange ==
    \A x, y \in exchange : x.client = y.client /\ x.server = y.server => x = y

CutsTyped == cuts \in 0..MaxCuts

(* The types, which need the policy histories to be well-formed too.       *)
ModTypes == ModsTyped /\ ModSavedTyped /\ ExchangeTyped /\ OneExchange /\ CutsTyped

Held(n) == modSaved[n] \cup {mods[n].events}

(* What a step leaves in the files of a node comes from what was there or  *)
(* from a history that replays on this node.                               *)
HeldKnown ==
    \A n \in Node : \A h \in Held(n)' :
       \E g \in Seq(ModEvent) :
          Prefix(h, g) /\ (g \in Held(n) \/ ValidModeration(file[n].events, g))

(* A step loses no branch: the current one grows or is saved.              *)
HeldStays ==
    \A n \in Node : /\ modSaved[n] \subseteq modSaved'[n]
                    /\ \E g \in Held(n)' : Prefix(mods[n].events, g)

-----------------------------------------------------------------------------
(* Replay.                                                                 *)

(* derive_moderation still succeeds on a shorter history and with a longer *)
(* policy history: the heads are looked up in it, the roles at the heads.  *)
LEMMA ModerationMonotone ==
  ASSUME NEW p \in Seq(PolicyEvent), NEW q \in Seq(PolicyEvent), Prefix(p, q),
         NEW g \in Seq(ModEvent), NEW h \in Seq(ModEvent), Prefix(g, h),
         ValidModeration(p, h)
  PROVE  ValidModeration(q, g)
  <1>1. \A i \in 1..Len(g) : g[i] = h[i] /\ i \in 1..Len(h)
    BY PrefixElements
  <1>2. ASSUME NEW i \in 1..Len(g)
        PROVE  /\ g[i].head # << >> /\ Prefix(g[i].head, q)
               /\ may_moderate(derive_policy(g[i].head), g[i].actor)
    <2>1. g[i] = h[i] /\ i \in 1..Len(h)
      BY <1>1
    <2>2. h[i] \in ModEvent
      BY <2>1
    <2>3. h[i].head \in Seq(PolicyEvent)
      BY <2>2 DEF ModEvent, Heads
    <2>4. /\ h[i].head # << >> /\ Prefix(h[i].head, p)
          /\ may_moderate(derive_policy(h[i].head), h[i].actor)
      BY <2>1 DEF ValidModeration
    <2>5. Prefix(h[i].head, q)
      BY <2>3, <2>4, PrefixTransitive
    <2> QED
      BY <2>1, <2>4, <2>5
  <1> QED
    BY <1>2 DEF ValidModeration

-----------------------------------------------------------------------------
(* Files.                                                                  *)

LEMMA ModAppended ==
  ASSUME NEW f \in ModFile, NEW evs \in Seq(ModEvent)
  PROVE  /\ AppendTo(f, evs) \in ModFile
         /\ AppendTo(f, evs).events = f.events \o evs
         /\ Prefix(f.events, f.events \o evs)
  <1>1. f.events \in Seq(ModEvent)
    BY DEF ModFile
  <1>2. Prefix(f.events, f.events \o evs) /\ f.events \o evs \in Seq(ModEvent)
    BY <1>1, PrefixFacts
  <1> QED
    BY <1>2 DEF AppendTo, ModFile

LEMMA ModParts ==
  ASSUME NEW f \in ModFile, NEW evs \in Seq(ModEvent), NEW x \in PartsOf(f, evs)
  PROVE  x \in ModFile /\ Prefix(x.events, f.events \o evs)
  <1> DEFINE part(k) == AppendTo(f, SubSeq(evs, 1, k))
  <1>0. f.events \in Seq(ModEvent) /\ Len(evs) \in Nat
    BY DEF ModFile
  <1>1. ASSUME NEW k \in 0..Len(evs), NEW t \in {"clean", "open", "bad"}
        PROVE  LET y == [part(k) EXCEPT !.tail = t]
               IN  y \in ModFile /\ Prefix(y.events, f.events \o evs)
    <2>1. /\ SubSeq(evs, 1, k) \in Seq(ModEvent)
          /\ Prefix(f.events \o SubSeq(evs, 1, k), f.events \o evs)
      BY <1>0, PrefixFacts
    <2>2. part(k) \in ModFile /\ part(k).events = f.events \o SubSeq(evs, 1, k)
      BY <2>1, ModAppended
    <2> HIDE DEF part
    <2>3. LET y == [part(k) EXCEPT !.tail = t]
          IN  y \in ModFile /\ y.events = f.events \o SubSeq(evs, 1, k)
      BY <2>2 DEF ModFile
    <2> QED
      BY <2>1, <2>3
  <1>2. CASE x = AppendTo(f, << >>)
    <2>1. << >> \in Seq(ModEvent) /\ f.events \o << >> = f.events
      BY <1>0
    <2>2. Prefix(f.events, f.events \o evs)
      BY ModAppended
    <2> QED
      BY <1>2, <2>1, <2>2, ModAppended
  <1>3. CASE \E k \in 1..Len(evs), t \in {"clean", "open"} :
               x = [part(k) EXCEPT !.tail = IF @ = "bad" THEN @ ELSE t]
    <2>1. PICK k \in 1..Len(evs), t \in {"clean", "open"} :
               x = [part(k) EXCEPT !.tail = IF @ = "bad" THEN @ ELSE t]
      BY <1>3
    <2> DEFINE u == IF part(k).tail = "bad" THEN part(k).tail ELSE t
    <2>2. x = [part(k) EXCEPT !.tail = u] /\ u \in {"clean", "open", "bad"}
      BY <2>1
    <2>3. k \in 0..Len(evs)
      BY <1>0
    <2> HIDE DEF u, part
    <2> QED
      BY <1>1, <2>2, <2>3
  <1>4. CASE \E k \in 0..(Len(evs) - 1) : x = [part(k) EXCEPT !.tail = "bad"]
    <2>1. PICK k \in 0..(Len(evs) - 1) : x = [part(k) EXCEPT !.tail = "bad"]
      BY <1>4
    <2>2. k \in 0..Len(evs)
      BY <1>0
    <2> HIDE DEF part
    <2> QED
      BY <1>1, <2>1, <2>2
  <1>5. \/ x = AppendTo(f, << >>)
        \/ \E k \in 1..Len(evs), t \in {"clean", "open"} :
              x = [part(k) EXCEPT !.tail = IF @ = "bad" THEN @ ELSE t]
        \/ \E k \in 0..(Len(evs) - 1) : x = [part(k) EXCEPT !.tail = "bad"]
    BY DEF PartsOf
  <1> QED
    BY <1>2, <1>3, <1>4, <1>5

LEMMA ModHeld ==
  ASSUME ModTypes, NEW n \in Node
  PROVE  /\ mods[n] \in ModFile /\ mods[n].events \in Seq(ModEvent)
         /\ moderation(n) = mods[n].events
         /\ Held(n) \subseteq Seq(ModEvent)
         /\ \A h \in Held(n) : Prefix(h, h)
  <1>1. mods[n] \in ModFile /\ mods[n].events \in Seq(ModEvent)
    BY DEF ModTypes, ModsTyped, ModFile
  <1>2. Held(n) \subseteq Seq(ModEvent)
    BY <1>1 DEF ModTypes, ModSavedTyped, Held
  <1>3. \A h \in Held(n) : Prefix(h, h)
    BY <1>2, PrefixFacts
  <1> QED
    BY <1>1, <1>2, <1>3 DEF moderation

(* One node's files change.                                                *)
LEMMA NodeChanged ==
  ASSUME ModTypes, NEW n \in Node, NEW f \in ModFile, NEW H \in SUBSET Seq(ModEvent),
         mods' = [mods EXCEPT ![n] = f], modSaved' = [modSaved EXCEPT ![n] = H],
         \A h \in H \cup {f.events} : \E g \in Seq(ModEvent) :
            Prefix(h, g) /\ (g \in Held(n) \/ ValidModeration(file[n].events, g))
  PROVE  /\ ModsTyped' /\ ModSavedTyped' /\ HeldKnown
         /\ modSaved[n] \subseteq H
            /\ (\E g \in H \cup {f.events} : Prefix(mods[n].events, g)) => HeldStays
  <1>1. \A m \in Node : /\ mods'[m] = IF m = n THEN f ELSE mods[m]
                        /\ modSaved'[m] = IF m = n THEN H ELSE modSaved[m]
    BY DEF ModTypes, ModsTyped, ModSavedTyped
  <1>2. ModsTyped' /\ ModSavedTyped'
    BY DEF ModTypes, ModsTyped, ModSavedTyped
  <1>3. \A m \in Node : Held(m)' = IF m = n THEN H \cup {f.events} ELSE Held(m)
    BY <1>1 DEF Held
  <1>4. \A m \in Node : /\ mods[m].events \in Held(m) /\ Held(m) \subseteq Seq(ModEvent)
                        /\ \A h \in Held(m) : Prefix(h, h)
    BY ModHeld DEF Held
  <1>5. HeldKnown
    BY <1>3, <1>4 DEF HeldKnown
  <1>6. modSaved[n] \subseteq H /\ (\E g \in H \cup {f.events} : Prefix(mods[n].events, g))
          => HeldStays
    BY <1>1, <1>3, <1>4 DEF HeldStays
  <1> QED
    BY <1>2, <1>5, <1>6

LEMMA NoneChanged ==
  ASSUME ModTypes, mods' = mods, modSaved' = modSaved
  PROVE  ModsTyped' /\ ModSavedTyped' /\ HeldKnown /\ HeldStays
  <1>1. \A m \in Node : /\ mods[m].events \in Held(m) /\ Held(m) \subseteq Seq(ModEvent)
                        /\ \A h \in Held(m) : Prefix(h, h)
    BY ModHeld DEF Held
  <1>2. \A m \in Node : Held(m)' = Held(m)
    BY DEF Held
  <1>3. HeldKnown
    BY <1>1, <1>2 DEF HeldKnown
  <1>4. HeldStays
    BY <1>1, <1>2 DEF HeldStays
  <1> QED
    BY <1>3, <1>4 DEF ModTypes, ModsTyped, ModSavedTyped

(* A remote history that extends the local one.                            *)
LEMMA ModRemote ==
  ASSUME ModTypes, ReplayInv, NEW n \in Node, NEW remote \in Seq(ModEvent),
         ModExtends(n, remote)
  PROVE  /\ ModSuffix(n, remote) \in Seq(ModEvent)
         /\ mods[n].events \o ModSuffix(n, remote) = remote
         /\ Prefix(mods[n].events, remote)
         /\ ValidModeration(file[n].events, remote)
  <1>1. mods[n].events \in Seq(ModEvent) /\ moderation(n) = mods[n].events
    BY ModHeld
  <1>2. Prefix(mods[n].events, remote)
    BY <1>1 DEF ModExtends
  <1>3. ModSuffix(n, remote) = SubSeq(remote, Len(mods[n].events) + 1, Len(remote))
    BY <1>1 DEF ModSuffix
  <1>4. ValidModeration(file[n].events, remote)
    BY DEF ModExtends, Replays, history
  <1> QED
    BY <1>1, <1>2, <1>3, <1>4, SuffixCompletes

LEMMA RemoteModAppended ==
  ASSUME ModTypes, ReplayInv, NEW n \in Node, NEW remote \in Seq(ModEvent),
         append_remote_moderation_history(n, remote), modSaved' = modSaved
  PROVE  ModsTyped' /\ ModSavedTyped' /\ HeldKnown /\ HeldStays
  <1> DEFINE evs == ModSuffix(n, remote)
             f == AppendTo(mods[n], evs)
  <1>1. /\ evs \in Seq(ModEvent) /\ mods[n].events \o evs = remote
        /\ Prefix(mods[n].events, remote) /\ ValidModeration(file[n].events, remote)
    BY ModRemote DEF append_remote_moderation_history
  <1>2. mods' = [mods EXCEPT ![n] = f]
    BY DEF append_remote_moderation_history
  <1>3. /\ mods[n] \in ModFile /\ mods[n].events \in Seq(ModEvent)
        /\ Held(n) \subseteq Seq(ModEvent) /\ \A h \in Held(n) : Prefix(h, h)
    BY ModHeld
  <1> HIDE DEF evs
  <1>4. f \in ModFile /\ f.events = remote
    BY <1>1, <1>3, ModAppended
  <1>5. Prefix(remote, remote)
    BY PrefixFacts
  <1> HIDE DEF f
  <1>6. modSaved[n] \in SUBSET Seq(ModEvent) /\ modSaved' = [modSaved EXCEPT ![n] = modSaved[n]]
    BY DEF ModTypes, ModSavedTyped
  <1>7. \A h \in modSaved[n] \cup {f.events} : \E g \in Seq(ModEvent) :
            Prefix(h, g) /\ (g \in Held(n) \/ ValidModeration(file[n].events, g))
    BY <1>1, <1>3, <1>4, <1>5 DEF Held
  <1>8. \E g \in modSaved[n] \cup {f.events} : Prefix(mods[n].events, g)
    BY <1>1, <1>4
  <1> QED
    BY <1>2, <1>4, <1>6, <1>7, <1>8, NodeChanged

(* A crash in the middle of an append.                                     *)
LEMMA AppendCut ==
  ASSUME ModTypes, NEW n \in Node, NEW evs \in Seq(ModEvent), AppendCutShort(n, evs),
         ValidModeration(file[n].events, mods[n].events \o evs), modSaved' = modSaved
  PROVE  ModsTyped' /\ ModSavedTyped' /\ HeldKnown /\ CutsTyped'
  <1>1. PICK f \in PartsOf(mods[n], evs) : mods' = [mods EXCEPT ![n] = f]
    BY DEF AppendCutShort
  <1>2. /\ mods[n] \in ModFile /\ mods[n].events \in Seq(ModEvent)
        /\ Held(n) \subseteq Seq(ModEvent) /\ \A h \in Held(n) : Prefix(h, h)
    BY ModHeld
  <1>3. f \in ModFile /\ Prefix(f.events, mods[n].events \o evs)
    BY <1>2, ModParts
  <1>4. mods[n].events \o evs \in Seq(ModEvent)
    BY <1>2
  <1>5. modSaved[n] \in SUBSET Seq(ModEvent) /\ modSaved' = [modSaved EXCEPT ![n] = modSaved[n]]
    BY DEF ModTypes, ModSavedTyped
  <1>6. \A h \in modSaved[n] \cup {f.events} : \E g \in Seq(ModEvent) :
            Prefix(h, g) /\ (g \in Held(n) \/ ValidModeration(file[n].events, g))
    BY <1>2, <1>3, <1>4 DEF Held
  <1>7. CutsTyped'
    BY ModerationConstantsOK DEF AppendCutShort, Cut, ModTypes, CutsTyped
  <1> QED
    BY <1>1, <1>3, <1>5, <1>6, <1>7, NodeChanged

(* Branches are saved, or a crash cuts their files short.                  *)
LEMMA ModSavedChanged ==
  ASSUME ModTypes, NEW n \in Node, NEW D \in SUBSET Seq(ModEvent), mods' = mods,
         \/ modSaved' = [modSaved EXCEPT ![n] = @ \cup D]
         \/ modSaved' = [modSaved EXCEPT ![n] = @ \ D],
         \A h \in D : h \in Held(n) \/ ValidModeration(file[n].events, h)
  PROVE  /\ ModsTyped' /\ ModSavedTyped' /\ HeldKnown
         /\ modSaved' = [modSaved EXCEPT ![n] = @ \cup D] => HeldStays
  <1>1. /\ mods[n] \in ModFile /\ mods[n].events \in Seq(ModEvent)
        /\ Held(n) \subseteq Seq(ModEvent) /\ \A h \in Held(n) : Prefix(h, h)
    BY ModHeld
  <1>2. \A h \in D : Prefix(h, h)
    BY PrefixFacts
  <1>3. mods' = [mods EXCEPT ![n] = mods[n]] /\ modSaved[n] \in SUBSET Seq(ModEvent)
    BY DEF ModTypes, ModsTyped, ModSavedTyped
  <1>4. CASE modSaved' = [modSaved EXCEPT ![n] = @ \cup D]
    <2> DEFINE H == modSaved[n] \cup D
    <2>1. H \in SUBSET Seq(ModEvent) /\ modSaved' = [modSaved EXCEPT ![n] = H]
      BY <1>3, <1>4
    <2>2. \A h \in H \cup {mods[n].events} : \E g \in Seq(ModEvent) :
            Prefix(h, g) /\ (g \in Held(n) \/ ValidModeration(file[n].events, g))
      BY <1>1, <1>2 DEF Held
    <2>3. modSaved[n] \subseteq H /\ \E g \in H \cup {mods[n].events} : Prefix(mods[n].events, g)
      BY <1>1 DEF Held
    <2> HIDE DEF H
    <2> QED
      BY <1>1, <1>3, <2>1, <2>2, <2>3, NodeChanged
  <1>5. CASE modSaved' = [modSaved EXCEPT ![n] = @ \ D]
    <2> DEFINE H == modSaved[n] \ D
    <2>1. H \in SUBSET Seq(ModEvent) /\ modSaved' = [modSaved EXCEPT ![n] = H]
      BY <1>3, <1>5
    <2>2. \A h \in H \cup {mods[n].events} : \E g \in Seq(ModEvent) :
            Prefix(h, g) /\ (g \in Held(n) \/ ValidModeration(file[n].events, g))
      BY <1>1 DEF Held
    <2>3. modSaved' = [modSaved EXCEPT ![n] = @ \cup D] => modSaved[n] \subseteq H
      BY <1>5 DEF ModTypes, ModSavedTyped
    <2>4. \E g \in H \cup {mods[n].events} : Prefix(mods[n].events, g)
      BY <1>1 DEF Held
    <2> HIDE DEF H
    <2> QED
      BY <1>1, <1>3, <2>1, <2>2, <2>3, <2>4, NodeChanged
  <1> QED
    BY <1>4, <1>5

-----------------------------------------------------------------------------
(* The sessions under way.                                                 *)

LEMMA ExchangeLoses ==
  ASSUME ModTypes, exchange' \subseteq exchange
  PROVE  ExchangeTyped' /\ OneExchange'
  BY DEF ModTypes, ExchangeTyped, OneExchange

LEMMA ExchangeMember ==
  ASSUME ModTypes, NEW x \in exchange
  PROVE  x.client \in Node /\ x.server \in Node /\ x.mods \in Seq(ModEvent)
  BY DEF ModTypes, ExchangeTyped

LEMMA ExchangeBegins ==
  ASSUME ModTypes, NEW c \in Node, NEW v \in Node, NEW h \in Seq(ModEvent),
         Between(c, v) = {},
         exchange' = exchange \cup {Exchange(c, v, "status", h)}
  PROVE  ExchangeTyped' /\ OneExchange'
  <1> DEFINE y == Exchange(c, v, "status", h)
  <1>1. /\ y \in [client : Node, server : Node,
                  stage : {"status", "admitted", "update", "conflict"}, mods : Seq(ModEvent)]
        /\ y.client = c /\ y.server = v
    BY DEF Exchange
  <1>2. \A x \in exchange : ~(x.client = c /\ x.server = v)
    BY DEF Between
  <1> HIDE DEF y
  <1>3. exchange' = exchange \cup {y}
    BY DEF y
  <1> QED
    BY <1>1, <1>2, <1>3 DEF ModTypes, ExchangeTyped, OneExchange

LEMMA ExchangeAnswered ==
  ASSUME ModTypes, NEW x \in exchange, NEW kind \in {"update", "conflict"},
         NEW h \in Seq(ModEvent), Answer(x, kind, h)
  PROVE  ExchangeTyped' /\ OneExchange'
  <1> DEFINE y == Exchange(x.client, x.server, kind, h)
  <1>1. /\ y \in [client : Node, server : Node,
                  stage : {"status", "admitted", "update", "conflict"}, mods : Seq(ModEvent)]
        /\ y.client = x.client /\ y.server = x.server
    BY ExchangeMember DEF Exchange
  <1> HIDE DEF y
  <1>2. exchange' = (exchange \ {x}) \cup {y}
    BY DEF Answer, y
  <1> QED
    BY <1>1, <1>2 DEF ModTypes, ExchangeTyped, OneExchange

LEMMA ExchangeAdmitted ==
  ASSUME ModTypes, NEW S \in SUBSET exchange,
         exchange' = (exchange \ S) \cup {[x EXCEPT !.stage = "admitted"] : x \in S}
  PROVE  ExchangeTyped' /\ OneExchange'
  <1>1. ASSUME NEW y \in exchange'
        PROVE  /\ y \in [client : Node, server : Node,
                         stage : {"status", "admitted", "update", "conflict"},
                         mods : Seq(ModEvent)]
               /\ \E x \in exchange : /\ y.client = x.client /\ y.server = x.server
                                      /\ IF x \in S THEN y = [x EXCEPT !.stage = "admitted"]
                                         ELSE y = x
    <2>1. CASE y \in exchange \ S
      BY <2>1 DEF ModTypes, ExchangeTyped
    <2>2. CASE y \in {[x EXCEPT !.stage = "admitted"] : x \in S}
      BY <2>2 DEF ModTypes, ExchangeTyped
    <2> QED
      BY <2>1, <2>2
  <1>2. ExchangeTyped'
    BY <1>1 DEF ExchangeTyped
  <1>3. OneExchange'
    BY <1>1 DEF ModTypes, OneExchange
  <1> QED
    BY <1>2, <1>3

-----------------------------------------------------------------------------
(* Local changes.                                                          *)

LEMMA NewModEventTyped ==
  ASSUME ModTypes, ReplayInv, NEW n \in Node, NEW action, MayModerate(n, action)
  PROVE  /\ <<NewModEvent(n, action)>> \in Seq(ModEvent)
         /\ ValidModeration(file[n].events, mods[n].events \o <<NewModEvent(n, action)>>)
  <1> DEFINE x == NewModEvent(n, action)
  <1>1. history(n) \in Heads /\ history(n) = file[n].events
    BY HistorySound, SoundSequence DEF Heads
  <1>2. action \in {e[2] : e \in ModEdits}
    BY DEF MayModerate
  <1>3. x \in ModEvent
    BY <1>1, <1>2, HistoryConstantsOK DEF NewModEvent, ModEvent
  <1>4. ValidModeration(history(n), Append(moderation(n), x))
    BY DEF MayModerate, Replays
  <1>5. mods[n].events \in Seq(ModEvent) /\ moderation(n) = mods[n].events
    BY ModHeld
  <1> HIDE DEF x
  <1>6. Append(mods[n].events, x) = mods[n].events \o <<x>>
    BY <1>3, <1>5
  <1> QED
    BY <1>1, <1>3, <1>4, <1>5, <1>6 DEF x

LEMMA ModerateStep ==
  ASSUME ModTypes, ReplayInv, NEW n \in Node, NEW action, append_moderation_action(n, action)
  PROVE  ModTypes' /\ HeldKnown /\ HeldStays
  <1> DEFINE evs == <<NewModEvent(n, action)>>
             f == AppendTo(mods[n], evs)
  <1>1. evs \in Seq(ModEvent) /\ ValidModeration(file[n].events, mods[n].events \o evs)
    BY NewModEventTyped DEF append_moderation_action
  <1>2. mods' = [mods EXCEPT ![n] = f] /\ UNCHANGED <<modSaved, exchange, cuts>>
    BY DEF append_moderation_action
  <1>3. /\ mods[n] \in ModFile /\ mods[n].events \in Seq(ModEvent)
        /\ Held(n) \subseteq Seq(ModEvent) /\ \A h \in Held(n) : Prefix(h, h)
    BY ModHeld
  <1> HIDE DEF evs
  <1>4. /\ f \in ModFile /\ f.events = mods[n].events \o evs
        /\ Prefix(mods[n].events, mods[n].events \o evs)
    BY <1>1, <1>3, ModAppended
  <1>5. /\ f.events \in Seq(ModEvent) /\ Prefix(f.events, f.events)
        /\ Prefix(mods[n].events, f.events)
    BY <1>1, <1>3, <1>4, PrefixFacts
  <1> HIDE DEF f
  <1>6. modSaved[n] \in SUBSET Seq(ModEvent) /\ modSaved' = [modSaved EXCEPT ![n] = modSaved[n]]
    BY <1>2 DEF ModTypes, ModSavedTyped
  <1>7. \A h \in modSaved[n] \cup {f.events} : \E g \in Seq(ModEvent) :
            Prefix(h, g) /\ (g \in Held(n) \/ ValidModeration(file[n].events, g))
    BY <1>1, <1>3, <1>4, <1>5 DEF Held
  <1>8. modSaved[n] \subseteq modSaved[n]
        /\ \E g \in modSaved[n] \cup {f.events} : Prefix(mods[n].events, g)
    BY <1>5
  <1>9. ModsTyped' /\ ModSavedTyped' /\ HeldKnown /\ HeldStays
    BY <1>2, <1>4, <1>6, <1>7, <1>8, NodeChanged
  <1> QED
    BY <1>2, <1>9, ExchangeLoses DEF ModTypes, CutsTyped

LEMMA CrashInModerateStep ==
  ASSUME ModTypes, ReplayInv, NEW n \in Node, NEW action, CrashInModerate(n, action)
  PROVE  ModTypes' /\ HeldKnown
  <1>1. /\ <<NewModEvent(n, action)>> \in Seq(ModEvent)
        /\ ValidModeration(file[n].events, mods[n].events \o <<NewModEvent(n, action)>>)
    BY NewModEventTyped DEF CrashInModerate
  <1>2. UNCHANGED <<modSaved, exchange>> /\ AppendCutShort(n, <<NewModEvent(n, action)>>)
    BY DEF CrashInModerate
  <1> QED
    BY <1>1, <1>2, AppendCut, ExchangeLoses DEF ModTypes

LEMMA DisplacedHeld ==
  ASSUME ModTypes, NEW n \in Node, NEW h
  PROVE  /\ ModDisplaced(n, h) \in SUBSET Seq(ModEvent)
         /\ ModDisplaced(n, h) \subseteq Held(n)
         /\ mods[n].events \in ModDisplaced(n, h) \cup {<< >>, h}
  BY ModHeld DEF ModDisplaced, Held

LEMMA SelectStep ==
  ASSUME ModTypes, ReplayInv, NEW n \in Node, NEW h, resolve_moderation_conflict(n, h)
  PROVE  ModTypes' /\ HeldKnown /\ HeldStays
  <1> DEFINE D == ModDisplaced(n, h)
             H == modSaved[n] \cup D
             f == AppendTo(NoFile, h)
  <1>1. h \in modSaved[n] /\ h \in Seq(ModEvent) /\ ValidModeration(file[n].events, h)
    BY DEF resolve_moderation_conflict, MaySelect, Replays, ModTypes, ModSavedTyped, history
  <1>2. f \in ModFile /\ f.events = h
    BY <1>1 DEF AppendTo, NoFile, ModFile
  <1>3. /\ D \in SUBSET Seq(ModEvent) /\ D \subseteq Held(n)
        /\ mods[n].events \in D \cup {<< >>, h}
    BY DisplacedHeld
  <1>4. /\ mods' = [mods EXCEPT ![n] = f] /\ UNCHANGED <<exchange, cuts>>
        /\ modSaved' = [modSaved EXCEPT ![n] = H]
    BY DEF resolve_moderation_conflict
  <1> HIDE DEF D, f
  <1>5. H \in SUBSET Seq(ModEvent)
    BY <1>3 DEF ModTypes, ModSavedTyped
  <1>6. /\ Held(n) \subseteq Seq(ModEvent) /\ \A g \in Held(n) : Prefix(g, g)
        /\ Prefix(h, h) /\ Prefix(<< >>, h)
    BY <1>1, ModHeld, PrefixFacts
  <1>7. \A g \in H \cup {f.events} : g \in Held(n)
    BY <1>1, <1>2, <1>3 DEF Held
  <1>8. \A k \in H \cup {f.events} : \E g \in Seq(ModEvent) :
            Prefix(k, g) /\ (g \in Held(n) \/ ValidModeration(file[n].events, g))
    BY <1>6, <1>7
  <1>9. modSaved[n] \subseteq H /\ \E g \in H \cup {f.events} : Prefix(mods[n].events, g)
    BY <1>2, <1>3, <1>6
  <1> HIDE DEF H
  <1>10. ModsTyped' /\ ModSavedTyped' /\ HeldKnown /\ HeldStays
    BY <1>2, <1>4, <1>5, <1>8, <1>9, NodeChanged
  <1> QED
    BY <1>4, <1>10, ExchangeLoses DEF ModTypes, CutsTyped

LEMMA CrashInSelectStep ==
  ASSUME ModTypes, ReplayInv, NEW n \in Node, NEW h, CrashInSelect(n, h)
  PROVE  ModTypes' /\ HeldKnown
  <1>1. /\ ModDisplaced(n, h) \in SUBSET Seq(ModEvent)
        /\ \A g \in ModDisplaced(n, h) : g \in Held(n)
    BY DisplacedHeld
  <1>2. /\ \/ modSaved' = [modSaved EXCEPT ![n] = @ \cup ModDisplaced(n, h)]
           \/ modSaved' = [modSaved EXCEPT ![n] = @ \ ModDisplaced(n, h)]
        /\ mods' = mods /\ exchange' = exchange /\ Cut
    BY DEF CrashInSelect
  <1>3. ModsTyped' /\ ModSavedTyped' /\ HeldKnown
    BY <1>1, <1>2, ModSavedChanged
  <1>4. CutsTyped'
    BY <1>2, ModerationConstantsOK DEF Cut, ModTypes, CutsTyped
  <1> QED
    BY <1>2, <1>3, <1>4, ExchangeLoses DEF ModTypes

-----------------------------------------------------------------------------
(* Sessions.                                                               *)

LEMMA BeginStep ==
  ASSUME ModTypes, NEW c \in Node, NEW v \in Node, SendBothHistories(c, v)
  PROVE  ModTypes' /\ HeldKnown /\ HeldStays
  <1>1. /\ UNCHANGED <<mods, modSaved, cuts>> /\ Between(c, v) = {}
        /\ exchange' = exchange \cup {Exchange(c, v, "status", moderation(c))}
    BY DEF SendBothHistories
  <1>2. moderation(c) \in Seq(ModEvent)
    BY ModHeld
  <1> QED
    BY <1>1, <1>2, ExchangeBegins, NoneChanged DEF ModTypes, CutsTyped

LEMMA PolicyPartStep ==
  ASSUME ModTypes, NEW f, PolicyPart(f)
  PROVE  ModTypes' /\ HeldKnown /\ HeldStays
  <1>1. UNCHANGED <<mods, modSaved, cuts>>
    BY DEF PolicyPart
  <1>2. SessionOf(f) \in SUBSET exchange
    BY DEF SessionOf, Between
  <1>3. \/ exchange' \subseteq exchange
        \/ exchange' = (exchange \ SessionOf(f))
                         \cup {[x EXCEPT !.stage = "admitted"] : x \in SessionOf(f)}
    BY DEF PolicyPart, SessionEnds
  <1>4. ExchangeTyped' /\ OneExchange'
    BY <1>2, <1>3, ExchangeLoses, ExchangeAdmitted
  <1> QED
    BY <1>1, <1>4, NoneChanged DEF ModTypes, CutsTyped

LEMMA LostStep ==
  ASSUME ModTypes, exchange' \subseteq exchange, UNCHANGED <<mods, modSaved>>,
         cuts' = cuts \/ Cut
  PROVE  ModTypes' /\ HeldKnown /\ HeldStays
  <1>1. CutsTyped'
    BY ModerationConstantsOK DEF Cut, ModTypes, CutsTyped
  <1> QED
    BY <1>1, ExchangeLoses, NoneChanged DEF ModTypes

(* A branch that came with a session is saved.                             *)
LEMMA RemoteSaved ==
  ASSUME ModTypes, NEW n \in Node, NEW h \in Seq(ModEvent),
         save_moderation_conflict(n, h), mods' = mods
  PROVE  ModsTyped' /\ ModSavedTyped' /\ HeldKnown /\ HeldStays
  <1>1. ValidModeration(file[n].events, h)
    BY DEF save_moderation_conflict, MaySave, Replays, history
  <1>2. {h} \in SUBSET Seq(ModEvent) /\ modSaved' = [modSaved EXCEPT ![n] = @ \cup {h}]
    BY DEF save_moderation_conflict
  <1>3. \A g \in {h} : g \in Held(n) \/ ValidModeration(file[n].events, g)
    BY <1>1
  <1> QED
    BY <1>2, <1>3, ModSavedChanged

LEMMA ServerModerationStep ==
  ASSUME ModTypes, ReplayInv, NEW x \in exchange, ServerModeration(x)
  PROVE  ModTypes' /\ HeldKnown /\ HeldStays
  <1>1. x.server \in Node /\ x.mods \in Seq(ModEvent)
    BY ExchangeMember
  <1>2. cuts' = cuts
    BY DEF ServerModeration
  <1>3. CASE ModFork(x.server, x.mods)
    <2>1. /\ save_moderation_conflict(x.server, x.mods) /\ mods' = mods
          /\ Answer(x, "conflict", moderation(x.server))
      BY <1>3 DEF ServerModeration
    <2>2. moderation(x.server) \in Seq(ModEvent)
      BY <1>1, ModHeld
    <2> QED
      BY <1>1, <1>2, <2>1, <2>2, RemoteSaved, ExchangeAnswered DEF ModTypes, CutsTyped
  <1>4. CASE ~ModFork(x.server, x.mods)
    <2>1. /\ append_remote_moderation_history(x.server, x.mods) \/ mods' = mods
          /\ Answer(x, "update", moderation(x.server)') /\ modSaved' = modSaved
      BY <1>4 DEF ServerModeration
    <2>2. ModsTyped' /\ ModSavedTyped' /\ HeldKnown /\ HeldStays
      BY <1>1, <2>1, RemoteModAppended, NoneChanged
    <2>3. moderation(x.server)' \in Seq(ModEvent)
      BY <1>1, <2>2 DEF ModsTyped, ModFile, moderation
    <2> QED
      BY <1>1, <1>2, <2>1, <2>2, <2>3, ExchangeAnswered DEF ModTypes, CutsTyped
  <1> QED
    BY <1>3, <1>4

LEMMA ClientModerationStep ==
  ASSUME ModTypes, ReplayInv, NEW x \in exchange, ClientModeration(x)
  PROVE  ModTypes' /\ HeldKnown /\ HeldStays
  <1>1. x.client \in Node /\ x.mods \in Seq(ModEvent)
    BY ExchangeMember
  <1>2. cuts' = cuts /\ exchange' \subseteq exchange
    BY DEF ClientModeration
  <1>3. \/ append_remote_moderation_history(x.client, x.mods) /\ modSaved' = modSaved
        \/ save_moderation_conflict(x.client, x.mods) /\ mods' = mods
    BY DEF ClientModeration
  <1>4. ModsTyped' /\ ModSavedTyped' /\ HeldKnown /\ HeldStays
    BY <1>1, <1>3, RemoteModAppended, RemoteSaved
  <1> QED
    BY <1>2, <1>4, ExchangeLoses DEF ModTypes, CutsTyped

LEMMA SessionPartStep ==
  ASSUME ModTypes, ReplayInv, NEW x \in exchange, SessionPart(x)
  PROVE  ModTypes' /\ HeldKnown /\ HeldStays
  <1>1. CASE RefuseModeration(x) \/ Hangup(x)
    <2>1. exchange' \subseteq exchange /\ UNCHANGED <<mods, modSaved>> /\ (cuts' = cuts \/ Cut)
      BY <1>1 DEF RefuseModeration, Hangup, EndSession, Disconnect
    <2> QED
      BY <2>1, LostStep
  <1> QED
    BY <1>1, ServerModerationStep, ClientModerationStep DEF SessionPart

LEMMA CrashInModerationStep ==
  ASSUME ModTypes, ReplayInv, NEW x \in exchange, CrashInModeration(x)
  PROVE  ModTypes' /\ HeldKnown
  <1> DEFINE n == Receiver(x)
  <1>1. n \in Node /\ x.mods \in Seq(ModEvent)
    BY ExchangeMember DEF Receiver
  <1>2. exchange' \subseteq exchange
    BY DEF CrashInModeration, Disconnect
  <1>3. \/ /\ ModExtends(n, x.mods) /\ AppendCutShort(n, ModSuffix(n, x.mods))
           /\ modSaved' = modSaved
        \/ /\ MaySave(n, x.mods) /\ modSaved' = [modSaved EXCEPT ![n] = @ \ {x.mods}]
           /\ Cut /\ mods' = mods
    BY DEF CrashInModeration
  <1> HIDE DEF n
  <1>4. CASE /\ ModExtends(n, x.mods) /\ AppendCutShort(n, ModSuffix(n, x.mods))
             /\ modSaved' = modSaved
    <2>1. /\ ModSuffix(n, x.mods) \in Seq(ModEvent)
          /\ ValidModeration(file[n].events, mods[n].events \o ModSuffix(n, x.mods))
      BY <1>1, <1>4, ModRemote
    <2>2. ModsTyped' /\ ModSavedTyped' /\ HeldKnown /\ CutsTyped'
      BY <1>1, <1>4, <2>1, AppendCut
    <2> QED
      BY <1>2, <2>2, ExchangeLoses DEF ModTypes
  <1>5. CASE /\ MaySave(n, x.mods) /\ modSaved' = [modSaved EXCEPT ![n] = @ \ {x.mods}]
             /\ Cut /\ mods' = mods
    <2>1. /\ {x.mods} \in SUBSET Seq(ModEvent)
          /\ \A g \in {x.mods} : g \in Held(n) \/ ValidModeration(file[n].events, g)
      BY <1>1, <1>5 DEF MaySave, Replays, history
    <2>2. ModsTyped' /\ ModSavedTyped' /\ HeldKnown
      BY <1>1, <1>5, <2>1, ModSavedChanged
    <2>3. CutsTyped'
      BY <1>5, ModerationConstantsOK DEF Cut, ModTypes, CutsTyped
    <2> QED
      BY <1>2, <2>2, <2>3, ExchangeLoses DEF ModTypes
  <1> QED
    BY <1>3, <1>4, <1>5

-----------------------------------------------------------------------------
(* The specification.                                                      *)

ModInv == ReplayInv /\ ModTypes

LEMMA InitModTypes == MInit => ModInv
  <1> SUFFICES ASSUME MInit PROVE ModTypes
    BY InitReplay DEF MInit, ModInv
  <1>1. AppendTo(NoFile, << >>) \in ModFile
    BY DEF AppendTo, NoFile, ModFile
  <1>2. ModsTyped /\ ModSavedTyped
    BY <1>1 DEF MInit, ModsTyped, ModSavedTyped
  <1>3. ExchangeTyped /\ OneExchange /\ CutsTyped
    BY ModerationConstantsOK DEF MInit, ExchangeTyped, OneExchange, CutsTyped
  <1> QED
    BY <1>2, <1>3 DEF ModTypes

(* The policy histories of a node change here as they do in PolicyHistory, *)
(* and but for a selected branch they grow.                                *)
LEMMA PolicyUnderneath ==
  ASSUME ReplayInv, [MNext]_allvars
  PROVE  ReplayInv' /\ (SelectPolicy \/ Longer)
  <1>1. CASE \/ UNCHANGED vars
             \/ UNCHANGED <<file, cache, saved>> /\ net' \subseteq net
    BY <1>1, LossStep DEF vars
  <1>2. CASE PolicyMaintenance
    BY <1>2, AppendStep, RebuildStep DEF PolicyMaintenance
  <1>3. CASE SelectPolicy
    BY <1>3, ResolveStep DEF SelectPolicy
  <1>4. CASE \E d \in Dials : SendBothHistories(d[1], d[2])
    <2>1. PICK d \in Dials : SendStatus(d[1], d[2])
      BY <1>4 DEF SendBothHistories
    <2>2. d[1] \in Node /\ d[2] \in Node
      BY HistoryConstantsOK
    <2> QED
      BY <2>1, <2>2, SendStatusStep
  <1>5. CASE \E f \in net : PolicyPart(f) \/ DropSession(f)
    <2>1. PICK f \in net : PolicyPart(f) \/ DropSession(f)
      BY <1>5
    <2>2. Receive(f) \/ Drop(f)
      BY <2>1 DEF PolicyPart, DropSession, Receive
    <2> QED
      BY <2>2, ReceiveStep
  <1>6. CASE \E x \in exchange : SessionPart(x) \/ CrashInModeration(x)
    <2>1. \/ UNCHANGED vars
          \/ UNCHANGED <<file, cache, saved>> /\ net' \subseteq net
      BY <1>6 DEF SessionPart, ServerModeration, ClientModeration, RefuseModeration,
                  Hangup, CrashInModeration, EndSession, Disconnect
    <2> QED
      BY <1>1, <2>1
  <1>7. CASE \/ ModerationNext
             \/ \E e \in ModEdits : CrashInModerate(e[1], e[2])
             \/ \E n \in Node : \E h \in modSaved[n] : CrashInSelect(n, h)
    <2>1. UNCHANGED vars
      BY <1>7 DEF ModerationNext, append_moderation_action, resolve_moderation_conflict,
                  CrashInModerate, CrashInSelect
    <2> QED
      BY <1>1, <2>1
  <1> QED
    BY <1>1, <1>2, <1>3, <1>4, <1>5, <1>6, <1>7
       DEF MNext, SyncNext, ModerationCrash, allvars

LEMMA ModStep ==
  ASSUME ModInv, [MNext]_allvars
  PROVE  ModTypes' /\ HeldKnown /\ (ModerationCrash \/ HeldStays)
  <1>0. ModTypes /\ ReplayInv
    BY DEF ModInv
  <1>1. CASE UNCHANGED mvars
    BY <1>0, <1>1, ExchangeLoses, NoneChanged DEF mvars, ModTypes, CutsTyped
  <1>2. CASE \E d \in Dials : SendBothHistories(d[1], d[2])
    <2>1. PICK d \in Dials : SendBothHistories(d[1], d[2])
      BY <1>2
    <2>2. d[1] \in Node /\ d[2] \in Node
      BY HistoryConstantsOK
    <2> QED
      BY <1>0, <2>1, <2>2, BeginStep
  <1>3. CASE \E f \in net : PolicyPart(f)
    BY <1>0, <1>3, PolicyPartStep
  <1>4. CASE \E f \in net : DropSession(f)
    <2>1. exchange' \subseteq exchange /\ UNCHANGED <<mods, modSaved>> /\ Cut
      BY <1>4 DEF DropSession, SessionEnds
    <2> QED
      BY <1>0, <2>1, LostStep
  <1>5. CASE \E x \in exchange : SessionPart(x)
    BY <1>0, <1>5, SessionPartStep
  <1>6. CASE ModerationNext
    <2>1. CASE \E e \in ModEdits : append_moderation_action(e[1], e[2])
      BY <1>0, <2>1, ModerateStep, ModerationConstantsOK
    <2>2. CASE \E n \in Node : \E h \in modSaved[n] : resolve_moderation_conflict(n, h)
      BY <1>0, <2>2, SelectStep
    <2> QED
      BY <1>6, <2>1, <2>2 DEF ModerationNext
  <1>7. CASE ModerationCrash
    <2>1. CASE \E e \in ModEdits : CrashInModerate(e[1], e[2])
      BY <1>0, <1>7, <2>1, CrashInModerateStep, ModerationConstantsOK
    <2>2. CASE \E n \in Node : \E h \in modSaved[n] : CrashInSelect(n, h)
      BY <1>0, <1>7, <2>2, CrashInSelectStep
    <2>3. CASE \E x \in exchange : CrashInModeration(x)
      BY <1>0, <1>7, <2>3, CrashInModerationStep
    <2> QED
      BY <1>7, <2>1, <2>2, <2>3 DEF ModerationCrash
  <1> QED
    BY <1>1, <1>2, <1>3, <1>4, <1>5, <1>6, <1>7 DEF MNext, SyncNext, allvars

LEMMA ModInvStep == ModInv /\ [MNext]_allvars => ModInv'
  BY PolicyUnderneath, ModStep DEF ModInv

(* A moderation event names a well-formed policy history and an action the *)
(* operators try, a session has one moderation part, and the bounds hold.  *)
THEOREM ModerationTypes == MSpec => []MTypeOK
  <1>1. ModInv => MTypeOK
    <2> SUFFICES ASSUME ModInv PROVE MTypeOK
      OBVIOUS
    <2>0. ModTypes
      BY DEF ModInv
    <2>1. \A n \in Node : mods[n].exists /\ mods[n].tail \in {"clean", "open", "bad"}
      BY <2>0, ModHeld DEF ModFile
    <2>2. ASSUME NEW n \in Node, NEW h \in {moderation(n)} \cup modSaved[n],
                 NEW i \in 1..Len(h)
          PROVE  /\ h[i].actor \in Identity /\ IsHistory(h[i].head)
                 /\ h[i].action \in {e[2] : e \in ModEdits}
      <3>1. h \in Seq(ModEvent)
        BY <2>0, ModHeld DEF Held
      <3>2. h[i] \in ModEvent
        BY <3>1
      <3> QED
        BY <3>2 DEF ModEvent, Heads, IsHistory
    <2>3. \A x \in exchange : /\ {x.client, x.server} \subseteq Node
                              /\ x.stage \in {"status", "admitted", "update", "conflict"}
      BY <2>0 DEF ModTypes, ExchangeTyped
    <2>4. \A x \in exchange : Between(x.client, x.server) = {x}
      BY <2>0 DEF Between, ModTypes, OneExchange
    <2> QED
      BY <2>0, <2>1, <2>2, <2>3, <2>4 DEF MTypeOK, ModTypes, CutsTyped
  <1> QED
    BY InitModTypes, ModInvStep, <1>1, PTL DEF MSpec

(* No step of a node but a crash loses a moderation event of its current   *)
(* history or of a saved branch: an append and a remote history lengthen   *)
(* the current one, resolve_moderation_conflict saves it before it         *)
(* installs another.                                                       *)
THEOREM ModerationSurvives == MSpec => ModerationKept
  <1> DEFINE Kept == \A n \in Node : ModReadable(n)' =>
               \A h \in ModRecoverable(n) :
                  \E g \in ModRecoverable(n)' : Prefix(h, g)
  <1>1. ModTypes /\ HeldStays => Kept
    <2> SUFFICES ASSUME ModTypes, HeldStays, NEW n \in Node, ModReadable(n)',
                        NEW h \in ModRecoverable(n)
                 PROVE  \E g \in ModRecoverable(n)' : Prefix(h, g)
      OBVIOUS
    <2>1. h \in modSaved[n] \/ h = mods[n].events
      BY DEF ModRecoverable, moderation
    <2>2. Prefix(h, h)
      BY <2>1, ModHeld DEF Held
    <2>3. ModRecoverable(n)' = Held(n)'
      BY DEF ModRecoverable, moderation, Held
    <2>4. modSaved[n] \subseteq Held(n)' /\ \E g \in Held(n)' : Prefix(mods[n].events, g)
      BY DEF HeldStays, Held
    <2> QED
      BY <2>1, <2>2, <2>3, <2>4
  <1>2. ModInv /\ [MNext]_allvars => [Kept \/ ModerationCrash]_allvars
    BY <1>1, ModStep DEF ModInv
  <1> QED
    BY InitModTypes, ModInvStep, <1>2, PTL DEF MSpec, ModerationKept

-----------------------------------------------------------------------------
(* Replay.                                                                 *)

(* Also where the policy history cannot be read, and where moderation.ndjson *)
(* cannot.                                                                 *)
HeldReplays == \A n \in Node : \A h \in Held(n) : ValidModeration(file[n].events, h)

LEMMA ReplayStays ==
  ASSUME ModInv, ModInv', HeldReplays, HeldKnown, Longer
  PROVE  HeldReplays'
  <1> SUFFICES ASSUME NEW n \in Node, NEW h \in Held(n)'
               PROVE  ValidModeration(file'[n].events, h)
    BY DEF HeldReplays
  <1>1. PICK g \in Seq(ModEvent) :
           Prefix(h, g) /\ (g \in Held(n) \/ ValidModeration(file[n].events, g))
    BY DEF HeldKnown
  <1>2. ValidModeration(file[n].events, g)
    BY <1>1 DEF HeldReplays
  <1>3. h \in Seq(ModEvent)
    <2>1. (ModTypes => Held(n) \subseteq Seq(ModEvent))'
      BY ModHeld, PTL
    <2> QED
      BY <2>1 DEF ModInv
  <1>4. file[n].events \in Seq(PolicyEvent) /\ file'[n].events \in Seq(PolicyEvent)
    BY DEF ModInv, ReplayInv, FilesSound, FileSound
  <1>5. Prefix(file[n].events, file'[n].events)
    BY DEF Longer
  <1> QED
    BY <1>1, <1>2, <1>3, <1>4, <1>5, ModerationMonotone

(* As long as no operator selects another policy branch, every node can    *)
(* replay the moderation history and the branches it has: sessions, in     *)
(* which the policy may grow on either end, local events and crashes bring *)
(* only what replays, and a longer policy history changes no earlier role. *)
(* Selecting a policy branch breaks it (run moderation_policy_fork).       *)
THEOREM ModerationAlwaysReplays ==
  MSpec /\ [][~SelectPolicy]_allvars => []ModerationReplays
  <1> DEFINE I == ModInv /\ HeldReplays
  <1>1. MInit => I
    <2> SUFFICES ASSUME MInit PROVE HeldReplays
      BY InitModTypes
    <2>1. \A n \in Node : Held(n) = {<< >>}
      BY DEF MInit, Held, AppendTo, NoFile
    <2> QED
      BY <2>1 DEF HeldReplays, ValidModeration
  <1>2. I /\ [MNext]_allvars /\ [~SelectPolicy]_allvars => I'
    <2> SUFFICES ASSUME I, [MNext]_allvars, [~SelectPolicy]_allvars PROVE I'
      OBVIOUS
    <2>1. ModInv' /\ HeldKnown
      BY ModInvStep, ModStep
    <2>2. CASE ~SelectPolicy
      <3>1. Longer
        BY <2>2, PolicyUnderneath DEF ModInv
      <3> QED
        BY <2>1, <3>1, ReplayStays
    <2>3. CASE UNCHANGED allvars
      <3>1. Longer
        BY <2>3, LossStep DEF allvars, vars, ModInv
      <3> QED
        BY <2>1, <3>1, ReplayStays
    <2> QED
      BY <2>2, <2>3
  <1>3. I => ModerationReplays
    BY ModHeld DEF ModInv, HeldReplays, Held, ModerationReplays, history
  <1> QED
    BY <1>1, <1>2, <1>3, PTL DEF MSpec

-----------------------------------------------------------------------------
(* SharedHistory, under the sessions that carry moderation too.            *)

LEMMA SharedQuiet ==
  ASSUME ReplayInv, FramesHeld, UNCHANGED <<file, cache, saved>>, net' \subseteq net
  PROVE  FramesHeld' /\ [Shared!Next]_(Shared!vars)
  <1>1. ReplayInv' /\ Longer /\ SavedStay
    BY LossStep
  <1>2. FramesHeld'
    BY <1>1, FramesAdded DEF Longer, Replaced
  <1> QED
    BY <1>2 DEF Shared!vars, history

LEMMA SharedUnderneath ==
  ASSUME ReplayInv, FramesHeld, [MNext]_allvars
  PROVE  FramesHeld' /\ [Shared!Next]_(Shared!vars)
  <1>1. CASE Next
    BY <1>1, FramesHeldStep, SharedStep
  <1>2. CASE \/ UNCHANGED vars
             \/ UNCHANGED <<file, cache, saved>> /\ net' \subseteq net
    BY <1>2, SharedQuiet DEF vars
  <1>3. CASE PolicyMaintenance \/ SelectPolicy
    BY <1>1, <1>3 DEF PolicyMaintenance, SelectPolicy, Next
  <1>4. CASE \E d \in Dials : SendBothHistories(d[1], d[2])
    BY <1>1, <1>4 DEF SendBothHistories, Next
  <1>5. CASE \E f \in net : PolicyPart(f) \/ DropSession(f)
    <2>1. \E f \in net : Receive(f) \/ Drop(f)
      BY <1>5 DEF PolicyPart, DropSession, Receive
    <2> QED
      BY <1>1, <2>1 DEF Next
  <1>6. CASE \E x \in exchange : SessionPart(x) \/ CrashInModeration(x)
    <2>1. \/ UNCHANGED vars
          \/ UNCHANGED <<file, cache, saved>> /\ net' \subseteq net
      BY <1>6 DEF SessionPart, ServerModeration, ClientModeration, RefuseModeration,
                  Hangup, CrashInModeration, EndSession, Disconnect
    <2> QED
      BY <1>2, <2>1
  <1>7. CASE \/ ModerationNext
             \/ \E e \in ModEdits : CrashInModerate(e[1], e[2])
             \/ \E n \in Node : \E h \in modSaved[n] : CrashInSelect(n, h)
    <2>1. UNCHANGED vars
      BY <1>7 DEF ModerationNext, append_moderation_action, resolve_moderation_conflict,
                  CrashInModerate, CrashInSelect
    <2> QED
      BY <1>2, <2>1
  <1> QED
    BY <1>2, <1>3, <1>4, <1>5, <1>6, <1>7
       DEF MNext, SyncNext, ModerationCrash, allvars

(* The sessions that carry both histories, lost at any frame or cut short  *)
(* by a crash in a moderation write, do what SharedHistory says:           *)
(* nobody takes what no node holds any more.                               *)
THEOREM ModerationSharesHistory == MSpec => SharedSpec
  <1>1. MInit => Shared!Init /\ FramesHeld /\ ReplayInv
    BY SharedInit, InitReplay DEF MInit, Init, FramesHeld
  <1>2. ReplayInv /\ [MNext]_allvars => ReplayInv'
    BY PolicyUnderneath
  <1>3. ReplayInv /\ FramesHeld /\ [MNext]_allvars => FramesHeld' /\ [Shared!Next]_(Shared!vars)
    BY SharedUnderneath
  <1> QED
    BY <1>1, <1>2, <1>3, PTL DEF MSpec, SharedSpec, Shared!Spec
==============================================================================
