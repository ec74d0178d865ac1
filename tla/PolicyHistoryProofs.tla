------------------------- MODULE PolicyHistoryProofs -------------------------
(***************************************************************************)
(* TLAPS proofs about the policy histories, for any nodes, identities,     *)
(* edits and legacy policies, and with crashes unless a theorem says not.  *)
(***************************************************************************)
EXTENDS PolicyHistory, PolicyChainProofs

Sound(h) == IsHistory(h) /\ ValidHistory(h)

FileSound(f) ==
    /\ f \in [exists : BOOLEAN, events : Seq(PolicyEvent), tail : {"clean", "open", "bad"}]
    /\ Sound(f.events)
    /\ ~f.exists => f = NoFile

FilesSound ==
    /\ file = [n \in Node |-> file[n]]
    /\ \A n \in Node : FileSound(file[n])

CacheSound == cache \in [Node -> Policy \cup {NoPolicy}]

SavedSound ==
    /\ saved = [n \in Node |-> saved[n]]
    /\ \A n \in Node : \A h \in saved[n] : Sound(h) /\ h # << >>

NetSound ==
    \A f \in net : /\ f.kind \in {"status", "update", "conflict"}
                   /\ {f.from, f.to} \subseteq Node
                   /\ Sound(f.events)

(* HistoriesReplay is inductive with the frames under way, and with the    *)
(* files that cannot be read, which still begin with a valid history.      *)
ReplayInv == FilesSound /\ CacheSound /\ SavedSound /\ NetSound

-----------------------------------------------------------------------------
(* Prefixes of histories that replay.                                      *)

(* Replay goes from the first event on, so that it succeeds on every       *)
(* prefix of a history on which it succeeds.                               *)
LEMMA PrefixReplays ==
  ASSUME NEW S, NEW g \in Seq(S), NEW h \in Seq(S), Prefix(g, h), ValidHistory(h)
  PROVE  ValidHistory(g)
  <1>1. Len(g) <= Len(h) /\ Len(g) \in Nat /\ Len(h) \in Nat
    BY DEF Prefix
  <1>2. SUFFICES ASSUME NEW i \in 1..Len(g)
        PROVE  accepts(Policies(SubSeq(g, 1, i - 1))[i - 1], g[i].actor, g[i].action)
    BY DEF ValidHistory
  <1>3. g = SubSeq(h, 1, Len(g))
    BY DEF Prefix
  <1>4. g[i] = h[i]
    BY <1>1, <1>3
  <1>5. SubSeq(g, 1, i - 1) = SubSeq(h, 1, i - 1)
    <2>1. \A j \in 1..(i - 1) : g[j] = h[j]
      BY <1>1, <1>3
    <2>2. SubSeq(g, 1, i - 1) \in Seq(S) /\ Len(SubSeq(g, 1, i - 1)) = i - 1
      BY <1>1
    <2>3. SubSeq(h, 1, i - 1) \in Seq(S) /\ Len(SubSeq(h, 1, i - 1)) = i - 1
      BY <1>1
    <2>4. \A j \in 1..(i - 1) : SubSeq(g, 1, i - 1)[j] = SubSeq(h, 1, i - 1)[j]
      BY <1>1, <2>1
    <2> QED
      BY <2>2, <2>3, <2>4
  <1>6. accepts(Policies(SubSeq(h, 1, i - 1))[i - 1], h[i].actor, h[i].action)
    BY <1>1 DEF ValidHistory
  <1> QED
    BY <1>4, <1>5, <1>6

(* Both in terms of Sound.                                                 *)
LEMMA SoundSequence ==
  ASSUME NEW h, Sound(h)
  PROVE  h \in Seq(PolicyEvent) /\ Len(h) \in Nat /\ Len(h) <= MaxEvents /\ ValidHistory(h)
         /\ Prefix(h, h) /\ Prefix(<< >>, h)
  BY PrefixFacts DEF Sound, IsHistory

LEMMA SoundPrefix ==
  ASSUME NEW g \in Seq(PolicyEvent), NEW h, Sound(h), Prefix(g, h)
  PROVE  Sound(g)
  <1>1. h \in Seq(PolicyEvent) /\ Len(h) <= MaxEvents /\ ValidHistory(h)
    BY SoundSequence
  <1>2. Len(g) \in Nat /\ Len(h) \in Nat /\ Len(g) <= Len(h)
    BY <1>1 DEF Prefix
  <1>3. Len(g) <= MaxEvents
    BY <1>1, <1>2, HistoryConstantsOK
  <1> QED
    BY <1>1, <1>3, PrefixReplays DEF Sound, IsHistory

LEMMA SoundAppend ==
  ASSUME NEW g, NEW evs \in Seq(PolicyEvent), Sound(g), Sound(g \o evs)
  PROVE  /\ Prefix(g, g \o evs)
         /\ \A k \in 0..Len(evs) : /\ SubSeq(evs, 1, k) \in Seq(PolicyEvent)
                                   /\ Sound(g \o SubSeq(evs, 1, k))
                                   /\ Prefix(g, g \o SubSeq(evs, 1, k))
  <1>1. g \in Seq(PolicyEvent)
    BY SoundSequence
  <1>2. Prefix(g, g \o evs)
    BY <1>1, PrefixFacts
  <1>3. ASSUME NEW k \in 0..Len(evs)
        PROVE  /\ SubSeq(evs, 1, k) \in Seq(PolicyEvent)
               /\ Sound(g \o SubSeq(evs, 1, k))
               /\ Prefix(g, g \o SubSeq(evs, 1, k))
    <2>1. /\ SubSeq(evs, 1, k) \in Seq(PolicyEvent)
          /\ Prefix(g \o SubSeq(evs, 1, k), g \o evs)
      BY <1>1, PrefixFacts
    <2>2. g \o SubSeq(evs, 1, k) \in Seq(PolicyEvent) /\ Prefix(g, g \o SubSeq(evs, 1, k))
      BY <1>1, <2>1, PrefixFacts
    <2> QED
      BY <2>1, <2>2, SoundPrefix
  <1> QED
    BY <1>2, <1>3

LEMMA SoundSuffix ==
  ASSUME NEW g, NEW h, Sound(g), Sound(h), Prefix(g, h)
  PROVE  LET s == SubSeq(h, Len(g) + 1, Len(h))
         IN  s \in Seq(PolicyEvent) /\ g \o s = h
  BY SoundSequence, SuffixCompletes

LEMMA EmptySound == Sound(<< >>)
  BY HistoryConstantsOK DEF Sound, IsHistory, ValidHistory

-----------------------------------------------------------------------------
(* Files.                                                                  *)

(* What an append writes, and what a crash leaves of it.                   *)
LEMMA AppendToFile ==
  ASSUME NEW f, NEW evs \in Seq(PolicyEvent), FileSound(f), Sound(f.events \o evs)
  PROVE  /\ AppendTo(f, evs).events = f.events \o evs
         /\ AppendTo(f, evs).exists = TRUE
         /\ FileSound(AppendTo(f, evs))
  BY SoundSequence DEF AppendTo, FileSound

LEMMA PartsOfFile ==
  ASSUME NEW f, NEW evs \in Seq(PolicyEvent), FileSound(f), Sound(f.events \o evs),
         NEW x \in PartsOf(f, evs)
  PROVE  FileSound(x) /\ x.exists = TRUE /\ Prefix(f.events, x.events)
  <1> DEFINE part(k) == AppendTo(f, SubSeq(evs, 1, k))
  <1>0. Len(evs) \in Nat /\ Sound(f.events) /\ f.events \in Seq(PolicyEvent)
    BY DEF FileSound
  <1>1. ASSUME NEW k \in 0..Len(evs), NEW t \in {"clean", "open", "bad"}
        PROVE  LET y == [part(k) EXCEPT !.tail = t]
               IN  FileSound(y) /\ y.exists = TRUE /\ Prefix(f.events, y.events)
    <2> DEFINE s == SubSeq(evs, 1, k)
               y == [part(k) EXCEPT !.tail = t]
    <2>1. s \in Seq(PolicyEvent) /\ Sound(f.events \o s) /\ Prefix(f.events, f.events \o s)
      BY <1>0, SoundAppend
    <2> HIDE DEF s
    <2>2. FileSound(part(k)) /\ part(k).exists = TRUE /\ part(k).events = f.events \o s
      BY <2>1, AppendToFile DEF s
    <2> HIDE DEF part
    <2>3. FileSound(y) /\ y.exists = TRUE /\ y.events = f.events \o s
      BY <2>2 DEF FileSound
    <2> QED
      BY <2>1, <2>3
  <1>2. CASE x = AppendTo(f, << >>)
    <2>1. f.events \o << >> = f.events /\ << >> \in Seq(PolicyEvent)
      BY <1>0
    <2> QED
      BY <1>0, <1>2, <2>1, AppendToFile, SoundSequence
  <1>3. CASE \E k \in 1..Len(evs), t \in {"clean", "open"} :
               x = [part(k) EXCEPT !.tail = IF @ = "bad" THEN @ ELSE t]
    <2>1. PICK k \in 1..Len(evs), t \in {"clean", "open"} :
               x = [part(k) EXCEPT !.tail = IF @ = "bad" THEN @ ELSE t]
      BY <1>3
    <2> DEFINE u == IF part(k).tail = "bad" THEN part(k).tail ELSE t
    <2>2. x = [part(k) EXCEPT !.tail = u] /\ u \in {"clean", "open", "bad"}
      BY <2>1
    <2>3. k \in 0..Len(evs)
      BY <1>0
    <2> HIDE DEF u, part
    <2> QED
      BY <1>1, <2>2, <2>3
  <1>4. CASE \E k \in 0..(Len(evs) - 1) : x = [part(k) EXCEPT !.tail = "bad"]
    <2>1. PICK k \in 0..(Len(evs) - 1) : x = [part(k) EXCEPT !.tail = "bad"]
      BY <1>4
    <2>2. k \in 0..Len(evs)
      BY <1>0
    <2> HIDE DEF part
    <2> QED
      BY <1>1, <2>1, <2>2
  <1>5. \/ x = AppendTo(f, << >>)
        \/ \E k \in 1..Len(evs), t \in {"clean", "open"} :
              x = [part(k) EXCEPT !.tail = IF @ = "bad" THEN @ ELSE t]
        \/ \E k \in 0..(Len(evs) - 1) : x = [part(k) EXCEPT !.tail = "bad"]
    BY DEF PartsOf
  <1> QED
    BY <1>2, <1>3, <1>4, <1>5

(* A branch is saved, or a crash cuts the file of one short.               *)
LEMMA SavedAdds ==
  ASSUME SavedSound, NEW n \in Node, NEW H, \A h \in H : Sound(h) /\ h # << >>,
         \/ saved' = [saved EXCEPT ![n] = @ \cup H]
         \/ saved' = [saved EXCEPT ![n] = @ \ H]
  PROVE  SavedSound'
  <1>1. saved' = [m \in Node |-> saved'[m]]
    BY DEF SavedSound
  <1>2. \A m \in Node : saved'[m] \subseteq saved[m] \cup H
    BY DEF SavedSound
  <1> QED
    BY <1>1, <1>2 DEF SavedSound

LEMMA NetAdds ==
  ASSUME NetSound, NEW kind \in {"status", "update", "conflict"},
         NEW c \in Node, NEW v \in Node, NEW h, Sound(h),
         net' \subseteq net \cup {Frame(kind, c, v, h)}
  PROVE  NetSound'
  <1>1. LET f == Frame(kind, c, v, h)
        IN  f.kind = kind /\ f.from = c /\ f.to = v /\ f.events = h
    BY DEF Frame
  <1> QED
    BY <1>1 DEF NetSound

LEMMA NetLoses == NetSound /\ net' \subseteq net => NetSound'
  BY DEF NetSound

-----------------------------------------------------------------------------
(* What a step does to the files.                                          *)

(* The current branch grows.                                               *)
Longer == \A n \in Node : Prefix(file[n].events, file'[n].events)

(* The cache changes only to the policy of the history, and a history file *)
(* stays.                                                                  *)
Follows ==
    \A n \in Node : /\ cache'[n] \in {cache[n], derive_policy(file'[n].events)}
                    /\ file[n].exists => file'[n].exists

SavedStay == \A n \in Node : saved[n] \subseteq saved'[n]

(* Steps that change no file.                                              *)
LEMMA SameFiles ==
  ASSUME FilesSound, file' = file
  PROVE  FilesSound' /\ Longer
  <1>1. \A n \in Node : Sound(file[n].events)
    BY DEF FilesSound, FileSound
  <1> QED
    BY <1>1, SoundSequence DEF FilesSound, Longer

LEMMA QuietStep ==
  ASSUME ReplayInv, file' = file, cache' = cache, NetSound'
  PROVE  /\ FilesSound' /\ CacheSound' /\ NetSound' /\ Longer /\ Follows
         /\ saved' = saved => ReplayInv' /\ SavedStay
  <1>1. FilesSound' /\ Longer
    BY SameFiles DEF ReplayInv
  <1> QED
    BY <1>1 DEF ReplayInv, SavedSound, CacheSound, Follows, SavedStay

(* The file of one node changes, and maybe its cache.                      *)
LEMMA FileReplaced ==
  ASSUME ReplayInv, NEW n \in Node, NEW f, FileSound(f), f.exists,
         file' = [file EXCEPT ![n] = f],
         cache' = cache \/ write_policy_cache(n, derive_policy(f.events))
  PROVE  /\ FilesSound' /\ CacheSound' /\ Follows
         /\ Prefix(file[n].events, f.events) => Longer
         /\ \A m \in Node : file'[m] = IF m = n THEN f ELSE file[m]
  <1>1. \A m \in Node : file'[m] = IF m = n THEN f ELSE file[m]
    BY DEF ReplayInv, FilesSound
  <1>2. FilesSound'
    <2>1. file' = [m \in Node |-> file'[m]]
      BY DEF ReplayInv, FilesSound
    <2>2. ASSUME NEW m \in Node PROVE FileSound(file'[m])
      BY <1>1 DEF ReplayInv, FilesSound
    <2> QED
      BY <2>1, <2>2 DEF FilesSound
  <1>3. derive_policy(f.events) \in Policy
    BY SoundSequence, DerivedPolicy DEF FileSound
  <1>4. CacheSound'
    BY <1>3 DEF ReplayInv, CacheSound, write_policy_cache
  <1>5. Follows
    BY <1>1 DEF ReplayInv, CacheSound, write_policy_cache, Follows
  <1>6. Prefix(file[n].events, f.events) => Longer
    <2>1. \A m \in Node : Prefix(file[m].events, file[m].events)
      BY SoundSequence DEF ReplayInv, FilesSound, FileSound
    <2> QED
      BY <1>1, <2>1 DEF Longer
  <1> QED
    BY <1>1, <1>2, <1>4, <1>5, <1>6

(* The histories of an invariant state.                                    *)
LEMMA HistorySound ==
  ASSUME ReplayInv, NEW n \in Node
  PROVE  /\ FileSound(file[n]) /\ history(n) = file[n].events /\ Sound(history(n))
         /\ derive_policy(history(n)) \in Policy
  <1>1. FileSound(file[n]) /\ history(n) = file[n].events /\ Sound(history(n))
    BY DEF ReplayInv, FilesSound, FileSound, history
  <1> QED
    BY <1>1, SoundSequence, DerivedPolicy

LEMMA FrameSound ==
  ASSUME ReplayInv, NEW f \in net
  PROVE  f.from \in Node /\ f.to \in Node /\ Sound(f.events)
  BY DEF ReplayInv, NetSound

-----------------------------------------------------------------------------
(* Local changes.                                                          *)

LEMMA NewEventsSound ==
  ASSUME ReplayInv, NEW n \in Node, NEW action, MayChange(n, action)
  PROVE  /\ NewEvents(n, action) \in Seq(PolicyEvent)
         /\ Sound(file[n].events \o NewEvents(n, action))
  <1> DEFINE x == Event(IdentityOf[n], Adopt(cache[n]))
             y == Event(IdentityOf[n], action)
  <1>1. y \in PolicyEvent
    BY HistoryConstantsOK DEF MayChange
  <1>2. NeedsAdoption(n) => x \in PolicyEvent
    <2>1. NeedsAdoption(n) => cache[n] \in Policy
      BY DEF NeedsAdoption, ReplayInv, CacheSound
    <2> QED
      BY <2>1, HistoryConstantsOK DEF Event, Adopt, PolicyEvent, PolicyAction
  <1>3. NewEvents(n, action) = IF NeedsAdoption(n) THEN <<x>> \o <<y>> ELSE << >> \o <<y>>
    BY DEF NewEvents
  <1> HIDE DEF x, y
  <1>4. NewEvents(n, action) \in Seq(PolicyEvent)
    BY <1>1, <1>2, <1>3
  <1>5. file[n].events \o NewEvents(n, action) \in Seq(PolicyEvent)
    BY <1>4, HistorySound, SoundSequence
  <1> QED
    BY <1>4, <1>5 DEF MayChange, history, Sound, IsHistory

LEMMA AppendStep ==
  ASSUME ReplayInv, NEW n \in Node, NEW action, append_policy_action(n, action)
  PROVE  ReplayInv' /\ Longer /\ Follows /\ SavedStay
  <1> DEFINE evs == NewEvents(n, action)
             f == AppendTo(file[n], evs)
  <1>1. evs \in Seq(PolicyEvent) /\ Sound(file[n].events \o evs)
    BY NewEventsSound DEF append_policy_action
  <1>2. /\ file' = [file EXCEPT ![n] = f] /\ saved' = saved /\ net' = net
        /\ write_policy_cache(n, derive_policy(file[n].events \o evs))
    BY DEF append_policy_action, history
  <1>3. FileSound(file[n]) /\ Sound(file[n].events)
    BY HistorySound
  <1> HIDE DEF evs
  <1>4. f.events = file[n].events \o evs /\ FileSound(f) /\ f.exists
    BY <1>1, <1>3, AppendToFile
  <1>5. Prefix(file[n].events, file[n].events \o evs)
    BY <1>1, <1>3, SoundAppend
  <1> HIDE DEF f
  <1>6. FilesSound' /\ CacheSound' /\ Follows /\ Longer
    BY <1>2, <1>4, <1>5, FileReplaced
  <1> QED
    BY <1>2, <1>6 DEF ReplayInv, SavedSound, NetSound, SavedStay

LEMMA CrashInAppendStep ==
  ASSUME ReplayInv, NEW n \in Node, NEW action, CrashInAppend(n, action)
  PROVE  ReplayInv' /\ Longer /\ Follows
  <1> DEFINE evs == NewEvents(n, action)
  <1>1. evs \in Seq(PolicyEvent) /\ Sound(file[n].events \o evs)
    BY NewEventsSound DEF CrashInAppend
  <1>2. cache' = cache /\ saved' = saved /\ net' = net
    BY DEF CrashInAppend
  <1>3. PICK f \in PartsOf(file[n], evs) : file' = [file EXCEPT ![n] = f]
    BY DEF CrashInAppend
  <1>4. FileSound(file[n])
    BY HistorySound
  <1> HIDE DEF evs
  <1>5. FileSound(f) /\ f.exists /\ Prefix(file[n].events, f.events)
    BY <1>1, <1>4, PartsOfFile
  <1>6. FilesSound' /\ CacheSound' /\ Follows /\ Longer
    BY <1>2, <1>3, <1>5, FileReplaced
  <1> QED
    BY <1>2, <1>6 DEF ReplayInv, SavedSound, NetSound

LEMMA RebuildStep ==
  ASSUME ReplayInv, NEW n \in Node, rebuild_policy_cache(n)
  PROVE  ReplayInv' /\ Longer /\ Follows /\ SavedStay
  <1>1. /\ file' = file /\ saved' = saved /\ net' = net
        /\ cache' = [cache EXCEPT ![n] = derive_policy(file[n].events)]
    BY DEF rebuild_policy_cache, write_policy_cache, history
  <1>2. derive_policy(file[n].events) \in Policy
    BY HistorySound
  <1>3. FilesSound' /\ Longer
    BY <1>1, SameFiles DEF ReplayInv
  <1>4. CacheSound' /\ Follows
    BY <1>1, <1>2 DEF ReplayInv, CacheSound, Follows
  <1> QED
    BY <1>1, <1>3, <1>4 DEF ReplayInv, SavedSound, NetSound, SavedStay

-----------------------------------------------------------------------------
(* Remote histories.                                                       *)

LEMMA RemoteSuffix ==
  ASSUME ReplayInv, NEW n \in Node, NEW remote, Sound(remote), Extends(n, remote)
  PROVE  /\ FileSound(file[n])
         /\ Suffix(n, remote) \in Seq(PolicyEvent)
         /\ file[n].events \o Suffix(n, remote) = remote
         /\ Prefix(file[n].events, remote)
  <1>1. FileSound(file[n]) /\ history(n) = file[n].events /\ Sound(file[n].events)
    BY HistorySound
  <1>2. Prefix(file[n].events, remote)
    BY <1>1 DEF Extends
  <1>3. Suffix(n, remote) = SubSeq(remote, Len(file[n].events) + 1, Len(remote))
    BY <1>1 DEF Suffix
  <1> QED
    BY <1>1, <1>2, <1>3, SoundSuffix

(* append_remote_policy_history leaves the remote history.                 *)
LEMMA RemoteAppended ==
  ASSUME ReplayInv, NEW n \in Node, NEW remote, Sound(remote),
         append_remote_policy_history(n, remote)
  PROVE  FilesSound' /\ CacheSound' /\ Longer /\ Follows
  <1> DEFINE evs == Suffix(n, remote)
             f == AppendTo(file[n], evs)
  <1>1. Extends(n, remote) /\ write_policy_cache(n, derive_policy(remote))
    BY DEF append_remote_policy_history
  <1>2. /\ FileSound(file[n]) /\ evs \in Seq(PolicyEvent)
        /\ file[n].events \o evs = remote /\ Prefix(file[n].events, remote)
    BY <1>1, RemoteSuffix
  <1>3. CASE evs = << >>
    <2>1. file' = file
      BY <1>3 DEF append_remote_policy_history
    <2>2. FilesSound' /\ Longer
      BY <2>1, SameFiles DEF ReplayInv
    <2>3. file[n].events = remote
      BY <1>2, <1>3, HistorySound, SoundSequence
    <2>4. CacheSound' /\ Follows
      BY <1>1, <2>1, <2>3, HistorySound DEF ReplayInv, CacheSound, Follows, write_policy_cache
    <2> QED
      BY <2>2, <2>4
  <1>4. CASE evs # << >>
    <2>1. file' = [file EXCEPT ![n] = f]
      BY <1>4 DEF append_remote_policy_history
    <2> HIDE DEF evs
    <2>2. f.events = remote /\ FileSound(f) /\ f.exists
      BY <1>2, AppendToFile
    <2>3. write_policy_cache(n, derive_policy(f.events)) /\ Prefix(file[n].events, f.events)
      BY <1>1, <1>2, <2>2
    <2> HIDE DEF f
    <2> QED
      BY <1>2, <2>1, <2>2, <2>3, FileReplaced
  <1> QED
    BY <1>3, <1>4

(* A branch is saved and the frame that brought it is answered.            *)
LEMMA SaveStep ==
  ASSUME ReplayInv, NEW n \in Node, NEW h, Sound(h), h # << >>, file' = file,
         cache' = cache, save_policy_conflict(n, h), NetSound'
  PROVE  ReplayInv' /\ Longer /\ Follows /\ SavedStay
  <1>1. saved' = [saved EXCEPT ![n] = @ \cup {h}]
    BY DEF save_policy_conflict
  <1>2. SavedSound'
    BY <1>1, SavedAdds DEF ReplayInv
  <1>3. SavedStay
    BY <1>1 DEF ReplayInv, SavedSound, SavedStay
  <1> QED
    BY <1>2, <1>3, QuietStep DEF ReplayInv

LEMMA SendStatusStep ==
  ASSUME ReplayInv, NEW n \in Node, NEW m \in Node, SendStatus(n, m)
  PROVE  ReplayInv' /\ Longer /\ Follows /\ SavedStay
  <1>1. Sound(history(n))
    BY HistorySound
  <1>2. NetSound'
    BY <1>1, NetAdds DEF ReplayInv, SendStatus
  <1> QED
    BY <1>2, QuietStep DEF SendStatus

LEMMA LossStep ==
  ASSUME ReplayInv, UNCHANGED <<file, cache, saved>>, net' \subseteq net
  PROVE  ReplayInv' /\ Longer /\ Follows /\ SavedStay
  BY NetLoses, QuietStep DEF ReplayInv

LEMMA ForkNotEmpty ==
  ASSUME ReplayInv, NEW n \in Node, NEW h, Fork(n, h)
  PROVE  h # << >>
  BY HistorySound, SoundSequence DEF Fork

LEMMA ServerForkStep ==
  ASSUME ReplayInv, NEW f \in net, ServerFork(f)
  PROVE  ReplayInv' /\ Longer /\ Follows /\ SavedStay
  <1>1. f.from \in Node /\ f.to \in Node /\ Sound(f.events) /\ f.events # << >>
    BY FrameSound, ForkNotEmpty DEF ServerFork
  <1>2. Sound(history(f.to))
    BY <1>1, HistorySound
  <1>3. /\ file' = file /\ cache' = cache /\ save_policy_conflict(f.to, f.events)
        /\ net' \subseteq net \cup {Frame("conflict", f.to, f.from, history(f.to))}
    BY DEF ServerFork
  <1>4. NetSound'
    BY <1>1, <1>2, <1>3, NetAdds DEF ReplayInv
  <1> QED
    BY <1>1, <1>3, <1>4, SaveStep

LEMMA ServerReconcileStep ==
  ASSUME ReplayInv, NEW f \in net, ServerReconcile(f)
  PROVE  ReplayInv' /\ Longer /\ Follows /\ SavedStay
  <1>1. f.from \in Node /\ f.to \in Node /\ Sound(f.events)
    BY FrameSound
  <1>2. Sound(history(f.to))
    BY <1>1, HistorySound
  <1>3. saved' = saved
    BY DEF ServerReconcile
  <1>4. \E h \in {f.events, history(f.to)} :
          net' \subseteq net \cup {Frame("update", f.to, f.from, h)}
    BY DEF ServerReconcile
  <1>5. NetSound'
    BY <1>1, <1>2, <1>4, NetAdds DEF ReplayInv
  <1>6. append_remote_policy_history(f.to, f.events) \/ (file' = file /\ cache' = cache)
    BY DEF ServerReconcile
  <1>7. CASE append_remote_policy_history(f.to, f.events)
    <2>1. FilesSound' /\ CacheSound' /\ Longer /\ Follows
      BY <1>1, <1>7, RemoteAppended
    <2> QED
      BY <1>3, <1>5, <2>1 DEF ReplayInv, SavedSound, SavedStay
  <1>8. CASE file' = file /\ cache' = cache
    BY <1>3, <1>5, <1>8, QuietStep
  <1> QED
    BY <1>6, <1>7, <1>8

LEMMA ClientConflictStep ==
  ASSUME ReplayInv, NEW f \in net, ClientConflict(f)
  PROVE  ReplayInv' /\ Longer /\ Follows /\ SavedStay
  <1>1. f.to \in Node /\ Sound(f.events)
    BY FrameSound
  <1>2. /\ file' = file /\ cache' = cache /\ save_policy_conflict(f.to, f.events)
        /\ net' \subseteq net /\ f.events # << >>
    BY DEF ClientConflict
  <1> QED
    BY <1>1, <1>2, NetLoses, SaveStep DEF ReplayInv

LEMMA ClientUpdateStep ==
  ASSUME ReplayInv, NEW f \in net, ClientUpdate(f)
  PROVE  ReplayInv' /\ Longer /\ Follows /\ SavedStay
  <1>1. f.to \in Node /\ Sound(f.events)
    BY FrameSound
  <1>2. /\ append_remote_policy_history(f.to, f.events)
        /\ saved' = saved /\ net' \subseteq net
    BY DEF ClientUpdate
  <1>3. FilesSound' /\ CacheSound' /\ Longer /\ Follows
    BY <1>1, <1>2, RemoteAppended
  <1> QED
    BY <1>2, <1>3, NetLoses DEF ReplayInv, SavedSound, SavedStay

LEMMA ReceiveStep ==
  ASSUME ReplayInv, NEW f \in net, Receive(f) \/ Drop(f)
  PROVE  ReplayInv' /\ Longer /\ Follows /\ SavedStay
  <1>1. CASE RefuseStatus(f) \/ RefuseUpdate(f) \/ Drop(f)
    <2>1. UNCHANGED <<file, cache, saved>> /\ net' \subseteq net
      BY <1>1 DEF RefuseStatus, RefuseUpdate, Drop
    <2> QED
      BY <2>1, LossStep
  <1> QED
    BY <1>1, ServerForkStep, ServerReconcileStep, ClientConflictStep, ClientUpdateStep
    DEF Receive

-----------------------------------------------------------------------------
(* A selected branch.                                                      *)

LEMMA DisplacedSound ==
  ASSUME ReplayInv, NEW n \in Node, NEW h
  PROVE  \A g \in Displaced(n, h) : Sound(g) /\ g # << >>
  BY HistorySound DEF Displaced

(* The current branch is saved before another one is installed.            *)
Replaced ==
    \A n \in Node : \/ Prefix(file[n].events, file'[n].events)
                    \/ file[n].events \in saved'[n] /\ file'[n].events # << >>

LEMMA ResolveStep ==
  ASSUME ReplayInv, NEW n \in Node, NEW h, resolve_policy_conflict(n, h)
  PROVE  ReplayInv' /\ Replaced /\ Follows /\ SavedStay
  <1> DEFINE f == [exists |-> TRUE, events |-> h, tail |-> "clean"]
             D == Displaced(n, h)
  <1>1. Sound(h) /\ h # << >> /\ Sound(file[n].events)
    BY HistorySound DEF resolve_policy_conflict, ReplayInv, SavedSound
  <1>2. /\ file' = [file EXCEPT ![n] = f]
        /\ saved' = [saved EXCEPT ![n] = @ \cup D]
        /\ write_policy_cache(n, derive_policy(h))
        /\ net' = net
    BY DEF resolve_policy_conflict
  <1>3. FileSound(f) /\ f.events = h /\ f.exists
    BY <1>1, SoundSequence DEF FileSound
  <1>4. \A g \in D : Sound(g) /\ g # << >>
    BY DisplacedSound
  <1>5. file[n].events \in D \/ file[n].events = h \/ file[n].events = << >>
    BY DEF Displaced, history
  <1> HIDE DEF f, D
  <1>6. /\ FilesSound' /\ CacheSound' /\ Follows
        /\ \A m \in Node : file'[m] = IF m = n THEN f ELSE file[m]
    BY <1>2, <1>3, FileReplaced
  <1>7. SavedSound'
    BY <1>2, <1>4, SavedAdds DEF ReplayInv
  <1>8. SavedStay /\ D \subseteq saved'[n]
    BY <1>2 DEF ReplayInv, SavedSound, SavedStay
  <1>9. ASSUME NEW m \in Node
        PROVE  \/ Prefix(file[m].events, file'[m].events)
               \/ file[m].events \in saved'[m] /\ file'[m].events # << >>
    <2>1. CASE m = n
      BY <1>1, <1>3, <1>5, <1>6, <1>8, <2>1, SoundSequence
    <2>2. CASE m # n
      BY <1>6, <2>2, HistorySound, SoundSequence
    <2> QED
      BY <2>1, <2>2
  <1>10. NetSound'
    BY <1>2, NetLoses DEF ReplayInv
  <1> QED
    BY <1>6, <1>7, <1>8, <1>9, <1>10 DEF ReplayInv, Replaced

-----------------------------------------------------------------------------
(* Crashes.                                                                *)

LEMMA CrashInUpdateStep ==
  ASSUME ReplayInv, NEW f \in net, CrashInUpdate(f)
  PROVE  ReplayInv' /\ Longer /\ Follows
  <1> DEFINE n == f.to
             evs == Suffix(n, f.events)
  <1>1. n \in Node /\ Sound(f.events)
    BY FrameSound
  <1>2. cache' = cache /\ saved' = saved /\ net' \subseteq net /\ Extends(n, f.events)
    BY DEF CrashInUpdate
  <1>3. PICK x \in PartsOf(file[n], evs) : file' = [file EXCEPT ![n] = x]
    BY DEF CrashInUpdate
  <1>4. /\ FileSound(file[n]) /\ evs \in Seq(PolicyEvent)
        /\ Sound(file[n].events \o evs)
    BY <1>1, <1>2, RemoteSuffix
  <1> HIDE DEF evs, n
  <1>5. FileSound(x) /\ x.exists /\ Prefix(file[n].events, x.events)
    BY <1>4, PartsOfFile
  <1>6. FilesSound' /\ CacheSound' /\ Follows /\ Longer
    BY <1>1, <1>2, <1>3, <1>5, FileReplaced
  <1> QED
    BY <1>2, <1>6, NetLoses DEF ReplayInv, SavedSound

LEMMA CrashInSaveStep ==
  ASSUME ReplayInv, NEW f \in net, CrashInSave(f)
  PROVE  ReplayInv' /\ Longer /\ Follows
  <1>1. f.to \in Node /\ Sound(f.events)
    BY FrameSound
  <1>2. /\ file' = file /\ cache' = cache /\ net' \subseteq net
        /\ saved' = [saved EXCEPT ![f.to] = @ \ {f.events}]
        /\ f.events # << >>
    BY <1>1, ForkNotEmpty DEF CrashInSave
  <1>3. SavedSound'
    BY <1>1, <1>2, SavedAdds DEF ReplayInv
  <1>4. NetSound'
    BY <1>2, NetLoses DEF ReplayInv
  <1> QED
    BY <1>2, <1>3, <1>4, QuietStep DEF ReplayInv

LEMMA CrashInResolveStep ==
  ASSUME ReplayInv, NEW n \in Node, NEW h, CrashInResolve(n, h)
  PROVE  ReplayInv' /\ Longer /\ Follows
  <1>1. \A g \in Displaced(n, h) : Sound(g) /\ g # << >>
    BY DisplacedSound
  <1>2. SavedSound'
    BY <1>1, SavedAdds DEF ReplayInv, CrashInResolve
  <1>3. file' = file /\ cache' = cache /\ NetSound'
    BY NetLoses DEF ReplayInv, CrashInResolve
  <1> QED
    BY <1>2, <1>3, QuietStep DEF ReplayInv

-----------------------------------------------------------------------------
(* The specification.                                                      *)

LEMMA InitReplay == Init => ReplayInv
  <1> SUFFICES ASSUME Init PROVE ReplayInv
    OBVIOUS
  <1>1. FileSound(NoFile)
    BY EmptySound, SoundSequence DEF FileSound, NoFile
  <1>2. FilesSound
    BY <1>1 DEF Init, FilesSound
  <1> QED
    BY <1>2, HistoryConstantsOK DEF Init, ReplayInv, SavedSound, NetSound, CacheSound

LEMMA NextStep == ReplayInv /\ Next => ReplayInv' /\ Replaced /\ Follows /\ SavedStay
  <1> SUFFICES ASSUME ReplayInv, Next PROVE ReplayInv' /\ Replaced /\ Follows /\ SavedStay
    OBVIOUS
  <1>0. Longer => Replaced
    BY DEF Longer, Replaced
  <1>1. CASE \E n \in Node, a \in Actions : append_policy_action(n, a)
    BY <1>0, <1>1, AppendStep
  <1>2. CASE \E n \in Node : rebuild_policy_cache(n)
    BY <1>0, <1>2, RebuildStep
  <1>3. CASE \E d \in Dials : SendStatus(d[1], d[2])
    <2>1. PICK d \in Dials : SendStatus(d[1], d[2])
      BY <1>3
    <2>2. d[1] \in Node /\ d[2] \in Node
      BY HistoryConstantsOK
    <2> QED
      BY <1>0, <2>1, <2>2, SendStatusStep
  <1>4. CASE \E f \in net : Receive(f) \/ Drop(f)
    BY <1>0, <1>4, ReceiveStep
  <1>5. CASE \E n \in Node : \E h \in saved[n] : resolve_policy_conflict(n, h)
    BY <1>5, ResolveStep
  <1> QED
    BY <1>1, <1>2, <1>3, <1>4, <1>5 DEF Next

LEMMA CrashStep == ReplayInv /\ Crash => ReplayInv' /\ Longer /\ Follows
  BY CrashInAppendStep, CrashInUpdateStep, CrashInSaveStep, CrashInResolveStep
     DEF Crash

LEMMA StutterStep == ReplayInv /\ UNCHANGED vars => ReplayInv' /\ Longer /\ Follows /\ SavedStay
  BY LossStep DEF vars

LEMMA AnyStep == ReplayInv /\ [Next \/ Crash]_vars => ReplayInv' /\ Replaced /\ Follows
  <1>1. Longer => Replaced
    BY DEF Longer, Replaced
  <1> QED
    BY <1>1, NextStep, CrashStep, StutterStep

(* Files, caches, saved branches and frames hold well-formed events and    *)
(* policies only, no history grows beyond the bound, no branch saved by    *)
(* save_policy_conflict is empty, and while there is no policy.ndjson      *)
(* there is no event.                                                      *)
THEOREM PolicyTypes == CrashSpec => []TypeOK
  <1>1. ReplayInv => TypeOK
    <2>1. ASSUME ReplayInv, NEW n \in Node
          PROVE  /\ file[n].exists \in BOOLEAN /\ IsHistory(history(n))
                 /\ file[n].tail \in {"clean", "open", "bad"}
                 /\ ~file[n].exists => file[n] = NoFile
      BY <2>1, HistorySound DEF FileSound, Sound
    <2>2. ReplayInv => \A n \in Node : cache[n] \in Policy \cup {NoPolicy}
      BY DEF ReplayInv, CacheSound
    <2>3. ReplayInv => \A n \in Node : \A h \in saved[n] : IsHistory(h) /\ h # << >>
      BY DEF ReplayInv, SavedSound, Sound
    <2>4. ReplayInv => \A f \in net : /\ f.kind \in {"status", "update", "conflict"}
                                      /\ {f.from, f.to} \subseteq Node
                                      /\ IsHistory(f.events)
      BY DEF ReplayInv, NetSound, Sound
    <2> QED
      BY <2>1, <2>2, <2>3, <2>4 DEF TypeOK
  <1> QED
    BY InitReplay, AnyStep, <1>1, PTL DEF CrashSpec

(* Whatever operators append, peers send, a selected branch replaces and a *)
(* crash cuts short, on any number of nodes: a history that can be read    *)
(* replays under derive_policy, and so does every saved branch.            *)
THEOREM HistoriesAlwaysReplay == CrashSpec => []HistoriesReplay
  <1>1. ReplayInv => HistoriesReplay
    <2>1. ASSUME ReplayInv, NEW n \in Node
          PROVE  /\ ValidHistory(history(n)) /\ \A h \in saved[n] : ValidHistory(h)
      BY <2>1, HistorySound, SoundSequence DEF ReplayInv, SavedSound
    <2> QED
      BY <2>1 DEF HistoriesReplay
  <1> QED
    BY InitReplay, AnyStep, <1>1, PTL DEF CrashSpec

(* The branches of a node survive every step but a crash: an append and a  *)
(* remote update only lengthen the current one, resolve_policy_conflict    *)
(* saves it before it installs another, and no step removes a saved one.   *)
THEOREM BranchesSurvive == CrashSpec => BranchesKept
  <1> DEFINE Kept == \A n \in Node : Readable(n)' =>
               \A h \in Recoverable(n) : \E g \in Recoverable(n)' : Prefix(h, g)
  <1>1. ReplayInv /\ Replaced /\ SavedStay => Kept
    <2> SUFFICES ASSUME ReplayInv, Replaced, SavedStay, NEW n \in Node, Readable(n)',
                        NEW h \in Recoverable(n)
                 PROVE  \E g \in Recoverable(n)' : Prefix(h, g)
      OBVIOUS
    <2>1. h \in saved[n] \/ h = file[n].events
      BY DEF Recoverable, history
    <2>2. Sound(h)
      BY <2>1, HistorySound DEF ReplayInv, SavedSound
    <2>3. Prefix(h, h)
      BY <2>2, SoundSequence
    <2>4. Recoverable(n)' = saved'[n] \cup {file'[n].events}
      BY DEF Recoverable, history
    <2>5. saved[n] \subseteq saved'[n]
      BY DEF SavedStay
    <2> QED
      BY <2>1, <2>3, <2>4, <2>5 DEF Replaced
  <1>2. Longer => Replaced
    BY DEF Longer, Replaced
  <1>3. ReplayInv /\ [Next \/ Crash]_vars => [~Crash => Kept]_vars
    BY <1>1, <1>2, NextStep, StutterStep
  <1> QED
    BY InitReplay, AnyStep, <1>3, PTL DEF CrashSpec, BranchesKept

-----------------------------------------------------------------------------
(* A restricted channel.                                                   *)

(* While there is no history file, no policy.json restricts the channel.   *)
OpenUnlessHistory ==
    \A n \in Node : ~file[n].exists => cache[n] = NoPolicy \/ cache[n].mode = "open"

LEMMA OpenStep ==
  ASSUME ReplayInv, OpenUnlessHistory, ReplayInv', Follows
  PROVE  OpenUnlessHistory'
  <1> SUFFICES ASSUME NEW n \in Node, ~file'[n].exists
               PROVE  cache'[n] = NoPolicy \/ cache'[n].mode = "open"
    BY DEF OpenUnlessHistory
  <1>1. ~file[n].exists /\ cache'[n] \in {cache[n], derive_policy(file'[n].events)}
    BY DEF Follows
  <1>2. file'[n].events = << >>
    BY DEF ReplayInv, FilesSound, FileSound, NoFile
  <1>3. derive_policy(<< >>).mode = "open"
    BY EmptySound, SoundSequence, DerivedPolicy, DefaultPolicyType
  <1> QED
    BY <1>1, <1>2, <1>3 DEF OpenUnlessHistory

(* The channel is restricted for a node exactly when it has an event.      *)
LEMMA RestrictedByHistory ==
  ASSUME ReplayInv, OpenUnlessHistory, NEW n \in Node
  PROVE  policy(n).mode = "restricted" <=> history(n) # << >>
  <1>1. FileSound(file[n]) /\ history(n) = file[n].events /\ Sound(history(n))
    BY HistorySound
  <1>2. history(n) \in Seq(PolicyEvent) /\ ValidHistory(history(n))
    BY <1>1, SoundSequence
  <1>3. CASE ~file[n].exists
    <2>1. history(n) = << >>
      BY <1>1, <1>3 DEF FileSound, NoFile
    <2>2. policy(n) = DefaultPolicy \/ policy(n).mode = "open"
      BY <1>3 DEF policy, OpenUnlessHistory
    <2> QED
      BY <2>1, <2>2, DefaultPolicyType
  <1>4. CASE file[n].exists
    <2>1. policy(n) = derive_policy(history(n))
      BY <1>4 DEF policy
    <2>2. IF history(n) = << >> THEN derive_policy(history(n)) = DefaultPolicy
          ELSE Controlled(derive_policy(history(n)))
      BY <1>2, DerivedPolicy
    <2> QED
      BY <2>1, <2>2, DefaultPolicyType DEF Controlled
  <1> QED
    BY <1>3, <1>4

LEMMA EventsStay ==
  ASSUME ReplayInv, ReplayInv', Replaced, NEW n \in Node, history(n) # << >>
  PROVE  history(n)' # << >>
  <1>1. /\ history(n) = file[n].events /\ history(n)' = file'[n].events
        /\ history(n) \in Seq(PolicyEvent)
    BY HistorySound, SoundSequence DEF history
  <1>2. ~Prefix(history(n), << >>)
    BY <1>1 DEF Prefix
  <1> QED
    BY <1>1, <1>2 DEF Replaced

(* A channel that began without a policy.json that restricts it stays      *)
(* restricted on every node that has seen it so: a remote history, a       *)
(* selected branch, a rebuilt cache and a crash all leave at least one     *)
(* valid event, and no valid event opens a channel (ValidIsControlled).    *)
THEOREM RestrictionStays ==
  ASSUME \A n \in Node : Legacy[n] = NoPolicy \/ Legacy[n].mode = "open"
  PROVE  CrashSpec => RestrictedStays
  <1> DEFINE Stays == \A n \in Node :
               Readable(n) /\ policy(n).mode = "restricted" =>
                  ~Readable(n)' \/ policy(n)'.mode = "restricted"
             I == ReplayInv /\ OpenUnlessHistory
  <1>1. Init => I
    BY InitReplay DEF Init, OpenUnlessHistory
  <1>2. I /\ [Next \/ Crash]_vars => I' /\ Stays
    <2> SUFFICES ASSUME I, [Next \/ Crash]_vars PROVE I' /\ Stays
      OBVIOUS
    <2>1. I' /\ Replaced
      BY AnyStep, OpenStep
    <2>2. ASSUME NEW n \in Node, policy(n).mode = "restricted"
          PROVE  policy(n)'.mode = "restricted"
      <3>1. history(n) # << >>
        BY <2>2, RestrictedByHistory
      <3>2. history(n)' # << >>
        BY <2>1, <3>1, EventsStay
      <3>3. (policy(n).mode = "restricted" <=> history(n) # << >>)'
        BY <2>1, RestrictedByHistory, PTL
      <3> QED
        BY <3>2, <3>3
    <2> QED
      BY <2>1, <2>2
  <1>3. I /\ [Next \/ Crash]_vars => I' /\ [Stays]_vars
    BY <1>2
  <1> QED
    BY <1>1, <1>3, PTL DEF CrashSpec, RestrictedStays

-----------------------------------------------------------------------------
(* Without crashes: what is under way is held.                             *)

Holding(h) == \E m \in Node : \E g \in saved[m] \cup {file[m].events} : Prefix(h, g)

FramesHeld == \A f \in net : Holding(f.events)

LEMMA HeldIsHolding ==
  ASSUME NEW h
  PROVE  Shared!Held(h) <=> Holding(h)
  BY DEF Shared!Held, Shared!Prefix, Prefix, history, Holding

LEMMA HistoriesHeld ==
  ASSUME ReplayInv, NEW n \in Node
  PROVE  Holding(history(n))
  <1>1. Prefix(history(n), file[n].events)
    BY HistorySound, SoundSequence
  <1> QED
    BY <1>1 DEF Holding

(* A node goes on with its current branch, or saves it before it installs  *)
(* another.                                                                *)
LEMMA HoldingStays ==
  ASSUME ReplayInv, ReplayInv', Replaced, SavedStay, NEW h, Sound(h), Holding(h)
  PROVE  Holding(h)'
  <1>1. PICK m \in Node : \E g \in saved[m] \cup {file[m].events} : Prefix(h, g)
    BY DEF Holding
  <1>2. PICK g \in saved[m] \cup {file[m].events} : Prefix(h, g)
    BY <1>1
  <1>3. CASE g \in saved'[m]
    BY <1>2, <1>3 DEF Holding
  <1>4. CASE g = file[m].events /\ Prefix(g, file'[m].events)
    <2>1. Sound(g) /\ Sound(file'[m].events)
      BY <1>4 DEF ReplayInv, FilesSound, FileSound
    <2>2. Prefix(h, file'[m].events)
      BY <1>2, <1>4, <2>1, SoundSequence, PrefixTransitive
    <2> QED
      BY <2>2 DEF Holding
  <1> QED
    BY <1>2, <1>3, <1>4 DEF Replaced, SavedStay

(* A frame goes out with what some node has by then.                       *)
LEMMA FramesAdded ==
  ASSUME ReplayInv, ReplayInv', Replaced, SavedStay, FramesHeld,
         \A f \in net' : f \notin net => Holding(f.events)'
  PROVE  FramesHeld'
  <1>1. ASSUME NEW f \in net' PROVE Holding(f.events)'
    <2>1. CASE f \in net
      <3>1. Sound(f.events) /\ Holding(f.events)
        BY <2>1, FrameSound DEF FramesHeld
      <3> QED
        BY <3>1, HoldingStays
    <2>2. CASE f \notin net
      BY <2>2
    <2> QED
      BY <2>1, <2>2
  <1> QED
    BY <1>1 DEF FramesHeld

LEMMA FramesHeldStep == ReplayInv /\ FramesHeld /\ [Next]_vars => FramesHeld'
  <1> SUFFICES ASSUME ReplayInv, FramesHeld, [Next]_vars PROVE FramesHeld'
    OBVIOUS
  <1>0. ReplayInv' /\ Replaced /\ SavedStay
    <2>1. Longer => Replaced
      BY DEF Longer, Replaced
    <2> QED
      BY <2>1, NextStep, StutterStep
  <1>1. CASE net' \subseteq net
    BY <1>0, <1>1, FramesAdded
  <1>2. ASSUME NEW n \in Node, NEW m \in Node, SendStatus(n, m) PROVE FramesHeld'
    <2>1. \A f \in net' : f \notin net => f.events = history(n)
      BY <1>2 DEF SendStatus, Frame
    <2>2. PICK g : g = history(n)
      OBVIOUS
    <2>3. Holding(g)'
      BY <1>0, <2>2, HistorySound, HistoriesHeld, HoldingStays
    <2> QED
      BY <1>0, <2>1, <2>2, <2>3, FramesAdded
  <1>3. ASSUME NEW f \in net, ServerFork(f) \/ ServerReconcile(f) PROVE FramesHeld'
    <2>1. f.to \in Node /\ Sound(f.events) /\ Holding(f.events)
      BY FrameSound DEF FramesHeld
    <2>2. Sound(history(f.to)) /\ Holding(history(f.to))
      BY <2>1, HistorySound, HistoriesHeld
    <2>3. PICK g : g = history(f.to)
      OBVIOUS
    <2>4. Holding(f.events)' /\ Holding(g)'
      BY <1>0, <2>1, <2>2, <2>3, HoldingStays
    <2>5. \A x \in net' : x \notin net => x.events = f.events \/ x.events = g
      BY <1>3, <2>3 DEF ServerFork, ServerReconcile, Frame
    <2> QED
      BY <1>0, <2>4, <2>5, FramesAdded
  <1>4. CASE \E d \in Dials : SendStatus(d[1], d[2])
    <2>1. PICK d \in Dials : SendStatus(d[1], d[2])
      BY <1>4
    <2>2. d[1] \in Node /\ d[2] \in Node
      BY HistoryConstantsOK
    <2> QED
      BY <1>2, <2>1, <2>2
  <1>5. CASE \E f \in net : Receive(f) \/ Drop(f)
    BY <1>1, <1>3, <1>5 DEF Receive, Drop, RefuseStatus, RefuseUpdate, ClientConflict, ClientUpdate
  <1>6. CASE \/ \E n \in Node, a \in Actions : append_policy_action(n, a)
             \/ \E n \in Node : rebuild_policy_cache(n)
             \/ \E n \in Node : \E h \in saved[n] : resolve_policy_conflict(n, h)
    BY <1>1, <1>6 DEF append_policy_action, rebuild_policy_cache, resolve_policy_conflict
  <1>7. CASE UNCHANGED vars
    BY <1>1, <1>7 DEF vars
  <1> QED
    BY <1>4, <1>5, <1>6, <1>7 DEF Next

(* A file that grows, seen as a branch that goes on.                       *)
LEMMA ExtendsBranch ==
  ASSUME NEW n \in Node, Prefix(file[n].events, file'[n].events), saved' = saved,
         \A m \in Node : m # n => file'[m].events = file[m].events
  PROVE  Shared!Extend(n)
  <1> DEFINE b == [m \in Node |-> file[m].events]
             c == [m \in Node |-> file'[m].events]
  <1>1. c = [b EXCEPT ![n] = c[n]]
    OBVIOUS
  <1>2. Prefix(b[n], c[n])
    OBVIOUS
  <1> QED
    BY <1>1, <1>2 DEF Shared!Extend, Shared!Prefix, Prefix, history

LEMMA TakesBranch ==
  ASSUME ReplayInv, NEW n \in Node, NEW remote, Sound(remote), Holding(remote),
         append_remote_policy_history(n, remote), saved' = saved
  PROVE  Shared!Take(n)
  <1> DEFINE evs == Suffix(n, remote)
  <1>1. /\ FileSound(file[n]) /\ evs \in Seq(PolicyEvent)
        /\ file[n].events \o evs = remote /\ Prefix(file[n].events, remote)
    BY RemoteSuffix DEF append_remote_policy_history
  <1>2. file'[n].events = remote /\ \A m \in Node : m # n => file'[m] = file[m]
    <2>1. CASE evs = << >>
      <3>1. file' = file
        BY <2>1 DEF append_remote_policy_history
      <3>2. file[n].events = remote
        BY <1>1, <2>1, HistorySound, SoundSequence
      <3> QED
        BY <3>1, <3>2
    <2>2. CASE evs # << >>
      <3>1. file' = [file EXCEPT ![n] = AppendTo(file[n], evs)]
        BY <2>2 DEF append_remote_policy_history
      <3>2. AppendTo(file[n], evs).events = remote
        BY <1>1, AppendToFile
      <3> QED
        BY <3>1, <3>2 DEF ReplayInv, FilesSound
    <2> QED
      BY <2>1, <2>2
  <1>3. Shared!Extend(n)
    BY <1>1, <1>2, ExtendsBranch
  <1>4. Shared!Held(remote)
    BY HeldIsHolding
  <1> QED
    BY <1>2, <1>3, <1>4 DEF Shared!Take, history

LEMMA SavesBranch ==
  ASSUME ReplayInv, NEW n \in Node, NEW h, Holding(h), save_policy_conflict(n, h), file' = file
  PROVE  \E g \in saved'[n] : Shared!Save(n, g)
  <1>1. Shared!Held(h)
    BY HeldIsHolding
  <1>2. h \in saved'[n]
    BY DEF save_policy_conflict, ReplayInv, SavedSound
  <1>3. Shared!Save(n, h)
    BY <1>1 DEF Shared!Save, save_policy_conflict, history
  <1> QED
    BY <1>2, <1>3

LEMMA SignsBranch ==
  ASSUME ReplayInv, NEW n \in Node, NEW action, append_policy_action(n, action)
  PROVE  Shared!Sign(n)
  <1> DEFINE evs == NewEvents(n, action)
             h == file[n].events
  <1>1. evs \in Seq(PolicyEvent) /\ Sound(h \o evs)
    BY NewEventsSound DEF append_policy_action
  <1>2. FileSound(file[n]) /\ Sound(h) /\ h \in Seq(PolicyEvent)
    BY HistorySound, SoundSequence
  <1>3. \A i \in 1..Len(evs) : evs[i].actor = IdentityOf[n]
    <2> DEFINE x == Event(IdentityOf[n], Adopt(cache[n]))
               y == Event(IdentityOf[n], action)
    <2>1. x.actor = IdentityOf[n] /\ y.actor = IdentityOf[n]
      BY DEF Event
    <2>2. evs = IF NeedsAdoption(n) THEN <<x>> \o <<y>> ELSE << >> \o <<y>>
      BY DEF NewEvents
    <2> HIDE DEF x, y, evs
    <2>3. PICK S : S = {x, y}
      OBVIOUS
    <2>4. x \in S /\ y \in S
      BY <2>3
    <2>5. evs \in Seq(S)
      BY <2>2, <2>4
    <2> QED
      BY <2>1, <2>3, <2>5
  <1>4. file' = [file EXCEPT ![n] = AppendTo(file[n], evs)] /\ saved' = saved
    BY DEF append_policy_action
  <1> HIDE DEF evs
  <1>5. file'[n].events = h \o evs /\ \A m \in Node : m # n => file'[m] = file[m]
    BY <1>1, <1>2, <1>4, AppendToFile DEF ReplayInv, FilesSound
  <1>6. Shared!Extend(n)
    BY <1>1, <1>2, <1>4, <1>5, SoundAppend, ExtendsBranch
  <1>7. ASSUME NEW i \in (Len(h) + 1)..Len(h \o evs)
        PROVE  (h \o evs)[i].actor = IdentityOf[n]
    <2>1. i - Len(h) \in 1..Len(evs) /\ (h \o evs)[i] = evs[i - Len(h)]
      BY <1>1, <1>2
    <2> QED
      BY <1>3, <2>1
  <1>8. ValidHistory(h \o evs)
    BY <1>1 DEF Sound
  <1> HIDE DEF h
  <1> QED
    BY <1>5, <1>6, <1>7, <1>8 DEF Shared!Sign, history, h

LEMMA SelectsBranch ==
  ASSUME ReplayInv, NEW n \in Node, NEW h, resolve_policy_conflict(n, h)
  PROVE  h \in saved[n] /\ Shared!Select(n, h)
  <1> DEFINE f == [exists |-> TRUE, events |-> h, tail |-> "clean"]
             b == [m \in Node |-> file[m].events]
  <1>1. /\ h \in saved[n]
        /\ saved' = [saved EXCEPT ![n] = @ \cup Displaced(n, h)]
        /\ file' = [file EXCEPT ![n] = f]
    BY DEF resolve_policy_conflict
  <1>2. \A m \in Node : file'[m].events = IF m = n THEN h ELSE file[m].events
    BY <1>1 DEF ReplayInv, FilesSound
  <1>3. [m \in Node |-> file'[m].events] = [b EXCEPT ![n] = h]
    BY <1>2
  <1>4. saved[n] \cup Displaced(n, h) = saved[n] \cup ({b[n]} \ {<< >>})
    BY <1>1 DEF Displaced, history
  <1>5. saved' = [saved EXCEPT ![n] = saved[n] \cup ({b[n]} \ {<< >>})]
    BY <1>1, <1>4
  <1> QED
    BY <1>1, <1>3, <1>5 DEF Shared!Select, history

LEMMA SharedInit == Init => Shared!Init
  <1> SUFFICES ASSUME Init PROVE Shared!Init
    OBVIOUS
  <1>1. \A n \in Node : file[n].events = << >>
    BY DEF Init, NoFile
  <1> QED
    BY <1>1 DEF Init, Shared!Init, history

LEMMA SharedStep == ReplayInv /\ FramesHeld /\ [Next]_vars => [Shared!Next]_(Shared!vars)
  <1> SUFFICES ASSUME ReplayInv, FramesHeld, [Next]_vars
               PROVE  [Shared!Next]_(Shared!vars)
    OBVIOUS
  <1>1. file' = file /\ saved' = saved => UNCHANGED Shared!vars
    BY DEF Shared!vars, history
  <1>2. CASE \E n \in Node, a \in Actions : append_policy_action(n, a)
    BY <1>2, SignsBranch DEF Shared!Next
  <1>3. CASE \/ \E n \in Node : rebuild_policy_cache(n)
             \/ \E d \in Dials : SendStatus(d[1], d[2])
             \/ UNCHANGED vars
    BY <1>1, <1>3 DEF rebuild_policy_cache, SendStatus, vars
  <1>4. ASSUME NEW f \in net, Receive(f) \/ Drop(f) PROVE [Shared!Next]_(Shared!vars)
    <2>1. f.to \in Node /\ Sound(f.events) /\ Holding(f.events)
      BY FrameSound DEF FramesHeld
    <2>2. CASE ServerFork(f) \/ ClientConflict(f)
      BY <2>1, <2>2, SavesBranch DEF ServerFork, ClientConflict, Shared!Next
    <2>3. CASE ServerReconcile(f) \/ ClientUpdate(f)
      <3>1. /\ saved' = saved
            /\ append_remote_policy_history(f.to, f.events) \/ file' = file
        BY <2>3 DEF ServerReconcile, ClientUpdate
      <3> QED
        BY <1>1, <2>1, <3>1, TakesBranch DEF Shared!Next
    <2>4. CASE RefuseStatus(f) \/ RefuseUpdate(f) \/ Drop(f)
      BY <1>1, <2>4 DEF RefuseStatus, RefuseUpdate, Drop
    <2> QED
      BY <1>4, <2>2, <2>3, <2>4 DEF Receive
  <1>5. CASE \E n \in Node : \E h \in saved[n] : resolve_policy_conflict(n, h)
    BY <1>5, SelectsBranch DEF Shared!Next
  <1> QED
    BY <1>2, <1>3, <1>4, <1>5 DEF Next

(* However many sessions run between however many nodes, and whatever      *)
(* operators append and select while a frame is under way: with no crash,  *)
(* a history comes to a node from one that still holds it, in its current  *)
(* branch or in a saved one, and grows only by events its node signs.      *)
THEOREM ImplementsSharedHistory == Spec => SharedSpec
  <1>1. Init => FramesHeld
    BY DEF Init, FramesHeld
  <1>2. ReplayInv /\ [Next]_vars => ReplayInv'
    BY NextStep, StutterStep
  <1> QED
    BY <1>1, <1>2, InitReplay, FramesHeldStep, SharedInit, SharedStep, PTL
    DEF Spec, SharedSpec, Shared!Spec
==============================================================================
