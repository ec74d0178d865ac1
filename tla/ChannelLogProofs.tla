-------------------------- MODULE ChannelLogProofs --------------------------
(***************************************************************************)
(* TLAPS proofs about ChannelLog, for any number of processes, envelopes,  *)
(* record lengths and failures.                                            *)
(***************************************************************************)
EXTENDS ChannelLog, SequenceTheorems, FiniteSetTheorems, WellFoundedInduction, TLAPS

-----------------------------------------------------------------------------
(* The inductive invariant.                                                *)

Holds == {"policy", "authorize", "index", "write", "sync", "insert", "read"}

(* The holder of the lock is the one process inside an operation.          *)
LockInv == \A p \in Process : pc[p] \in Holds <=> lock = p

OpInv == \A p \in Process :
            pc[p] \in {"authorize", "write", "sync", "insert"} => op[p].kind = "append"

(* Records lie in the file one after the other.                            *)
FileInv ==
    /\ \A i, j \in 1..Len(log) : i < j => EndOf(log[i]) <= log[j].offset
    /\ \A i \in 1..Len(log) : EndOf(log[i]) <= eof
    /\ synced <= eof

PrefixEnd(k) == IF k = 0 THEN 0 ELSE EndOf(log[k])

(* The index that the first k records make.                                *)
IndexOf(k) == rebuild_index(SubSeq(log, 1, k), PrefixEnd(k))

(* An index is that of a prefix of the file, unless it is recognisably     *)
(* ahead of it: this, and not only IndexTrusted, is what every step keeps, *)
(* since a power loss may cut the file back to any earlier length.         *)
IndexInv ==
    index.schema => \/ index.logLen > eof
                    \/ \E k \in 0..Len(log) : index = IndexOf(k)

(* What a process knows between its steps under the lock.                  *)
WriteInv ==
    \A p \in Process :
       /\ pc[p] \in {"write", "read"} => Scannable /\ index = IndexOf(Len(log))
       /\ pc[p] \in {"sync", "insert"} =>
            /\ log # << >>
            /\ log[Len(log)].id = op[p].env
            /\ EndOf(log[Len(log)]) = eof
            /\ index = IndexOf(Len(log) - 1)
       /\ pc[p] = "insert" => synced = eof

KeptInv ==
    \A e \in kept : \E i \in 1..Len(log) : log[i].id = e /\ EndOf(log[i]) <= synced

IndexType(x) ==
    /\ DOMAIN x = {"loc", "chunks", "count", "logLen", "schema"}
    /\ DOMAIN x.loc \subseteq Envelope
    /\ \A e \in DOMAIN x.loc : x.loc[e] \in [offset : Nat, length : Nat]
    /\ x.chunks \in [Bucket -> SUBSET Envelope]
    /\ x.count \in Nat
    /\ x.logLen \in Nat
    /\ x.schema \in BOOLEAN

ControlInv ==
    /\ lock \in Process \cup {NoProcess}
    /\ pc \in [Process -> Holds \cup {"idle", "lock"}]
    /\ op \in [Process -> Op]
    /\ LockInv
    /\ OpInv

DataInv ==
    /\ log \in Seq(Record)
    /\ eof \in Nat
    /\ synced \in Nat
    /\ IndexType(index)
    /\ kept \in SUBSET Envelope
    /\ FileInv
    /\ NoDuplicateIds
    /\ IndexInv
    /\ KeptInv

IInv ==
    /\ ControlInv
    /\ DataInv
    /\ WriteInv
    /\ writers \in SUBSET Identity
    /\ dupOk \in SUBSET Envelope

-----------------------------------------------------------------------------
(* Lemmas about the index of a sequence of records.                        *)

Distinct(s) == \A i, j \in 1..Len(s) : s[i].id = s[j].id => i = j

(* The parts of a record.                                                  *)
LEMMA RecordType ==
    ASSUME NEW s \in Seq(Record), NEW i \in 1..Len(s)
    PROVE  /\ s[i] \in Record
           /\ s[i].id \in Envelope
           /\ s[i].offset \in Nat
           /\ Size[s[i].id] \in Nat /\ Size[s[i].id] >= 2
           /\ BucketOf[s[i].id] \in Bucket
           /\ EndOf(s[i]) = s[i].offset + Size[s[i].id]
           /\ EndOf(s[i]) \in Nat
<1>1. s[i] \in Record
  OBVIOUS
<1>2. s[i].id \in Envelope /\ s[i].offset \in Nat
  BY <1>1 DEF Record
<1>3. Size[s[i].id] \in Nat \ {0, 1} /\ BucketOf[s[i].id] \in Bucket
  BY <1>2, ConstantsOK
<1> QED
  BY <1>1, <1>2, <1>3 DEF EndOf

(* The first n members of a sequence.                                      *)
LEMMA Prefix ==
    ASSUME NEW s \in Seq(Record), NEW n \in 0..Len(s)
    PROVE  /\ SubSeq(s, 1, n) \in Seq(Record)
           /\ Len(SubSeq(s, 1, n)) = n
           /\ \A i \in 1..n : SubSeq(s, 1, n)[i] = s[i]
  OBVIOUS

LEMMA DistinctPrefix ==
    ASSUME NEW s \in Seq(Record), Distinct(s), NEW n \in 0..Len(s)
    PROVE  Distinct(SubSeq(s, 1, n))
<1> DEFINE t == SubSeq(s, 1, n)
<1>1. Len(t) = n /\ \A i \in 1..n : t[i] = s[i]
  BY Prefix
<1> HIDE DEF t
<1>2. ASSUME NEW i \in 1..Len(t), NEW j \in 1..Len(t), t[i].id = t[j].id
      PROVE  i = j
  <2>1. i \in 1..Len(s) /\ j \in 1..Len(s)
    BY <1>1
  <2>2. t[i] = s[i] /\ t[j] = s[j]
    BY <1>1
  <2> QED
    BY <1>2, <2>1, <2>2 DEF Distinct
<1>3. Distinct(t)
  BY <1>2 DEF Distinct
<1> QED
  BY <1>3 DEF t

(* The position rebuild_index takes a location from.                       *)
Last(s, e) ==
    CHOOSE i \in 1..Len(s) :
       /\ s[i].id = e
       /\ \A j \in 1..Len(s) : s[j].id = e => j <= i

(* With distinct ids it is the only position of the id.                    *)
LEMMA LastOf ==
    ASSUME NEW s \in Seq(Record), Distinct(s), NEW i \in 1..Len(s)
    PROVE  Last(s, s[i].id) = i
<1> DEFINE P(k) == /\ s[k].id = s[i].id
                   /\ \A j \in 1..Len(s) : s[j].id = s[i].id => j <= k
<1>1. P(i)
  BY DEF Distinct
<1>2. \A k \in 1..Len(s) : P(k) => k = i
  BY DEF Distinct
<1> QED
  BY <1>1, <1>2 DEF Last

(* The location of an indexed id.                                          *)
LEMMA RebuildLoc ==
    ASSUME NEW s \in Seq(Record), Distinct(s), NEW len, NEW i \in 1..Len(s)
    PROVE  rebuild_index(s, len).loc[s[i].id] =
             [offset |-> s[i].offset, length |-> Size[s[i].id]]
<1>1. s[i].id \in Ids(s)
  BY DEF Ids
<1>2. rebuild_index(s, len).loc[s[i].id] =
        [offset |-> s[Last(s, s[i].id)].offset, length |-> Size[s[i].id]]
  BY <1>1 DEF rebuild_index, Last
<1> QED
  BY <1>2, LastOf

(* rebuild_index yields a well-formed index.                               *)
LEMMA RebuildType ==
    ASSUME NEW s \in Seq(Record), Distinct(s), NEW len \in Nat
    PROVE  IndexType(rebuild_index(s, len))
<1>1. Ids(s) \subseteq Envelope
  BY RecordType DEF Ids
<1>2. DOMAIN rebuild_index(s, len).loc = Ids(s)
  BY DEF rebuild_index
<1>3. ASSUME NEW e \in Ids(s)
      PROVE  rebuild_index(s, len).loc[e] \in [offset : Nat, length : Nat]
  <2>1. PICK i \in 1..Len(s) : s[i].id = e
    BY <1>3 DEF Ids
  <2>2. s[i].offset \in Nat /\ Size[s[i].id] \in Nat
    BY RecordType
  <2>3. rebuild_index(s, len).loc[s[i].id] =
          [offset |-> s[i].offset, length |-> Size[s[i].id]]
    BY RebuildLoc
  <2> QED
    BY <2>1, <2>2, <2>3
<1>4. rebuild_index(s, len).chunks \in [Bucket -> SUBSET Envelope]
  BY <1>1 DEF rebuild_index
<1>5. /\ rebuild_index(s, len).count \in Nat
      /\ rebuild_index(s, len).logLen \in Nat
      /\ rebuild_index(s, len).schema \in BOOLEAN
      /\ DOMAIN rebuild_index(s, len) = {"loc", "chunks", "count", "logLen", "schema"}
  BY DEF rebuild_index
<1> QED
  BY <1>1, <1>2, <1>3, <1>4, <1>5 DEF IndexType

(* The ids of the first k records, and the next one.                       *)
LEMMA PrefixIds ==
    ASSUME NEW s \in Seq(Record), NEW k \in 1..Len(s)
    PROVE  Ids(SubSeq(s, 1, k)) = Ids(SubSeq(s, 1, k - 1)) \cup {s[k].id}
<1> DEFINE a == SubSeq(s, 1, k)
           b == SubSeq(s, 1, k - 1)
<1>1. /\ Len(a) = k /\ \A i \in 1..k : a[i] = s[i]
      /\ Len(b) = k - 1 /\ \A i \in 1..(k - 1) : b[i] = s[i]
  OBVIOUS
<1>2. 1..k = 1..(k - 1) \cup {k}
  OBVIOUS
<1> HIDE DEF a, b
<1>3. Ids(a) = {s[i].id : i \in 1..k}
  BY <1>1 DEF Ids
<1>4. Ids(b) = {s[i].id : i \in 1..(k - 1)}
  BY <1>1 DEF Ids
<1>5. Ids(a) = Ids(b) \cup {s[k].id}
  BY <1>2, <1>3, <1>4
<1> QED
  BY <1>5 DEF a, b

(* Inserting the k-th record into the index of those before it gives what  *)
(* a rebuild would.                                                        *)
LEMMA InsertIsRebuild ==
    ASSUME log \in Seq(Record), Distinct(log), NEW k \in 1..Len(log), NEW len,
           NEW l, index = rebuild_index(SubSeq(log, 1, k - 1), l)
    PROVE  index_insert(log[k].id, log[k].offset, len) =
             rebuild_index(SubSeq(log, 1, k), len)
<1> DEFINE a == SubSeq(log, 1, k)
           b == SubSeq(log, 1, k - 1)
           e == log[k].id
<1>1. /\ Len(a) = k /\ \A i \in 1..k : a[i] = log[i]
      /\ Len(b) = k - 1 /\ \A i \in 1..(k - 1) : b[i] = log[i]
      /\ a \in Seq(Record) /\ b \in Seq(Record)
  OBVIOUS
<1>2. Distinct(a) /\ Distinct(b)
  BY DistinctPrefix
<1>3. Ids(a) = Ids(b) \cup {e}
  BY PrefixIds
<1>4. e \in Envelope /\ BucketOf[e] \in Bucket
  BY RecordType
<1> HIDE DEF a, b
<1>5. index = rebuild_index(b, l)
  BY DEF b
<1>6. DOMAIN index.loc = Ids(b)
  BY <1>5 DEF rebuild_index
<1>7. ASSUME NEW x \in Ids(a)
      PROVE  rebuild_index(a, len).loc[x] =
               IF x = e THEN [offset |-> log[k].offset, length |-> Size[e]]
                        ELSE index.loc[x]
  <2>1. CASE x = e
    <3>1. k \in 1..Len(a) /\ a[k] = log[k]
      BY <1>1
    <3> QED
      BY <2>1, <3>1, <1>1, <1>2, RebuildLoc
  <2>2. CASE x # e
    <3>1. PICK i \in 1..(k - 1) : log[i].id = x
      BY <1>7, <1>3, <2>2, <1>1 DEF Ids
    <3>2. a[i].id = x /\ b[i].id = x /\ a[i] = b[i] /\ i \in 1..Len(a) /\ i \in 1..Len(b)
      BY <3>1, <1>1
    <3>3. rebuild_index(a, len).loc[a[i].id] =
            [offset |-> a[i].offset, length |-> Size[a[i].id]]
      <4>1. a \in Seq(Record) /\ i \in 1..Len(a)
        BY <3>2, <1>1
      <4> QED
        BY <4>1, <1>2, RebuildLoc
    <3>4. rebuild_index(b, l).loc[b[i].id] =
            [offset |-> b[i].offset, length |-> Size[b[i].id]]
      <4>1. b \in Seq(Record) /\ i \in 1..Len(b)
        BY <3>2, <1>1
      <4> QED
        BY <4>1, <1>2, RebuildLoc
    <3> QED
      BY <2>2, <3>2, <3>3, <3>4, <1>5
  <2> QED
    BY <2>1, <2>2
<1>8. rebuild_index(a, len).loc =
        [x \in DOMAIN index.loc \cup {e} |->
           IF x = e THEN [offset |-> log[k].offset, length |-> Size[e]]
                    ELSE index.loc[x]]
  <2>1. rebuild_index(a, len).loc = [x \in Ids(a) |-> rebuild_index(a, len).loc[x]]
    BY DEF rebuild_index
  <2> QED
    BY <2>1, <1>3, <1>6, <1>7
<1>9. rebuild_index(a, len).chunks =
        [index.chunks EXCEPT ![BucketOf[e]] = @ \cup {e}]
  <2>1. index.chunks = [c \in Bucket |-> {x \in Ids(b) : BucketOf[x] = c}]
    BY <1>5 DEF rebuild_index
  <2>2. rebuild_index(a, len).chunks = [c \in Bucket |-> {x \in Ids(a) : BucketOf[x] = c}]
    BY DEF rebuild_index
  <2> HIDE DEF e
  <2>3. ASSUME NEW c \in Bucket
        PROVE  {x \in Ids(a) : BucketOf[x] = c} =
                 IF c = BucketOf[e] THEN {x \in Ids(b) : BucketOf[x] = c} \cup {e}
                                    ELSE {x \in Ids(b) : BucketOf[x] = c}
    BY <1>3
  <2>4. rebuild_index(a, len).chunks =
          [c \in Bucket |-> IF c = BucketOf[e] THEN index.chunks[c] \cup {e}
                                               ELSE index.chunks[c]]
    BY <2>1, <2>2, <2>3
  <2>5. DOMAIN index.chunks = Bucket
    BY <2>1
  <2> QED
    BY <2>4, <2>5, <1>4
<1>10. rebuild_index(a, len).count = index.count + 1
  BY <1>1, <1>5 DEF rebuild_index
<1>11. /\ rebuild_index(a, len).logLen = len
       /\ rebuild_index(a, len).schema = TRUE
  BY DEF rebuild_index
<1>12. rebuild_index(a, len) =
         [loc    |-> rebuild_index(a, len).loc,
          chunks |-> rebuild_index(a, len).chunks,
          count  |-> rebuild_index(a, len).count,
          logLen |-> rebuild_index(a, len).logLen,
          schema |-> rebuild_index(a, len).schema]
  BY DEF rebuild_index
<1>13. index_insert(e, log[k].offset, len) = rebuild_index(a, len)
  BY <1>8, <1>9, <1>10, <1>11, <1>12 DEF index_insert
<1> QED
  BY <1>13 DEF a

-----------------------------------------------------------------------------
(* Control: what the lock and the program counters keep.                   *)

(* An operation that ends releases the lock if it had it.                  *)
LEMMA FinishControl ==
    ASSUME ControlInv, NEW p \in Process, pc[p] # "idle", Finish(p)
    PROVE  ControlInv' /\ pc' = [pc EXCEPT ![p] = "idle"]
<1> USE DEF ControlInv, Finish, Goto
<1>1. Idle \in Op
  BY DEF Op
<1>2. lock' \in Process \cup {NoProcess} /\ op' \in [Process -> Op]
  BY <1>1
<1>3. pc' \in [Process -> Holds \cup {"idle", "lock"}]
  OBVIOUS
<1>4. LockInv'
  BY ConstantsOK DEF LockInv, Holds
<1>5. OpInv'
  BY DEF OpInv
<1> QED
  BY <1>2, <1>3, <1>4, <1>5

(* A step from one place under the lock to another.                        *)
LEMMA GotoControl ==
    ASSUME ControlInv, NEW p \in Process, NEW l \in Holds,
           Goto(p, l), pc[p] \in Holds, UNCHANGED <<lock, op>>,
           l \in {"authorize", "write", "sync", "insert"} => op[p].kind = "append"
    PROVE  ControlInv'
<1> USE DEF ControlInv, Goto
<1>1. LockInv'
  BY DEF LockInv
<1>2. OpInv'
  BY DEF OpInv
<1> QED
  BY <1>1, <1>2

(* While one process holds the lock no other is under it.                  *)
LEMMA Alone ==
    ASSUME ControlInv, NEW p \in Process, pc[p] \in Holds, NEW q \in Process, q # p
    PROVE  lock = p /\ pc[q] \notin Holds
  BY DEF ControlInv, LockInv

(* An append carries an envelope.                                          *)
LEMMA AppendEnv ==
    ASSUME NEW o \in Op, o.kind = "append"
    PROVE  o.env \in Envelope
<1>1. CASE o \in [kind : {"append"}, env : Envelope]
  BY <1>1
<1>2. CASE o \notin [kind : {"append"}, env : Envelope]
  BY <1>2 DEF Op, Query, Idle
<1> QED
  BY <1>1, <1>2

-----------------------------------------------------------------------------
(* Data: what the file and the index keep.                                 *)

LEMMA DataFrame ==
    ASSUME DataInv, UNCHANGED <<log, eof, synced, index, kept>>
    PROVE  DataInv'
  BY DEF DataInv, IndexType, FileInv, NoDuplicateIds, IndexInv, KeptInv,
         IndexOf, PrefixEnd

LEMMA WriteFrame ==
    ASSUME WriteInv, UNCHANGED <<log, eof, synced, index>>, NEW p \in Process,
           \A q \in Process \ {p} : pc'[q] = pc[q] /\ op'[q] = op[q],
           pc'[p] \notin {"write", "read", "sync", "insert"}
    PROVE  WriteInv'
  BY DEF WriteInv, IndexOf, PrefixEnd, Scannable

(* The index of the first k records depends on nothing else.               *)
LEMMA IndexOfPrefix ==
    ASSUME log \in Seq(Record), log' \in Seq(Record),
           NEW k \in 0..Len(log), k <= Len(log'),
           \A i \in 1..k : log'[i] = log[i]
    PROVE  IndexOf(k)' = IndexOf(k)
<1>1. SubSeq(log', 1, k) = SubSeq(log, 1, k)
  OBVIOUS
<1>2. PrefixEnd(k)' = PrefixEnd(k)
  BY DEF PrefixEnd
<1> QED
  BY <1>1, <1>2 DEF IndexOf

(* A whole file has the index of all its records.                          *)
LEMMA IndexOfAll ==
    ASSUME log \in Seq(Record), Scannable
    PROVE  IndexOf(Len(log)) = rebuild_index(log, eof)
<1>1. SubSeq(log, 1, Len(log)) = log
  OBVIOUS
<1>2. PrefixEnd(Len(log)) = eof
  BY DEF PrefixEnd, Scannable, End
<1> QED
  BY <1>1, <1>2 DEF IndexOf

(* An index whose recorded length is that of the file is the file's.       *)
LEMMA FreshIsWhole ==
    ASSUME DataInv, index.schema, index.logLen = eof
    PROVE  Scannable /\ index = IndexOf(Len(log))
<1>1. PICK k \in 0..Len(log) : index = IndexOf(k)
  BY DEF DataInv, IndexInv, IndexType
<1>2. index.logLen = PrefixEnd(k)
  BY <1>1 DEF IndexOf, rebuild_index
<1>3. k = Len(log)
  <2>1. SUFFICES ASSUME k # Len(log)
                 PROVE  FALSE
    OBVIOUS
  <2>2. Len(log) \in 1..Len(log) /\ k < Len(log)
    BY <2>1 DEF DataInv
  <2>3. EndOf(log[Len(log)]) <= eof
    BY <2>2 DEF DataInv, FileInv
  <2>4. /\ EndOf(log[Len(log)]) = log[Len(log)].offset + Size[log[Len(log)].id]
        /\ log[Len(log)].offset \in Nat
        /\ Size[log[Len(log)].id] \in Nat /\ Size[log[Len(log)].id] >= 2
    BY <2>2, RecordType DEF DataInv
  <2>5. CASE k = 0
    BY <1>2, <2>3, <2>4, <2>5 DEF PrefixEnd
  <2>6. CASE k # 0
    <3>1. EndOf(log[k]) <= log[Len(log)].offset
      BY <2>2, <2>6 DEF DataInv, FileInv
    <3>2. EndOf(log[k]) = eof
      BY <1>2, <2>6 DEF PrefixEnd
    <3> QED
      BY <3>1, <3>2, <2>3, <2>4 DEF DataInv
  <2> QED
    BY <2>5, <2>6
<1>4. Scannable
  BY <1>2, <1>3 DEF PrefixEnd, Scannable, End, DataInv
<1> QED
  BY <1>1, <1>3, <1>4

LEMMA IndexOfType ==
    ASSUME DataInv, NEW k \in 0..Len(log)
    PROVE  IndexType(IndexOf(k)) /\ DOMAIN IndexOf(k).loc = Ids(SubSeq(log, 1, k))
<1>1. Distinct(log)
  BY DEF DataInv, NoDuplicateIds, Distinct
<1>2. SubSeq(log, 1, k) \in Seq(Record) /\ Distinct(SubSeq(log, 1, k))
  BY <1>1, Prefix, DistinctPrefix DEF DataInv
<1>3. PrefixEnd(k) \in Nat
  BY RecordType DEF PrefixEnd, DataInv
<1>4. IndexType(IndexOf(k))
  BY <1>2, <1>3, RebuildType DEF IndexOf
<1> QED
  BY <1>4 DEF IndexOf, rebuild_index

-----------------------------------------------------------------------------
(* One lemma per step that changes the file or the index.                  *)

LEMMA EnsureIndexStep ==
    ASSUME IInv, NEW p \in Process, ensure_index(p)
    PROVE  DataInv' /\ WriteInv'
<1> USE DEF IInv
<1>1. Scannable /\ index' = IndexOf(Len(log))
  <2>1. CASE IndexFresh
    BY <2>1, FreshIsWhole DEF IndexFresh, ensure_index
  <2>2. CASE ~IndexFresh
    BY <2>2, IndexOfAll DEF ensure_index, DataInv
  <2> QED
    BY <2>1, <2>2
<1>2. UNCHANGED <<log, eof, synced, kept>>
  BY DEF ensure_index, acks
<1>3. /\ Len(log) \in 0..Len(log)
      /\ \A k \in 0..Len(log) : IndexOf(k)' = IndexOf(k)
      /\ Scannable' = Scannable
  BY <1>2 DEF IndexOf, PrefixEnd, Scannable, DataInv
<1>4. IndexType(index')
  BY <1>1, <1>3, IndexOfType
<1>5. IndexInv'
  BY <1>1, <1>2, <1>3 DEF IndexInv
<1>6. DataInv'
  <2> USE <1>2 DEF DataInv
  <2>1. FileInv' /\ NoDuplicateIds' /\ KeptInv'
    BY DEF FileInv, NoDuplicateIds, KeptInv
  <2> QED
    BY <1>4, <1>5, <2>1 DEF IndexType
<1>7. WriteInv'
  <2>1. ASSUME NEW q \in Process, q # p
        PROVE  pc'[q] \notin Holds
    BY <2>1, Alone DEF ensure_index, Goto, Holds, ControlInv
  <2>2. pc'[p] \in {"write", "read"}
    BY DEF ensure_index, Goto, ControlInv
  <2> QED
    BY <1>1, <1>2, <1>3, <2>1, <2>2 DEF WriteInv, Holds
<1> QED
  BY <1>6, <1>7

LEMMA WriteAllStep ==
    ASSUME IInv, NEW p \in Process, write_all(p)
    PROVE  DataInv' /\ WriteInv'
<1> USE DEF IInv
<1> DEFINE r == [id |-> op[p].env, offset |-> eof]
<1>0. PICK n \in Nat : n = Len(log)
  BY DEF DataInv
<1>1. /\ op[p].env \in Envelope
      /\ Size[op[p].env] \in Nat /\ Size[op[p].env] >= 2
  <2>1. op[p] \in Op /\ op[p].kind = "append"
    BY DEF write_all, ControlInv, OpInv
  <2>2. op[p].env \in Envelope
    BY <2>1, AppendEnv
  <2> QED
    BY <2>2, ConstantsOK
<1>2. /\ log \in Seq(Record) /\ n = Len(log)
      /\ eof \in Nat /\ synced \in Nat /\ r \in Record
  BY <1>0, <1>1 DEF DataInv, Record
<1>3. /\ log' = Append(log, r)
      /\ eof' = eof + Size[op[p].env] /\ eof' \in Nat
      /\ UNCHANGED <<synced, index, op, kept>>
  BY <1>1, <1>2 DEF write_all, acks
<1>4. /\ log' \in Seq(Record) /\ Len(log') = n + 1
      /\ \A i \in 1..n : log'[i] = log[i]
      /\ log'[n + 1] = r
  BY <1>2, <1>3
<1>5. EndOf(r) = eof'
  BY <1>3 DEF EndOf
<1>6. Scannable /\ index = IndexOf(n)
  BY <1>0 DEF WriteInv, write_all
<1>7. FileInv'
  <2>1. \A i, j \in 1..n : i < j => EndOf(log[i]) <= log[j].offset
    BY <1>0 DEF DataInv, FileInv
  <2>2. \A i \in 1..n : EndOf(log[i]) <= eof /\ EndOf(log[i]) \in Nat
    BY RecordType, <1>2 DEF DataInv, FileInv
  <2>3. ASSUME NEW i \in 1..(n + 1), NEW j \in 1..(n + 1), i < j
        PROVE  EndOf(log'[i]) <= log'[j].offset
    <3>1. i \in 1..n
      BY <1>2, <2>3
    <3>2. CASE j = n + 1
      BY <3>1, <3>2, <1>4, <2>2
    <3>3. CASE j \in 1..n
      BY <3>1, <3>3, <1>4, <2>1, <2>3
    <3> QED
      BY <1>2, <3>2, <3>3
  <2>4. ASSUME NEW i \in 1..(n + 1)
        PROVE  EndOf(log'[i]) <= eof'
    <3>1. CASE i = n + 1
      BY <3>1, <1>4, <1>5, <1>3
    <3>2. CASE i \in 1..n
      BY <3>2, <1>1, <1>2, <1>3, <1>4, <2>2
    <3> QED
      BY <1>2, <3>1, <3>2
  <2>5. synced' <= eof'
    BY <1>1, <1>2, <1>3 DEF DataInv, FileInv
  <2> QED
    BY <1>4, <2>3, <2>4, <2>5 DEF FileInv
<1>8. NoDuplicateIds'
  <2>1. op[p].env \notin Ids(log)
    <3>1. DOMAIN index.loc = Ids(SubSeq(log, 1, n))
      BY <1>6, <1>2, IndexOfType
    <3>2. SubSeq(log, 1, n) = log
      BY <1>2
    <3> QED
      BY <3>1, <3>2 DEF write_all, index_contains
  <2>2. \A i \in 1..n : log[i].id # r.id
    BY <2>1, <1>2 DEF Ids
  <2>3. \A i, j \in 1..n : log[i].id = log[j].id => i = j
    BY <1>0 DEF DataInv, NoDuplicateIds
  <2>4. ASSUME NEW i \in 1..(n + 1), NEW j \in 1..(n + 1), log'[i].id = log'[j].id
        PROVE  i = j
    <3> HIDE DEF r
    <3>1. CASE i \in 1..n /\ j \in 1..n
      BY <3>1, <2>3, <2>4, <1>4
    <3>2. CASE i = n + 1 /\ j \in 1..n
      BY <3>2, <2>2, <2>4, <1>4
    <3>3. CASE i \in 1..n /\ j = n + 1
      BY <3>3, <2>2, <2>4, <1>4
    <3>4. CASE i = n + 1 /\ j = n + 1
      BY <3>4
    <3> QED
      BY <1>2, <3>1, <3>2, <3>3, <3>4
  <2> QED
    BY <1>4, <2>4 DEF NoDuplicateIds
<1>9. IndexOf(n)' = IndexOf(n)
  BY <1>2, <1>4, IndexOfPrefix
<1>10. IndexInv'
  BY <1>2, <1>3, <1>4, <1>6, <1>9 DEF IndexInv
<1>11. KeptInv'
  <2>1. ASSUME NEW e \in kept
        PROVE  \E i \in 1..Len(log') : log'[i].id = e /\ EndOf(log'[i]) <= synced'
    <3>1. PICK i \in 1..n : log[i].id = e /\ EndOf(log[i]) <= synced
      BY <1>0 DEF DataInv, KeptInv
    <3> QED
      BY <3>1, <1>2, <1>3, <1>4
  <2> QED
    BY <2>1, <1>3 DEF KeptInv
<1>12. DataInv'
  BY <1>2, <1>3, <1>4, <1>7, <1>8, <1>10, <1>11 DEF DataInv, IndexType
<1>13. WriteInv'
  <2>1. ASSUME NEW q \in Process, q # p
        PROVE  pc'[q] \notin Holds
    BY <2>1, Alone DEF write_all, Goto, Holds, ControlInv
  <2>2. pc'[p] = "sync"
    BY DEF write_all, Goto, ControlInv
  <2>3. /\ log' # << >>
        /\ log'[Len(log')].id = op'[p].env
        /\ EndOf(log'[Len(log')]) = eof'
        /\ index' = IndexOf(n)'
        /\ n = Len(log') - 1
    BY <1>2, <1>3, <1>4, <1>5, <1>6, <1>9
  <2>4. index' = IndexOf(Len(log) - 1)'
    BY <2>3
  <2> QED
    BY <2>1, <2>2, <2>3, <2>4 DEF WriteInv, Holds
<1> QED
  BY <1>12, <1>13

LEMMA TornWriteStep ==
    ASSUME IInv, NEW p \in Process, TornWrite(p)
    PROVE  DataInv' /\ WriteInv'
<1> USE DEF IInv
<1>0. PICK n \in Nat : n = Len(log)
  BY DEF DataInv
<1>1. op[p].env \in Envelope /\ Size[op[p].env] \in Nat
  <2>1. op[p] \in Op /\ op[p].kind = "append"
    BY DEF TornWrite, ControlInv, OpInv
  <2> QED
    BY <2>1, AppendEnv, ConstantsOK
<1>2. PICK k \in 1..(Size[op[p].env] - 1) : eof' = eof + k
  BY DEF TornWrite
<1>3. eof' \in Nat /\ eof' > eof
  BY <1>1, <1>2 DEF DataInv
<1>4. UNCHANGED <<log, synced, index, kept>>
  BY DEF TornWrite, acks
<1>5. index = IndexOf(n)
  BY <1>0 DEF WriteInv, TornWrite
<1>6. IndexOf(n)' = IndexOf(n)
  BY <1>4 DEF IndexOf, PrefixEnd
<1>7. IndexInv'
  BY <1>0, <1>4, <1>5, <1>6 DEF IndexInv
<1>8. FileInv'
  <2>1. \A i \in 1..Len(log) : EndOf(log[i]) \in Nat
    BY RecordType DEF DataInv
  <2> QED
    BY <2>1, <1>3, <1>4 DEF DataInv, FileInv
<1>9. NoDuplicateIds' /\ KeptInv'
  BY <1>4 DEF DataInv, NoDuplicateIds, KeptInv
<1>10. DataInv'
  BY <1>3, <1>4, <1>7, <1>8, <1>9 DEF DataInv, IndexType
<1>11. WriteInv'
  <2>1. ASSUME NEW q \in Process, q # p
        PROVE  pc'[q] \notin Holds
    BY <2>1, Alone DEF TornWrite, Finish, Goto, Holds, ControlInv
  <2>2. pc'[p] = "idle"
    BY DEF TornWrite, Finish, Goto, ControlInv
  <2> QED
    BY <2>1, <2>2 DEF WriteInv, Holds
<1> QED
  BY <1>10, <1>11

LEMMA SyncDataStep ==
    ASSUME IInv, NEW p \in Process, sync_data(p)
    PROVE  DataInv' /\ WriteInv'
<1> USE DEF IInv
<1>1. UNCHANGED <<log, eof, index, op, kept>> /\ synced' = eof
  BY DEF sync_data, acks
<1>2. \A k \in Nat : IndexOf(k)' = IndexOf(k)
  BY <1>1 DEF IndexOf, PrefixEnd
<1>3. FileInv' /\ NoDuplicateIds'
  BY <1>1 DEF DataInv, FileInv, NoDuplicateIds
<1>4. IndexInv'
  BY <1>1 DEF DataInv, IndexInv, IndexOf, PrefixEnd
<1>5. KeptInv'
  <2>1. \A i \in 1..Len(log) : EndOf(log[i]) <= eof
    BY DEF DataInv, FileInv
  <2> QED
    BY <1>1, <2>1 DEF DataInv, KeptInv
<1>6. DataInv'
  BY <1>1, <1>3, <1>4, <1>5 DEF DataInv, IndexType
<1>7. WriteInv'
  <2>1. ASSUME NEW q \in Process, q # p
        PROVE  pc'[q] \notin Holds
    BY <2>1, Alone DEF sync_data, Goto, Holds, ControlInv
  <2>2. pc[p] = "sync" /\ pc'[p] = "insert"
    BY DEF sync_data, Goto, ControlInv
  <2>3. /\ log # << >>
        /\ log[Len(log)].id = op[p].env
        /\ EndOf(log[Len(log)]) = eof
        /\ index = IndexOf(Len(log) - 1)
    BY <2>2 DEF WriteInv
  <2>4. IndexOf(Len(log) - 1)' = IndexOf(Len(log) - 1)
    BY <1>1 DEF IndexOf, PrefixEnd
  <2> QED
    BY <1>1, <2>1, <2>2, <2>3, <2>4 DEF WriteInv, Holds
<1> QED
  BY <1>6, <1>7

LEMMA AppendOkStep ==
    ASSUME IInv, NEW p \in Process, AppendOk(p)
    PROVE  DataInv' /\ WriteInv'
<1> USE DEF IInv
<1>0. PICK n \in Nat : n = Len(log)
  BY DEF DataInv
<1>1. /\ log # << >>
      /\ log[n].id = op[p].env
      /\ EndOf(log[n]) = eof
      /\ index = IndexOf(n - 1)
      /\ synced = eof
  BY <1>0 DEF WriteInv, AppendOk
<1>2. n \in 1..Len(log)
  BY <1>0, <1>1 DEF DataInv
<1>3. /\ log[n].offset = eof - Size[op[p].env]
      /\ op[p].env \in Envelope
  BY <1>1, <1>2, RecordType DEF DataInv
<1>4. /\ UNCHANGED <<log, eof, synced>>
      /\ index' = index_insert(log[n].id, log[n].offset, eof)
      /\ kept' = kept \cup {log[n].id}
  BY <1>1, <1>3 DEF AppendOk
<1>5. index' = IndexOf(n)
  <2>1. index = rebuild_index(SubSeq(log, 1, n - 1), PrefixEnd(n - 1))
    BY <1>1 DEF IndexOf
  <2>2. index_insert(log[n].id, log[n].offset, eof) =
          rebuild_index(SubSeq(log, 1, n), eof)
    BY <2>1, <1>2, InsertIsRebuild DEF DataInv, NoDuplicateIds, Distinct
  <2>3. PrefixEnd(n) = eof
    BY <1>1, <1>2 DEF PrefixEnd
  <2> QED
    BY <1>4, <2>2, <2>3 DEF IndexOf
<1>6. IndexOf(n)' = IndexOf(n)
  BY <1>4 DEF IndexOf, PrefixEnd
<1>7. IndexType(index')
  BY <1>5, <1>2, IndexOfType
<1>8. IndexInv'
  BY <1>0, <1>2, <1>4, <1>5, <1>6 DEF IndexInv
<1>9. KeptInv'
  BY <1>1, <1>2, <1>4 DEF DataInv, KeptInv
<1>10. FileInv' /\ NoDuplicateIds'
  BY <1>4 DEF DataInv, FileInv, NoDuplicateIds
<1>11. kept' \in SUBSET Envelope
  BY <1>1, <1>3, <1>4 DEF DataInv
<1>12. DataInv'
  BY <1>4, <1>7, <1>8, <1>9, <1>10, <1>11 DEF DataInv, IndexType
<1>13. WriteInv'
  <2>1. ASSUME NEW q \in Process, q # p
        PROVE  pc'[q] \notin Holds
    BY <2>1, Alone DEF AppendOk, Finish, Goto, Holds, ControlInv
  <2>2. pc'[p] = "idle"
    BY DEF AppendOk, Finish, Goto, ControlInv
  <2> QED
    BY <2>1, <2>2 DEF WriteInv, Holds
<1> QED
  BY <1>12, <1>13

LEMMA PowerLossStep ==
    ASSUME IInv, PowerLoss
    PROVE  IInv'
<1> USE DEF IInv
<1>1. PICK n \in 0..Len(log) :
         /\ log' = SubSeq(log, 1, n)
         /\ n > 0 => EndOf(log[n]) <= eof'
         /\ n < Len(log) => EndOf(log[n + 1]) > eof'
  BY DEF PowerLoss
<1>2. /\ log' \in Seq(Record) /\ Len(log') = n
      /\ \A i \in 1..n : log'[i] = log[i]
  BY <1>1, Prefix DEF DataInv
<1>3. /\ eof \in Nat /\ synced \in Nat /\ synced <= eof
      /\ eof' \in synced..eof /\ eof' \in Nat /\ synced' = eof'
      /\ UNCHANGED <<index, kept, writers, dupOk>>
  BY DEF PowerLoss, acks, DataInv, FileInv
<1>4. /\ n \in Nat /\ Len(log) \in Nat /\ n <= Len(log)
      /\ \A i \in 1..Len(log) : /\ EndOf(log[i]) \in Nat
                               /\ log[i].offset \in Nat
                               /\ log[i].offset <= EndOf(log[i])
  BY RecordType DEF DataInv
<1>5. \A i, j \in 1..Len(log) : i < j => EndOf(log[i]) <= EndOf(log[j])
  <2>1. \A i, j \in 1..Len(log) : i < j => EndOf(log[i]) <= log[j].offset
    BY DEF DataInv, FileInv
  <2> QED
    BY <2>1, <1>4
<1>6. FileInv'
  <2>1. ASSUME NEW i \in 1..n
        PROVE  EndOf(log'[i]) <= eof'
    <3>1. n > 0 /\ n \in 1..Len(log) /\ i \in 1..Len(log) /\ EndOf(log[n]) <= eof'
      BY <1>1, <1>4
    <3>2. EndOf(log[i]) <= EndOf(log[n])
      BY <3>1, <1>4, <1>5
    <3> QED
      BY <3>1, <3>2, <1>2, <1>3, <1>4
  <2>2. ASSUME NEW i \in 1..n, NEW j \in 1..n, i < j
        PROVE  EndOf(log'[i]) <= log'[j].offset
    <3>1. i \in 1..Len(log) /\ j \in 1..Len(log)
      BY <1>4
    <3>2. EndOf(log[i]) <= log[j].offset
      BY <2>2, <3>1 DEF DataInv, FileInv
    <3> QED
      BY <3>2, <1>2
  <2> QED
    BY <2>1, <2>2, <1>2, <1>3 DEF FileInv
<1>7. NoDuplicateIds'
  BY <1>2, <1>4 DEF DataInv, NoDuplicateIds
<1>8. IndexInv'
  <2>1. SUFFICES ASSUME index.schema
                 PROVE  \/ index.logLen > eof'
                        \/ \E k \in 0..n : index = IndexOf(k)'
    BY <1>2, <1>3 DEF IndexInv
  <2>2. CASE index.logLen > eof
    BY <2>2, <1>3 DEF DataInv, IndexType
  <2>3. ASSUME NEW k \in 0..Len(log), index = IndexOf(k)
        PROVE  \/ index.logLen > eof'
               \/ \E j \in 0..n : index = IndexOf(j)'
    <3>1. CASE k <= n
      <4>1. IndexOf(k)' = IndexOf(k)
        BY <3>1, <1>2, <1>4, IndexOfPrefix DEF DataInv
      <4> QED
        BY <4>1, <2>3, <3>1
    <3>2. CASE k > n
      <4>1. n + 1 \in 1..Len(log) /\ k \in 1..Len(log) /\ EndOf(log[n + 1]) > eof'
        BY <3>2, <1>1, <1>4
      <4>2. EndOf(log[n + 1]) <= EndOf(log[k])
        BY <4>1, <3>2, <1>4, <1>5
      <4>3. index.logLen = EndOf(log[k])
        BY <2>3, <4>1 DEF IndexOf, rebuild_index, PrefixEnd
      <4> QED
        BY <4>1, <4>2, <4>3, <1>3, <1>4
    <3> QED
      BY <3>1, <3>2, <1>4
  <2> QED
    BY <2>1, <2>2, <2>3 DEF DataInv, IndexInv
<1>9. KeptInv'
  <2>1. ASSUME NEW e \in kept
        PROVE  \E i \in 1..n : log'[i].id = e /\ EndOf(log'[i]) <= synced'
    <3>1. PICK i \in 1..Len(log) : log[i].id = e /\ EndOf(log[i]) <= synced
      BY DEF DataInv, KeptInv
    <3>2. i <= n
      <4>1. SUFFICES ASSUME n < i PROVE FALSE
        BY <1>4
      <4>2. n + 1 \in 1..Len(log) /\ EndOf(log[n + 1]) > eof'
        BY <4>1, <1>1, <1>4
      <4>3. EndOf(log[n + 1]) <= EndOf(log[i])
        BY <4>1, <4>2, <1>4, <1>5
      <4> QED
        BY <3>1, <4>2, <4>3, <1>3, <1>4
    <3> QED
      BY <3>1, <3>2, <1>2, <1>3, <1>4
  <2> QED
    BY <2>1, <1>2, <1>3 DEF KeptInv
<1>10. DataInv'
  BY <1>2, <1>3, <1>6, <1>7, <1>8, <1>9 DEF DataInv, IndexType
<1>11. ControlInv'
  BY ConstantsOK DEF PowerLoss, ControlInv, LockInv, OpInv, Op, Idle, Holds
<1>12. WriteInv'
  BY DEF PowerLoss, WriteInv
<1> QED
  BY <1>3, <1>10, <1>11, <1>12

-----------------------------------------------------------------------------
(* Every step keeps the invariant.                                         *)

LEMMA InitIInv == Init => IInv
<1> SUFFICES ASSUME Init PROVE IInv
  OBVIOUS
<1>1. IndexType(index) /\ ~index.schema
  BY DEF Init, NoIndex, IndexType
<1>2. ControlInv
  BY ConstantsOK DEF Init, ControlInv, LockInv, OpInv, Op, Holds
<1>3. DataInv
  BY <1>1 DEF Init, DataInv, FileInv, NoDuplicateIds, IndexInv, KeptInv
<1>4. WriteInv
  BY DEF Init, WriteInv
<1> QED
  BY <1>2, <1>3, <1>4 DEF Init, IInv

(* A step of p that leaves file, index and kept alone, and ends p's        *)
(* operation.                                                              *)
LEMMA EndStep ==
    ASSUME IInv, NEW p \in Process, pc[p] # "idle", Finish(p),
           UNCHANGED <<log, eof, synced, index, kept>>,
           writers' \in SUBSET Identity, dupOk' \in SUBSET Envelope
    PROVE  IInv'
<1>1. ControlInv' /\ pc' = [pc EXCEPT ![p] = "idle"]
  BY FinishControl DEF IInv
<1>2. DataInv'
  BY DataFrame DEF IInv
<1>3. /\ \A q \in Process \ {p} : pc'[q] = pc[q] /\ op'[q] = op[q]
      /\ pc'[p] = "idle"
  BY <1>1 DEF IInv, ControlInv, Finish
<1>4. WriteInv'
  BY <1>3, WriteFrame DEF IInv
<1> QED
  BY <1>1, <1>2, <1>4 DEF IInv

LEMMA NextIInv == IInv /\ [Next]_vars => IInv'
<1> SUFFICES ASSUME IInv, [Next]_vars
             PROVE  IInv'
  OBVIOUS
<1> USE DEF disk, acks
<1>0. /\ writers \in SUBSET Identity /\ dupOk \in SUBSET Envelope
      /\ ControlInv /\ DataInv /\ WriteInv
  BY DEF IInv
<1>1. ASSUME NEW p \in Process, Start(p)
      PROVE  IInv'
  <2>1. pc[p] = "idle" /\ pc' = [pc EXCEPT ![p] = "lock"] /\ lock' = lock
    BY <1>1 DEF Start, Goto
  <2>2. PICK o \in Op : op' = [op EXCEPT ![p] = o]
    BY <1>1 DEF Start
  <2>3. ControlInv'
    BY <2>1, <2>2, <1>0 DEF ControlInv, LockInv, OpInv, Holds
  <2>4. DataInv'
    BY <1>0, <1>1, DataFrame DEF Start
  <2>5. /\ \A q \in Process \ {p} : pc'[q] = pc[q] /\ op'[q] = op[q]
        /\ pc'[p] = "lock"
    BY <2>1, <2>2, <1>0 DEF ControlInv
  <2>6. WriteInv'
    BY <1>0, <1>1, <2>5, WriteFrame DEF Start
  <2> QED
    BY <1>0, <1>1, <2>3, <2>4, <2>6 DEF IInv, Start
<1>2. ASSUME NEW p \in Process, lock_exclusive(p)
      PROVE  IInv'
  <2>1. PICK l \in {"authorize", "policy", "index"} :
           /\ pc' = [pc EXCEPT ![p] = l]
           /\ l = "authorize" => op[p].kind = "append"
    BY <1>2 DEF lock_exclusive, Goto
  <2>2. pc[p] = "lock" /\ lock = NoProcess /\ lock' = p /\ op' = op
    BY <1>2 DEF lock_exclusive
  <2>3. \A q \in Process : pc[q] \notin Holds
    BY <2>2, <1>0, ConstantsOK DEF ControlInv, LockInv
  <2>4. ControlInv'
    <3>1. LockInv'
      BY <2>1, <2>2, <2>3, <1>0 DEF ControlInv, LockInv, Holds
    <3>2. OpInv'
      BY <2>1, <2>2, <2>3, <1>0 DEF ControlInv, OpInv, Holds
    <3> QED
      BY <2>1, <2>2, <3>1, <3>2, <1>0 DEF ControlInv, Holds
  <2>5. DataInv'
    BY <1>0, <1>2, DataFrame DEF lock_exclusive
  <2>6. WriteInv'
    BY <2>1, <2>2, <2>3, <1>0 DEF WriteInv, Holds, ControlInv
  <2> QED
    BY <1>0, <1>2, <2>4, <2>5, <2>6 DEF IInv, lock_exclusive
<1>3. ASSUME NEW p \in Process, ChangePolicy(p)
      PROVE  IInv'
  BY <1>0, <1>3, EndStep DEF ChangePolicy
<1>4. ASSUME NEW p \in Process, authorize_append(p)
      PROVE  IInv'
  <2>1. /\ pc[p] \in Holds /\ "index" \in Holds /\ Goto(p, "index")
        /\ UNCHANGED <<lock, op, log, eof, synced, index, kept, writers, dupOk>>
    BY <1>4 DEF authorize_append, Holds
  <2>2. ControlInv'
    BY <1>0, <2>1, GotoControl
  <2>3. DataInv'
    BY <1>0, <2>1, DataFrame
  <2>4. WriteInv'
    BY <1>0, <2>1, WriteFrame DEF Goto, ControlInv
  <2> QED
    BY <1>0, <2>1, <2>2, <2>3, <2>4 DEF IInv
<1>5. ASSUME NEW p \in Process, RefuseAppend(p)
      PROVE  IInv'
  BY <1>0, <1>5, EndStep DEF RefuseAppend
<1>6. ASSUME NEW p \in Process, ensure_index(p)
      PROVE  IInv'
  <2>1. PICK l \in {"write", "read"} :
           Goto(p, l) /\ (l = "write" => op[p].kind = "append")
    BY <1>6 DEF ensure_index
  <2>2. ControlInv'
    BY <1>0, <1>6, <2>1, GotoControl DEF ensure_index, Holds
  <2> QED
    BY <1>0, <1>6, <2>2, EnsureIndexStep DEF IInv, ensure_index
<1>7. ASSUME NEW p \in Process, ScanFails(p)
      PROVE  IInv'
  BY <1>0, <1>7, EndStep DEF ScanFails
<1>8. ASSUME NEW p \in Process, SkipDuplicate(p)
      PROVE  IInv'
  <2>1. op[p] \in Op /\ op[p].kind = "append"
    BY <1>0, <1>8 DEF SkipDuplicate, ControlInv, OpInv
  <2>2. op[p].env \in Envelope
    BY <2>1, AppendEnv
  <2> QED
    BY <1>0, <1>8, <2>2, EndStep DEF SkipDuplicate
<1>9. ASSUME NEW p \in Process, write_all(p)
      PROVE  IInv'
  <2>1. ControlInv'
    BY <1>0, <1>9, GotoControl DEF write_all, Holds, ControlInv, OpInv
  <2> QED
    BY <1>0, <1>9, <2>1, WriteAllStep DEF IInv, write_all
<1>10. ASSUME NEW p \in Process, TornWrite(p)
       PROVE  IInv'
  <2>1. ControlInv'
    BY <1>0, <1>10, FinishControl DEF TornWrite
  <2> QED
    BY <1>0, <1>10, <2>1, TornWriteStep DEF IInv, TornWrite
<1>11. ASSUME NEW p \in Process, sync_data(p)
       PROVE  IInv'
  <2>1. ControlInv'
    BY <1>0, <1>11, GotoControl DEF sync_data, Holds, ControlInv, OpInv
  <2> QED
    BY <1>0, <1>11, <2>1, SyncDataStep DEF IInv, sync_data
<1>12. ASSUME NEW p \in Process, AppendOk(p)
       PROVE  IInv'
  <2>1. ControlInv'
    BY <1>0, <1>12, FinishControl DEF AppendOk
  <2> QED
    BY <1>0, <1>12, <2>1, AppendOkStep DEF IInv, AppendOk
<1>13. ASSUME NEW p \in Process, ReadTailOk(p) \/ read_message_by_id(p) \/ chunk_summaries(p)
       PROVE  IInv'
  <2>1. pc[p] = "read" /\ Finish(p) /\ UNCHANGED <<log, eof, synced, index, kept, writers, dupOk>>
    BY <1>13 DEF ReadTailOk, read_message_by_id, chunk_summaries
  <2> QED
    BY <1>0, <2>1, EndStep
<1>14. ASSUME NEW p \in Process, Abort(p)
       PROVE  IInv'
  BY <1>0, <1>14, EndStep DEF Abort
<1>15. CASE PowerLoss
  BY <1>15, PowerLossStep
<1>16. CASE LoseIndex
  <2>1. /\ lock = NoProcess /\ index' = NoIndex
        /\ UNCHANGED <<log, eof, synced, lock, pc, op, writers, kept, dupOk>>
    BY <1>16 DEF LoseIndex
  <2>2. \A q \in Process : pc[q] \notin Holds
    BY <2>1, <1>0, ConstantsOK DEF ControlInv, LockInv
  <2>3. ControlInv'
    BY <1>0, <2>1 DEF ControlInv, LockInv, OpInv
  <2>4. IndexType(index') /\ ~index'.schema
    BY <2>1 DEF NoIndex, IndexType
  <2>5. DataInv'
    BY <1>0, <2>1, <2>4 DEF DataInv, FileInv, NoDuplicateIds, IndexInv, KeptInv, IndexType
  <2>6. WriteInv'
    BY <2>1, <2>2 DEF WriteInv, Holds
  <2> QED
    BY <1>0, <2>1, <2>3, <2>5, <2>6 DEF IInv
<1>17. CASE UNCHANGED vars
  <2>1. /\ UNCHANGED <<log, eof, synced, index, kept>>
        /\ UNCHANGED <<lock, pc, op, writers, dupOk>>
    BY <1>17 DEF vars
  <2>2. ControlInv'
    BY <1>0, <2>1 DEF ControlInv, LockInv, OpInv
  <2>3. DataInv'
    BY <1>0, <2>1, DataFrame
  <2>4. WriteInv'
    BY <1>0, <2>1 DEF WriteInv, IndexOf, PrefixEnd, Scannable
  <2> QED
    BY <1>0, <2>1, <2>2, <2>3, <2>4 DEF IInv
<1> QED
  BY <1>1, <1>2, <1>3, <1>4, <1>5, <1>6, <1>7, <1>8, <1>9, <1>10, <1>11, <1>12,
     <1>13, <1>14, <1>15, <1>16, <1>17 DEF Next, Step

THEOREM Invariance == Spec => []IInv
<1>1. Init => IInv
  BY InitIInv
<1>2. IInv /\ [Next]_vars => IInv'
  BY NextIInv
<1> QED
  BY <1>1, <1>2, PTL DEF Spec

-----------------------------------------------------------------------------
(* The properties.                                                         *)

(* The variables keep their types (every field of the file, the index and  *)
(* the control state of store.rs).                                         *)
THEOREM TypeCorrect == Spec => []TypeOK
<1>1. IInv => TypeOK
  BY DEF IInv, ControlInv, DataInv, IndexType, TypeOK, Holds
<1> QED
  BY <1>1, Invariance, PTL

(* append_message never writes an id twice, whatever fails in between.     *)
THEOREM NoDuplicates == Spec => []NoDuplicateIds
<1>1. IInv => NoDuplicateIds
  BY DEF IInv, DataInv
<1> QED
  BY <1>1, Invariance, PTL

(* Comparing the recorded length with the length of the file is enough to  *)
(* know that the index is the file's (ensure_index).                       *)
THEOREM LengthCheckSuffices == Spec => []IndexTrusted
<1>1. IInv => IndexTrusted
  <2> SUFFICES ASSUME IInv, index.schema, index.logLen = eof
               PROVE  Scannable /\ index = rebuild_index(log, eof)
    BY DEF IndexTrusted
  <2>1. Scannable /\ index = IndexOf(Len(log))
    BY FreshIsWhole DEF IInv
  <2> QED
    BY <2>1, IndexOfAll DEF IInv, DataInv
<1> QED
  BY <1>1, Invariance, PTL

(* What append_message wrote and answered Ok to survives every kill, error *)
(* and power loss.                                                         *)
THEOREM KeptIsDurable == Spec => []KeptSurvives
<1>1. IInv => KeptSurvives
  BY DEF IInv, DataInv, KeptInv, KeptSurvives, Ids
<1> QED
  BY <1>1, Invariance, PTL

-----------------------------------------------------------------------------
(* An author who was accepted is still accepted when the record is written. *)

Appending(p) == pc[p] = "write" \/ (pc[p] = "index" /\ op[p].kind = "append")

AuthInv == \A p \in Process : Appending(p) => From[op[p].env] \in writers

(* A step that brings no process into the part of append_message that      *)
(* follows authorize_append.                                               *)
LEMMA AuthFrame ==
    ASSUME AuthInv, writers' = writers,
           \A q \in Process : Appending(q)' => Appending(q) /\ op'[q].env = op[q].env
    PROVE  AuthInv'
  BY DEF AuthInv

(* A step of p alone, after which p is in no such place.                   *)
LEMMA AuthLeave ==
    ASSUME ControlInv, AuthInv, NEW p \in Process, writers' = writers,
           NEW l, pc' = [pc EXCEPT ![p] = l],
           \A q \in Process \ {p} : op'[q] = op[q],
           l \notin {"write", "index"} \/ (l = "index" /\ op'[p].kind # "append")
    PROVE  AuthInv'
<1>1. ASSUME NEW q \in Process, Appending(q)'
      PROVE  Appending(q) /\ op'[q].env = op[q].env
  <2>1. q # p
    BY <1>1 DEF Appending, ControlInv
  <2>2. pc'[q] = pc[q] /\ op'[q] = op[q]
    BY <2>1 DEF ControlInv
  <2> QED
    BY <1>1, <2>2 DEF Appending
<1> QED
  BY <1>1, AuthFrame

LEMMA AuthFinish ==
    ASSUME ControlInv, AuthInv, NEW p \in Process, writers' = writers, Finish(p)
    PROVE  AuthInv'
<1>1. pc' = [pc EXCEPT ![p] = "idle"] /\ \A q \in Process \ {p} : op'[q] = op[q]
  BY DEF Finish, Goto, ControlInv
<1> QED
  BY <1>1, AuthLeave

LEMMA NextAuthInv == IInv /\ AuthInv /\ [Next]_vars => AuthInv'
<1> SUFFICES ASSUME ControlInv, AuthInv, [Next]_vars
             PROVE  AuthInv'
  BY DEF IInv
<1> USE DEF disk, acks
<1>1. ASSUME NEW p \in Process, Start(p)
      PROVE  AuthInv'
  <2>1. PICK o \in Op : op' = [op EXCEPT ![p] = o]
    BY <1>1 DEF Start
  <2>2. /\ pc' = [pc EXCEPT ![p] = "lock"] /\ writers' = writers
        /\ \A q \in Process \ {p} : op'[q] = op[q]
    BY <1>1, <2>1 DEF Start, Goto, ControlInv
  <2> QED
    BY <2>2, AuthLeave
<1>2. ASSUME NEW p \in Process, lock_exclusive(p)
      PROVE  AuthInv'
  <2>1. PICK l \in {"authorize", "policy", "index"} :
           /\ pc' = [pc EXCEPT ![p] = l]
           /\ l = "index" => op[p].kind # "append"
    BY <1>2 DEF lock_exclusive, Goto
  <2>2. writers' = writers /\ op' = op
    BY <1>2 DEF lock_exclusive
  <2> QED
    BY <2>1, <2>2, AuthLeave
<1>3. ASSUME NEW p \in Process, ChangePolicy(p)
      PROVE  AuthInv'
  <2>1. pc[p] = "policy" /\ pc' = [pc EXCEPT ![p] = "idle"]
    BY <1>3 DEF ChangePolicy, Finish, Goto
  <2>2. ASSUME NEW q \in Process
        PROVE  ~Appending(q)'
    <3>1. CASE q = p
      BY <2>1, <3>1 DEF Appending, ControlInv
    <3>2. CASE q # p
      <4>1. pc[q] \notin Holds
        BY <2>1, <3>2, Alone DEF Holds
      <4>2. pc'[q] = pc[q]
        BY <2>1, <3>2 DEF ControlInv
      <4> QED
        BY <4>1, <4>2 DEF Appending, Holds
    <3> QED
      BY <3>1, <3>2
  <2> QED
    BY <2>2 DEF AuthInv
<1>4. ASSUME NEW p \in Process, authorize_append(p)
      PROVE  AuthInv'
  <2>1. /\ From[op[p].env] \in writers
        /\ pc' = [pc EXCEPT ![p] = "index"] /\ op' = op /\ writers' = writers
    BY <1>4 DEF authorize_append, Goto
  <2>2. ASSUME NEW q \in Process, Appending(q)'
        PROVE  From[op'[q].env] \in writers'
    <3>1. CASE q = p
      BY <2>1, <3>1
    <3>2. CASE q # p
      <4>1. Appending(q)
        BY <2>1, <2>2, <3>2 DEF Appending, ControlInv
      <4> QED
        BY <4>1, <2>1 DEF AuthInv
    <3> QED
      BY <3>1, <3>2
  <2> QED
    BY <2>2 DEF AuthInv
<1>5. ASSUME NEW p \in Process, ensure_index(p)
      PROVE  AuthInv'
  <2>1. PICK l \in {"write", "read"} :
           /\ pc' = [pc EXCEPT ![p] = l]
           /\ l = "write" => op[p].kind = "append"
    BY <1>5 DEF ensure_index, Goto
  <2>2. pc[p] = "index" /\ op' = op /\ writers' = writers
    BY <1>5 DEF ensure_index
  <2>3. ASSUME NEW q \in Process, Appending(q)'
        PROVE  Appending(q)
    BY <2>1, <2>2, <2>3 DEF Appending, ControlInv
  <2> QED
    BY <2>2, <2>3, AuthFrame
<1>6. ASSUME NEW p \in Process,
             \/ RefuseAppend(p) \/ ScanFails(p) \/ SkipDuplicate(p) \/ TornWrite(p)
             \/ AppendOk(p) \/ ReadTailOk(p) \/ read_message_by_id(p)
             \/ chunk_summaries(p) \/ Abort(p)
      PROVE  AuthInv'
  <2>1. Finish(p) /\ writers' = writers
    BY <1>6 DEF RefuseAppend, ScanFails, SkipDuplicate, TornWrite, AppendOk,
                ReadTailOk, read_message_by_id, chunk_summaries, Abort
  <2> QED
    BY <2>1, AuthFinish
<1>7. ASSUME NEW p \in Process, write_all(p) \/ sync_data(p)
      PROVE  AuthInv'
  <2>1. PICK l \in {"sync", "insert"} : pc' = [pc EXCEPT ![p] = l]
    BY <1>7 DEF write_all, sync_data, Goto
  <2>2. op' = op /\ writers' = writers
    BY <1>7 DEF write_all, sync_data
  <2> QED
    BY <2>1, <2>2, AuthLeave
<1>8. CASE PowerLoss
  BY <1>8 DEF PowerLoss, AuthInv, Appending
<1>9. CASE LoseIndex
  BY <1>9, AuthFrame DEF LoseIndex, Appending
<1>10. CASE UNCHANGED vars
  BY <1>10, AuthFrame DEF vars, Appending
<1> QED
  BY <1>1, <1>2, <1>3, <1>4, <1>5, <1>6, <1>7, <1>8, <1>9, <1>10 DEF Next, Step

(* Only write_all brings an id into the log.                               *)
LEMMA NewIds ==
    ASSUME IInv, [Next]_vars, NEW e \in Ids(log') \ Ids(log)
    PROVE  \E p \in Process : write_all(p) /\ e = op[p].env
<1> USE DEF disk, acks
<1>0. log \in Seq(Record) /\ log' # log
  BY DEF IInv, DataInv
<1>1. CASE PowerLoss
  <2>1. PICK n \in 0..Len(log) : log' = SubSeq(log, 1, n)
    BY <1>1 DEF PowerLoss
  <2>2. Len(log') = n /\ \A i \in 1..n : log'[i] = log[i] /\ i \in 1..Len(log)
    BY <1>0, <2>1, Prefix
  <2>3. Ids(log') \subseteq Ids(log)
    BY <2>2 DEF Ids
  <2> QED
    BY <2>3
<1>2. CASE \E p \in Process : write_all(p)
  <2>1. PICK p \in Process : write_all(p)
    BY <1>2
  <2>2. log' = Append(log, [id |-> op[p].env, offset |-> eof])
    BY <2>1 DEF write_all
  <2>3. /\ Len(log') = Len(log) + 1 /\ log'[Len(log) + 1].id = op[p].env
        /\ \A i \in 1..Len(log) : log'[i] = log[i]
    BY <1>0, <2>2
  <2>4. PICK i \in 1..Len(log') : log'[i].id = e
    BY DEF Ids
  <2>5. i \notin 1..Len(log)
    BY <2>3, <2>4 DEF Ids
  <2>6. i = Len(log) + 1
    BY <1>0, <2>3, <2>5
  <2> QED
    BY <2>1, <2>3, <2>4, <2>6
<1>3. ASSUME ~PowerLoss, ~ \E p \in Process : write_all(p)
      PROVE  log' = log
  BY <1>3 DEF Next, Step, Start, lock_exclusive, ChangePolicy, authorize_append,
              RefuseAppend, ensure_index, ScanFails, SkipDuplicate, TornWrite,
              sync_data, AppendOk, ReadTailOk, read_message_by_id,
              chunk_summaries, Abort, LoseIndex, vars
<1> QED
  BY <1>0, <1>1, <1>2, <1>3

(* A record enters the log while its author may write: no policy change    *)
(* falls between authorize_append and write_all.                           *)
THEOREM AppendsAreAuthorized == Spec => AppendAuthorized
<1>1. Init => AuthInv
  BY DEF Init, AuthInv, Appending
<1>2. IInv /\ AuthInv /\ [Next]_vars => AuthInv'
  BY NextAuthInv
<1>3. IInv /\ AuthInv /\ [Next]_vars
        => [\A e \in Ids(log') \ Ids(log) : From[e] \in writers]_vars
  <2> SUFFICES ASSUME IInv, AuthInv, [Next]_vars, NEW e \in Ids(log') \ Ids(log)
               PROVE  From[e] \in writers
    OBVIOUS
  <2>1. PICK p \in Process : write_all(p) /\ e = op[p].env
    BY NewIds
  <2> QED
    BY <2>1 DEF AuthInv, Appending, write_all
<1> QED
  BY <1>1, <1>2, <1>3, Invariance, PTL DEF Spec, AppendAuthorized

-----------------------------------------------------------------------------
(* Induction over the positions of a sequence.                             *)

LEMMA LeastNumber ==
    ASSUME NEW T, T \subseteq Nat, T # {}
    PROVE  \E x \in T : \A y \in T : x <= y
<1> DEFINE R == OpToRel(<, Nat)
<1>1. IsWellFoundedOn(R, Nat)
  BY NatLessThanWellFounded
<1>2. \A x, y \in Nat : y < x => <<y, x>> \in R
  BY DEF OpToRel
<1> HIDE DEF R
<1>3. PICK x \in T : \A y \in T : ~(<<y, x>> \in R)
  BY <1>1, WFMin
<1>4. ASSUME NEW y \in T PROVE x <= y
  <2>1. x \in Nat /\ y \in Nat /\ ~(y < x)
    BY <1>2, <1>3
  <2> QED
    BY <2>1
<1> QED
  BY <1>4

LEMMA UpTo ==
    ASSUME NEW N \in Nat, NEW S, 0 \in S,
           \A n \in 0..N : n \in S /\ n < N => n + 1 \in S
    PROVE  0..N \subseteq S
<1> DEFINE T == (0..N) \ S
<1>1. SUFFICES ASSUME T # {} PROVE FALSE
  OBVIOUS
<1>2. T \subseteq Nat
  OBVIOUS
<1> HIDE DEF T
<1>3. PICK x \in T : \A y \in T : x <= y
  BY <1>1, <1>2, LeastNumber
<1>4. x \in 0..N /\ x \notin S /\ x # 0
  BY <1>3 DEF T
<1>5. x - 1 \in 0..N /\ x - 1 < N /\ (x - 1) + 1 = x /\ ~(x <= x - 1)
  BY <1>4
<1>6. x - 1 \in S
  BY <1>3, <1>5 DEF T
<1> QED
  BY <1>4, <1>5, <1>6

-----------------------------------------------------------------------------
(* What DedupLog's Without computes.                                       *)

(* One step of its recursion.                                              *)
Next1(v, s, h, i) == IF s[i] \in h THEN v ELSE Append(v, s[i])

(* The function f gives what is left of the first n members of s.          *)
Filters(f, s, h, n) ==
    f = [i \in 0..n |-> IF i = 0 THEN << >> ELSE Next1(f[i - 1], s, h, i)]

LEMMA FiltersExists ==
    ASSUME NEW s, NEW h, NEW N \in Nat
    PROVE  \E f : Filters(f, s, h, N)
<1> DEFINE S == {n \in 0..N : \E f : Filters(f, s, h, n)}
<1>1. 0 \in S
  <2> DEFINE f == [i \in 0..0 |-> << >>]
  <2>1. Filters(f, s, h, 0)
    BY DEF Filters
  <2> QED
    BY <2>1
<1>2. ASSUME NEW n \in 0..N, n \in S, n < N PROVE n + 1 \in S
  <2>1. PICK f : Filters(f, s, h, n)
    BY <1>2
  <2> DEFINE g == [i \in 0..(n + 1) |->
                     IF i = n + 1 THEN Next1(f[n], s, h, i) ELSE f[i]]
  <2>2. /\ \A i \in 0..n : f[i] = IF i = 0 THEN << >> ELSE Next1(f[i - 1], s, h, i)
        /\ \A i \in 0..n : g[i] = f[i]
        /\ g[n + 1] = Next1(f[n], s, h, n + 1)
    BY <2>1 DEF Filters
  <2>3. g = [i \in 0..(n + 1) |-> g[i]]
    OBVIOUS
  <2> HIDE DEF g
  <2>4. ASSUME NEW i \in 0..(n + 1)
        PROVE  g[i] = IF i = 0 THEN << >> ELSE Next1(g[i - 1], s, h, i)
    <3>1. CASE i = n + 1
      <4>1. g[i - 1] = f[n] /\ i # 0
        BY <2>2, <3>1
      <4> QED
        BY <2>2, <3>1, <4>1
    <3>2. CASE i # n + 1
      <4>1. i \in 0..n /\ (i # 0 => i - 1 \in 0..n)
        BY <3>2
      <4> QED
        BY <2>2, <4>1
    <3> QED
      BY <3>1, <3>2
  <2>5. g = [i \in 0..(n + 1) |-> IF i = 0 THEN << >> ELSE Next1(g[i - 1], s, h, i)]
    BY <2>3, <2>4
  <2>6. Filters(g, s, h, n + 1)
    BY <2>5 DEF Filters
  <2> QED
    BY <2>6, <1>2
<1> HIDE DEF S
<1>3. N \in S
  BY <1>1, <1>2, UpTo
<1> QED
  BY <1>3 DEF S

LEMMA WithoutStep ==
    ASSUME NEW s, NEW h, Len(s) \in Nat
    PROVE  /\ Abstract!Without(s, h)[0] = << >>
           /\ \A i \in 1..Len(s) : Abstract!Without(s, h)[i] =
                Next1(Abstract!Without(s, h)[i - 1], s, h, i)
<1> DEFINE N == Len(s)
           w == Abstract!Without(s, h)
<1>1. PICK f : Filters(f, s, h, N)
  BY FiltersExists
<1>2. Filters(w, s, h, N)
  BY <1>1 DEF Abstract!Without, Filters, Next1
<1> HIDE DEF w, N
<1>3. N \in Nat /\ w = [i \in 0..N |-> IF i = 0 THEN << >> ELSE Next1(w[i - 1], s, h, i)]
  BY <1>2 DEF Filters, N
<1>4. \A i \in 0..N : w[i] = IF i = 0 THEN << >> ELSE Next1(w[i - 1], s, h, i)
  BY <1>3
<1>5. 0 \in 0..N /\ \A i \in 1..N : i \in 0..N /\ i # 0
  BY <1>3
<1> QED
  BY <1>4, <1>5 DEF w, N

(* v lists, in order, the members of s up to position n that are not in h: *)
(* the k-th of them stands at position at[k].                              *)
Lists(v, at, s, h, n) ==
    /\ at \in [1..Len(v) -> 1..n]
    /\ \A k \in 1..Len(v) : v[k] = s[at[k]] /\ s[at[k]] \notin h
    /\ \A j, k \in 1..Len(v) : j < k => at[j] < at[k]
    /\ \A i \in 1..n : s[i] \notin h => \E k \in 1..Len(v) : at[k] = i

LEMMA ListsStep ==
    ASSUME NEW S, NEW s \in Seq(S), NEW h, NEW n \in Nat, n < Len(s),
           NEW v \in Seq(S), NEW at, Lists(v, at, s, h, n)
    PROVE  /\ Next1(v, s, h, n + 1) \in Seq(S)
           /\ \E b : Lists(Next1(v, s, h, n + 1), b, s, h, n + 1)
<1>0. /\ at \in [1..Len(v) -> 1..n] /\ Len(v) \in Nat /\ s[n + 1] \in S
      /\ \A k \in 1..Len(v) : at[k] \in 1..n
      /\ 1..n \subseteq 1..(n + 1) /\ \A i \in 1..(n + 1) : i = n + 1 \/ i \in 1..n
      /\ n + 1 \in 1..(n + 1)
  BY DEF Lists
<1>1. CASE s[n + 1] \in h
  <2>1. Next1(v, s, h, n + 1) = v
    BY <1>1 DEF Next1
  <2>2. at \in [1..Len(v) -> 1..(n + 1)]
    BY <1>0
  <2>3. Lists(v, at, s, h, n + 1)
    BY <1>0, <1>1, <2>2 DEF Lists
  <2> QED
    BY <2>1, <2>3
<1>2. CASE s[n + 1] \notin h
  <2> DEFINE m == Len(v)
             w == Append(v, s[n + 1])
             b == [k \in 1..(m + 1) |-> IF k = m + 1 THEN n + 1 ELSE at[k]]
  <2>1. /\ w \in Seq(S) /\ Len(w) = m + 1
        /\ \A k \in 1..m : w[k] = v[k]
        /\ w[m + 1] = s[n + 1]
    BY <1>0
  <2>2. /\ m \in Nat /\ \A k \in 1..(m + 1) : k = m + 1 \/ k \in 1..m
        /\ 1..m \subseteq 1..(m + 1) /\ m + 1 \in 1..(m + 1)
    BY <1>0
  <2>3. Next1(v, s, h, n + 1) = w
    BY <1>2 DEF Next1
  <2>4. /\ b \in [1..(m + 1) -> 1..(n + 1)]
        /\ \A k \in 1..m : b[k] = at[k] /\ at[k] \in 1..n
        /\ b[m + 1] = n + 1
    BY <1>0, <2>2
  <2>5. /\ \A k \in 1..m : v[k] = s[at[k]] /\ s[at[k]] \notin h
        /\ \A j, k \in 1..m : j < k => at[j] < at[k]
        /\ \A i \in 1..n : s[i] \notin h => \E k \in 1..m : at[k] = i
    BY DEF Lists
  <2> HIDE DEF w, b, m
  <2>6. \A k \in 1..(m + 1) : w[k] = s[b[k]] /\ s[b[k]] \notin h
    BY <1>2, <2>1, <2>2, <2>4, <2>5
  <2>7. ASSUME NEW j \in 1..(m + 1), NEW k \in 1..(m + 1), j < k
        PROVE  b[j] < b[k]
    <3>1. j \in 1..m
      BY <2>2, <2>7
    <3>2. CASE k = m + 1
      BY <2>4, <3>1, <3>2
    <3>3. CASE k \in 1..m
      BY <2>4, <2>5, <2>7, <3>1, <3>3
    <3> QED
      BY <2>2, <3>2, <3>3
  <2>8. \A i \in 1..(n + 1) : s[i] \notin h => \E k \in 1..(m + 1) : b[k] = i
    BY <1>0, <2>2, <2>4, <2>5
  <2>9. Lists(w, b, s, h, n + 1)
    BY <2>1, <2>4, <2>6, <2>7, <2>8 DEF Lists
  <2> QED
    BY <2>1, <2>3, <2>9
<1> QED
  BY <1>1, <1>2

LEMMA WithoutLists ==
    ASSUME NEW S, NEW s \in Seq(S), NEW h
    PROVE  LET v == Abstract!Without(s, h)[Len(s)]
           IN  v \in Seq(S) /\ \E at : Lists(v, at, s, h, Len(s))
<1> DEFINE N == Len(s)
           w == Abstract!Without(s, h)
           T == {n \in 0..N : w[n] \in Seq(S) /\ \E at : Lists(w[n], at, s, h, n)}
<1>1. N \in Nat /\ w[0] = << >> /\ \A i \in 1..N : w[i] = Next1(w[i - 1], s, h, i)
  BY WithoutStep
<1> HIDE DEF w
<1>2. 0 \in T
  <2>1. Lists(<< >>, << >>, s, h, 0)
    BY DEF Lists
  <2>2. 0 \in 0..N /\ << >> \in Seq(S)
    BY <1>1
  <2> QED
    BY <1>1, <2>1, <2>2
<1>3. ASSUME NEW n \in 0..N, n \in T, n < N PROVE n + 1 \in T
  <2>1. PICK at : w[n] \in Seq(S) /\ Lists(w[n], at, s, h, n)
    BY <1>3
  <2>2. n \in Nat /\ n < Len(s) /\ n + 1 \in 0..N /\ w[n + 1] = Next1(w[n], s, h, n + 1)
    BY <1>1, <1>3
  <2>3. w[n + 1] \in Seq(S) /\ \E b : Lists(w[n + 1], b, s, h, n + 1)
    BY <2>1, <2>2, ListsStep
  <2> QED
    BY <2>2, <2>3
<1> HIDE DEF T, N
<1>4. 0..N \subseteq T
  BY <1>1, <1>2, <1>3, UpTo
<1>5. N \in T
  BY <1>1, <1>4
<1> QED
  BY <1>5 DEF T, w, N

-----------------------------------------------------------------------------
(* What a tail read answers.                                               *)

(* Distinct members of a sequence are counted by their positions.          *)
LEMMA CountPlaces ==
    ASSUME NEW S, NEW v \in Seq(S),
           \A j, k \in 1..Len(v) : v[j] = v[k] => j = k,
           NEW a \in 1..(Len(v) + 1), NEW b \in 0..Len(v), a <= b + 1
    PROVE  Cardinality({v[k] : k \in a..b}) = b - a + 1
<1> DEFINE T == {v[k] : k \in a..b}
           f == [k \in a..b |-> v[k]]
<1>1. /\ a \in Int /\ b \in Int /\ Len(v) \in Nat
      /\ \A k \in a..b : k \in 1..Len(v)
  OBVIOUS
<1>2. f \in Bijection(a..b, T)
  BY <1>1 DEF Bijection, Injection, Surjection, IsInjective
<1>3. ExistsBijection(a..b, T)
  BY <1>2 DEF ExistsBijection
<1>4. IsFiniteSet(a..b) /\ Cardinality(a..b) = IF a > b THEN 0 ELSE b - a + 1
  BY <1>1, FS_Interval
<1>5. Cardinality(T) = Cardinality(a..b)
  BY <1>3, <1>4, FS_Bijection
<1> QED
  BY <1>1, <1>4, <1>5

(* If v lists what a reader may see in the order of the offsets, then      *)
(* read_channel_tail_with_options answers the end of v.                    *)
LEMMA TailOf ==
    ASSUME NEW S, NEW v \in Seq(S), NEW h, NEW n \in Nat,
           Visible(h) = {v[k] : k \in 1..Len(v)},
           \A k \in 1..Len(v) : index.loc[v[k]].offset \in Nat,
           \A j, k \in 1..Len(v) :
              j < k => index.loc[v[j]].offset < index.loc[v[k]].offset
    PROVE  ReadTail(h, n) =
             SubSeq(v, IF Len(v) > n THEN Len(v) - n + 1 ELSE 1, Len(v))
<1> DEFINE m == Len(v)
           a == IF m > n THEN m - n + 1 ELSE 1
           off(e) == index.loc[e].offset
           T == TailIds(h, n)
           newer(k) == {x \in Visible(h) : off(x) > off(v[k])}
           older(k) == {x \in T : off(x) <= off(v[k])}
<1>1. /\ m \in Nat /\ a \in 1..(m + 1)
      /\ \A k \in 1..m : (m - k < n <=> k \in a..m)
      /\ a..m \subseteq 1..m /\ m - a + 1 \in Nat
  OBVIOUS
<1>2. \A j, k \in 1..m : (off(v[j]) < off(v[k]) <=> j < k) /\ (v[j] = v[k] => j = k)
  <2> SUFFICES ASSUME NEW j \in 1..m, NEW k \in 1..m
               PROVE  (off(v[j]) < off(v[k]) <=> j < k) /\ (v[j] = v[k] => j = k)
    OBVIOUS
  <2>1. off(v[j]) \in Nat /\ off(v[k]) \in Nat
    OBVIOUS
  <2>2. j \in Nat /\ k \in Nat
    BY <1>1
  <2>3. (j < k => off(v[j]) < off(v[k])) /\ (k < j => off(v[k]) < off(v[j]))
    OBVIOUS
  <2>4. v[j] = v[k] => off(v[j]) = off(v[k])
    OBVIOUS
  <2> HIDE DEF off, m
  <2> QED
    BY <2>1, <2>2, <2>3, <2>4
<1>2a. ASSUME NEW x \in 1..(m + 1), NEW y \in 0..m, x <= y + 1
       PROVE  Cardinality({v[k] : k \in x..y}) = y - x + 1
  <2>1. \A j, k \in 1..Len(v) : v[j] = v[k] => j = k
    BY <1>2
  <2>2. x \in 1..(Len(v) + 1) /\ y \in 0..Len(v) /\ x <= y + 1
    BY <1>2a
  <2> HIDE DEF m, a, off, T, newer, older
  <2> QED
    BY ONLY v \in Seq(S), <2>1, <2>2, CountPlaces
<1>3. ASSUME NEW k \in 1..m
      PROVE  Cardinality(newer(k)) = m - k
  <2>1. newer(k) = {v[j] : j \in (k + 1)..m}
    <3>1. \A j \in 1..m : j > k <=> j \in (k + 1)..m
      BY <1>1
    <3>2. \A j \in (k + 1)..m : j \in 1..m
      BY <1>1
    <3>3. \A j \in 1..m : off(v[j]) > off(v[k]) <=> j > k
      <4> TAKE j \in 1..m
      <4>1. off(v[j]) \in Nat /\ off(v[k]) \in Nat /\ j \in Nat /\ k \in Nat
        BY <1>1
      <4>2. off(v[k]) < off(v[j]) <=> k < j
        BY <1>2
      <4> HIDE DEF off
      <4> QED
        BY <4>1, <4>2
    <3> HIDE DEF off
    <3> QED
      BY <3>1, <3>2, <3>3
  <2>2. k + 1 \in 1..(m + 1) /\ m \in 0..m /\ k + 1 <= m + 1 /\ m - (k + 1) + 1 = m - k
    BY <1>1
  <2>3. Cardinality({v[j] : j \in (k + 1)..m}) = m - (k + 1) + 1
    BY <1>2a, <2>2
  <2> QED
    BY <2>1, <2>2, <2>3
<1>4. T = {v[k] : k \in a..m}
  <2>1. T = {e \in Visible(h) : Cardinality({x \in Visible(h) : off(x) > off(e)}) < n}
    BY DEF TailIds
  <2>2. \A k \in 1..m : v[k] \in T <=> k \in a..m
    <3> TAKE k \in 1..m
    <3>1. v[k] \in Visible(h)
      OBVIOUS
    <3>2. v[k] \in T <=> Cardinality(newer(k)) < n
      BY <2>1, <3>1
    <3> QED
      BY <1>1, <1>3, <3>2
  <2>3. T \subseteq Visible(h)
    BY <2>1
  <2> HIDE DEF T, a
  <2> QED
    BY <1>1, <2>2, <2>3
<1>5. Cardinality(T) = m - a + 1
  <2>1. m \in 0..m /\ a <= m + 1
    BY <1>1
  <2>2. Cardinality({v[k] : k \in a..m}) = m - a + 1
    BY <1>1, <1>2a, <2>1
  <2> QED
    BY <1>4, <2>2
<1>6. ASSUME NEW k \in a..m
      PROVE  Cardinality(older(k)) = k - a + 1
  <2>1. k \in 1..m /\ k \in 0..m /\ a <= k + 1
    BY <1>1
  <2>2. older(k) = {v[j] : j \in a..k}
    <3>1. \A j \in a..m : off(v[j]) <= off(v[k]) <=> j \in a..k
      <4> TAKE j \in a..m
      <4>1. off(v[j]) \in Nat /\ off(v[k]) \in Nat /\ j \in Nat /\ k \in Nat /\ j \in 1..m
        BY <1>1, <2>1
      <4>2. off(v[k]) < off(v[j]) <=> k < j
        BY <1>2, <2>1, <4>1
      <4>3. j \in a..k <=> ~(k < j)
        BY <1>1, <4>1
      <4> HIDE DEF off
      <4> QED
        BY <4>1, <4>2, <4>3
    <3>2. \A j \in a..k : j \in a..m
      BY <1>1, <2>1
    <3> HIDE DEF off, T, a
    <3> QED
      BY <1>4, <3>1, <3>2
  <2>3. Cardinality({v[j] : j \in a..k}) = k - a + 1
    BY <1>1, <1>2a, <2>1
  <2> QED
    BY <2>2, <2>3
<1>7. ASSUME NEW i \in 1..(m - a + 1)
      PROVE  (CHOOSE e \in T : Cardinality({x \in T : off(x) <= off(e)}) = i) = v[a + i - 1]
  <2>1. a + i - 1 \in a..m /\ (a + i - 1) - a + 1 = i
    BY <1>1
  <2>2. v[a + i - 1] \in T /\ Cardinality(older(a + i - 1)) = i
    BY <1>4, <1>6, <2>1
  <2>3. ASSUME NEW e \in T, Cardinality({x \in T : off(x) <= off(e)}) = i
        PROVE  e = v[a + i - 1]
    <3>1. PICK k \in a..m : e = v[k]
      BY <1>4
    <3>2. Cardinality(older(k)) = i
      BY <2>3, <3>1
    <3>3. k - a + 1 = i
      BY <1>6, <3>2
    <3>4. k = a + i - 1
      BY <1>1, <3>3
    <3> QED
      BY <3>1, <3>4
  <2> HIDE DEF T, a, off
  <2> QED
    BY <2>2, <2>3
<1>8. ReadTail(h, n) = [i \in 1..(m - a + 1) |-> v[a + i - 1]]
  <2>1. ReadTail(h, n) =
          [i \in 1..Cardinality(T) |->
             CHOOSE e \in T : Cardinality({x \in T : off(x) <= off(e)}) = i]
    BY DEF ReadTail
  <2> HIDE DEF T, a, off
  <2> QED
    BY <1>5, <1>7, <2>1
<1>9. SubSeq(v, a, m) = [i \in 1..(m - a + 1) |-> v[a + i - 1]]
  <2>1. /\ a \in Nat /\ m \in Nat /\ a <= m + 1 /\ \A i \in a..m : v[i] \in S
        /\ \A i \in 1..(m - a + 1) : a + i - 1 \in a..m
    BY <1>1
  <2> HIDE DEF a, m
  <2>2. /\ SubSeq(v, a, m) \in Seq(S)
        /\ Len(SubSeq(v, a, m)) = m - a + 1
        /\ \A i \in 1..(m - a + 1) : SubSeq(v, a, m)[i] = v[a + i - 1]
    BY <2>1, SubSeqProperties
  <2> DEFINE u == [i \in 1..(m - a + 1) |-> v[a + i - 1]]
  <2>3. u \in Seq(S) /\ Len(u) = m - a + 1 /\ \A i \in 1..(m - a + 1) : u[i] = v[a + i - 1]
    BY <2>1
  <2> HIDE DEF u
  <2>4. u = SubSeq(v, a, m)
    BY <2>2, <2>3, SeqEqual
  <2> QED
    BY <2>4 DEF u
<1> QED
  BY <1>8, <1>9

-----------------------------------------------------------------------------
(* The channel log implements DedupLog.                                    *)

(* The messages of the abstract log.                                       *)
Messages == [i \in 1..Len(log) |-> log[i].id]

LEMMA MessagesType ==
    ASSUME log \in Seq(Record)
    PROVE  /\ Messages \in Seq(Envelope)
           /\ Len(Messages) = Len(log)
           /\ \A i \in 1..Len(log) : Messages[i] = log[i].id
           /\ Abstract!Elements(Messages) = Ids(log)
<1>1. Messages \in Seq(Envelope) /\ Len(Messages) = Len(log)
  BY RecordType DEF Messages
<1>2. \A i \in 1..Len(log) : Messages[i] = log[i].id
  BY DEF Messages
<1> QED
  BY <1>1, <1>2 DEF Abstract!Elements, Ids

(* In a file that holds whole records, the index an operation has just     *)
(* brought up to date has every message at its record.                     *)
LEMMA WholeIndex ==
    ASSUME DataInv, Scannable, index = IndexOf(Len(log))
    PROVE  /\ DOMAIN index.loc = Ids(log)
           /\ \A i \in 1..Len(log) : index.loc[log[i].id].offset = log[i].offset
           /\ index.chunks = [b \in Bucket |-> {e \in Ids(log) : BucketOf[e] = b}]
<1>1. log \in Seq(Record) /\ Distinct(log)
  BY DEF DataInv, NoDuplicateIds, Distinct
<1>2. index = rebuild_index(log, eof)
  BY <1>1, IndexOfAll
<1>3. DOMAIN index.loc = Ids(log)
  BY <1>2 DEF rebuild_index
<1>4. ASSUME NEW i \in 1..Len(log)
      PROVE  index.loc[log[i].id].offset = log[i].offset
  <2>1. index.loc[log[i].id] = [offset |-> log[i].offset, length |-> Size[log[i].id]]
    BY <1>1, <1>2, RebuildLoc
  <2> QED
    BY <2>1
<1>5. index.chunks = [b \in Bucket |-> {e \in Ids(log) : BucketOf[e] = b}]
  BY <1>2 DEF rebuild_index
<1> QED
  BY <1>3, <1>4, <1>5

(* The tail read answers the newest messages of the abstract log.          *)
LEMMA TailIsNewest ==
    ASSUME DataInv, Scannable, index = IndexOf(Len(log)), NEW h, NEW n \in Nat
    PROVE  ReadTail(h, n) = Abstract!Newest(Messages, h, n)
<1> DEFINE v == Abstract!Without(Messages, h)[Len(Messages)]
<1>1. /\ log \in Seq(Record) /\ Messages \in Seq(Envelope) /\ Len(Messages) = Len(log)
      /\ \A i \in 1..Len(log) : Messages[i] = log[i].id
  BY MessagesType DEF DataInv
<1>2. PICK at : v \in Seq(Envelope) /\ Lists(v, at, Messages, h, Len(Messages))
  BY <1>1, WithoutLists
<1> HIDE DEF v
<1>3. /\ \A k \in 1..Len(v) : at[k] \in 1..Len(log) /\ v[k] = log[at[k]].id /\ v[k] \notin h
      /\ \A j, k \in 1..Len(v) : j < k => at[j] < at[k]
      /\ \A i \in 1..Len(log) : log[i].id \notin h => \E k \in 1..Len(v) : at[k] = i
  BY <1>1, <1>2 DEF Lists
<1>4. /\ DOMAIN index.loc = Ids(log)
      /\ \A i \in 1..Len(log) : index.loc[log[i].id].offset = log[i].offset
  BY WholeIndex
<1>5. Visible(h) = {v[k] : k \in 1..Len(v)}
  <2>1. ASSUME NEW e \in Visible(h)
        PROVE  \E k \in 1..Len(v) : v[k] = e
    <3>1. PICK i \in 1..Len(log) : log[i].id = e
      BY <1>4 DEF Visible, Ids
    <3>2. PICK k \in 1..Len(v) : at[k] = i
      BY <1>3, <3>1 DEF Visible
    <3> QED
      BY <1>3, <3>1, <3>2
  <2>2. ASSUME NEW k \in 1..Len(v)
        PROVE  v[k] \in Visible(h)
    BY <1>3, <1>4 DEF Visible, Ids
  <2> QED
    BY <2>1, <2>2
<1>6. \A i, j \in 1..Len(log) : i < j => log[i].offset < log[j].offset
  <2> SUFFICES ASSUME NEW i \in 1..Len(log), NEW j \in 1..Len(log), i < j
               PROVE  log[i].offset < log[j].offset
    OBVIOUS
  <2>1. EndOf(log[i]) <= log[j].offset
    BY DEF DataInv, FileInv
  <2>2. /\ EndOf(log[i]) = log[i].offset + Size[log[i].id]
        /\ Size[log[i].id] \in Nat /\ Size[log[i].id] >= 2
        /\ log[i].offset \in Nat /\ log[j].offset \in Nat
    BY <1>1, RecordType
  <2> QED
    BY <2>1, <2>2
<1>7. \A k \in 1..Len(v) : index.loc[v[k]].offset = log[at[k]].offset
  BY <1>3, <1>4
<1>8. \A k \in 1..Len(v) : index.loc[v[k]].offset \in Nat
  BY <1>1, <1>3, <1>7, RecordType
<1>9. \A j, k \in 1..Len(v) :
         j < k => index.loc[v[j]].offset < index.loc[v[k]].offset
  BY <1>3, <1>6, <1>7
<1>10. ReadTail(h, n) =
          SubSeq(v, IF Len(v) > n THEN Len(v) - n + 1 ELSE 1, Len(v))
  BY <1>2, <1>5, <1>8, <1>9, TailOf
<1> QED
  BY <1>10 DEF v, Abstract!Newest

(* The parts of a question.                                                *)
LEMMA QueryParts ==
    ASSUME NEW o \in Op
    PROVE  /\ o.kind = "tail" => o.hidden \in Hidden /\ o.n \in TailSizes
           /\ o.kind = "get" => o.env \in Envelope
<1>1. CASE o \in [kind : {"tail"}, hidden : Hidden, n : TailSizes]
  BY <1>1
<1>2. CASE o \in [kind : {"get"}, env : Envelope]
  BY <1>2
<1>3. CASE /\ o \notin [kind : {"tail"}, hidden : Hidden, n : TailSizes]
           /\ o \notin [kind : {"get"}, env : Envelope]
  BY <1>3 DEF Op, Query, Idle
<1> QED
  BY <1>1, <1>2, <1>3

LEMMA InitImplements == Init => Abstract!Init
<1> SUFFICES ASSUME Init PROVE Abstract!Init
  OBVIOUS
<1>1. log = << >> /\ eof = 0 /\ kept = {} /\ reply = [kind |-> "none"]
  BY DEF Init, NoReply
<1>2. [i \in 1..Len(log) |-> log[i].id] = << >> /\ Scannable
  BY <1>1 DEF Scannable, End
<1> QED
  BY <1>1, <1>2 DEF Abstract!Init, Abstract!NoReply

(* The record is added to a whole file that does not have its message.     *)
LEMMA AddImplements ==
    ASSUME IInv, NEW p \in Process, write_all(p)
    PROVE  Abstract!Next
<1>0. PICK e \in Envelope : e = op[p].env
  <2>1. op[p] \in Op /\ op[p].kind = "append"
    BY DEF write_all, IInv, ControlInv, OpInv
  <2> QED
    BY <2>1, AppendEnv
<1> DEFINE r == [id |-> e, offset |-> eof]
<1>1. Size[e] \in Nat
  BY ConstantsOK
<1>2. /\ log \in Seq(Record) /\ eof \in Nat /\ r \in Record
      /\ log' = Append(log, r) /\ eof' = eof + Size[e]
      /\ UNCHANGED <<kept, reply>>
  BY <1>0, <1>1 DEF IInv, DataInv, write_all, Record, acks
<1>3. Scannable /\ index = IndexOf(Len(log)) /\ e \notin DOMAIN index.loc
  BY <1>0 DEF IInv, WriteInv, write_all, index_contains
<1>4. e \notin Ids(log)
  BY <1>3, WholeIndex DEF IInv
<1>5. Scannable'
  <2>1. log' # << >> /\ log'[Len(log')] = r
    BY <1>2
  <2>2. End(log') = EndOf(r) /\ EndOf(r) = eof'
    BY <1>2, <2>1 DEF End, EndOf
  <2> QED
    BY <2>2 DEF Scannable
<1>6. Messages' = Append(Messages, e)
  <2>1. /\ Messages \in Seq(Envelope) /\ Len(Messages) = Len(log)
        /\ \A i \in 1..Len(log) : Messages[i] = log[i].id
    BY <1>2, MessagesType
  <2>2. /\ Len(log') = Len(log) + 1 /\ log'[Len(log) + 1] = r
        /\ \A i \in 1..Len(log) : log'[i] = log[i]
        /\ log' \in Seq(Record) /\ Len(log) \in Nat
    BY <1>2
  <2>3. Messages' \in Seq(Envelope) /\ Len(Messages') = Len(log')
        /\ \A i \in 1..Len(log') : Messages'[i] = log'[i].id
    <3>1. \A i \in 1..Len(log') : log'[i].id \in Envelope
      BY <2>2, RecordType
    <3> QED
      BY <2>2, <3>1 DEF Messages
  <2>4. /\ Append(Messages, e) \in Seq(Envelope)
        /\ Len(Append(Messages, e)) = Len(log) + 1
        /\ \A i \in 1..Len(log) : Append(Messages, e)[i] = log[i].id
        /\ Append(Messages, e)[Len(log) + 1] = e
    BY <1>1, <2>1, AppendProperties
  <2>5. \A i \in 1..Len(Messages') : Messages'[i] = Append(Messages, e)[i]
    <3> TAKE i \in 1..Len(Messages')
    <3>1. i = Len(log) + 1 \/ i \in 1..Len(log)
      BY <2>2, <2>3
    <3>2. Messages'[i] = log'[i].id
      BY <2>3
    <3> QED
      BY <2>2, <2>4, <3>1, <3>2
  <2> QED
    BY <2>2, <2>3, <2>4, <2>5, SeqEqual
<1>7. e \notin Abstract!Elements(Messages)
  BY <1>2, <1>4, MessagesType
<1>8. Abstract!Add(e)
  BY <1>2, <1>3, <1>5, <1>6, <1>7 DEF Abstract!Add, Messages
<1> QED
  BY <1>8 DEF Abstract!Next

LEMMA AcknowledgeImplements ==
    ASSUME IInv, NEW p \in Process, AppendOk(p)
    PROVE  Abstract!Next
<1> DEFINE e == op[p].env
<1>1. /\ log # << >> /\ log[Len(log)].id = e /\ EndOf(log[Len(log)]) = eof
      /\ kept' = kept \cup {e} /\ UNCHANGED <<log, eof, reply>>
  BY DEF IInv, WriteInv, AppendOk
<1>2. Scannable /\ Scannable'
  BY <1>1 DEF Scannable, End
<1>3. Len(log) \in 1..Len(log)
  BY <1>1 DEF IInv, DataInv
<1>4. e \in Ids(log) /\ e \in Envelope
  BY <1>1, <1>3, RecordType DEF Ids, IInv, DataInv
<1>5. e \in Abstract!Elements(Messages)
  BY <1>4, MessagesType DEF IInv, DataInv
<1>6. Abstract!Acknowledge(e)
  BY <1>1, <1>2, <1>5 DEF Abstract!Acknowledge, Messages
<1> QED
  BY <1>4, <1>6 DEF Abstract!Next

LEMMA DamageImplements ==
    ASSUME IInv, NEW p \in Process, TornWrite(p)
    PROVE  Abstract!Next
<1>1. /\ UNCHANGED <<log, kept, reply>>
      /\ \E n \in 1..(Size[op[p].env] - 1) : eof' = eof + n
  BY DEF TornWrite, acks
<1>2. Scannable /\ eof \in Nat
  BY DEF IInv, DataInv, WriteInv, TornWrite
<1>3. Size[op[p].env] \in Nat
  <2>1. op[p] \in Op /\ op[p].kind = "append"
    BY DEF TornWrite, IInv, ControlInv, OpInv
  <2> QED
    BY <2>1, AppendEnv, ConstantsOK
<1>4. eof' # eof
  BY <1>1, <1>2, <1>3
<1>5. ~Scannable'
  BY <1>1, <1>2, <1>4 DEF Scannable
<1>6. Abstract!Damage
  BY <1>1, <1>5 DEF Abstract!Damage
<1> QED
  BY <1>6 DEF Abstract!Next

(* Every answer is that of the abstract log at the same moment.            *)
LEMMA ReadImplements ==
    ASSUME IInv, NEW p \in Process,
           ReadTailOk(p) \/ read_message_by_id(p) \/ chunk_summaries(p)
    PROVE  Abstract!Next
<1>1. UNCHANGED <<log, eof, kept>> /\ pc[p] = "read" /\ op[p] \in Op
  BY DEF ReadTailOk, read_message_by_id, chunk_summaries, disk, acks, IInv, ControlInv
<1>2. Scannable /\ index = IndexOf(Len(log)) /\ Scannable'
  BY <1>1 DEF IInv, WriteInv, Scannable
<1>3. /\ DOMAIN index.loc = Ids(log)
      /\ index.chunks = [b \in Bucket |-> {e \in Ids(log) : BucketOf[e] = b}]
      /\ Ids(log) = Abstract!Elements(Messages)
  BY <1>2, WholeIndex, MessagesType DEF IInv, DataInv
<1> DEFINE Tails == {[kind |-> "tail", envs |-> Abstract!Newest(Messages, h, n)] :
                         h \in Hidden, n \in TailSizes}
           Gets == {[kind |-> "get", env |-> e,
                     found |-> e \in Abstract!Elements(Messages)] : e \in Envelope}
           Chunks == [b \in Bucket |->
                        {e \in Abstract!Elements(Messages) : BucketOf[e] = b}]
<1>4. ASSUME ReadTailOk(p)
      PROVE  reply' \in Tails
  <2>1. /\ op[p].hidden \in Hidden /\ op[p].n \in TailSizes /\ op[p].n \in Nat
        /\ reply' = [kind |-> "tail", envs |-> ReadTail(op[p].hidden, op[p].n)]
    BY <1>1, <1>4, QueryParts, ConstantsOK DEF ReadTailOk
  <2>2. ReadTail(op[p].hidden, op[p].n) = Abstract!Newest(Messages, op[p].hidden, op[p].n)
    BY <1>2, <2>1, TailIsNewest DEF IInv
  <2>3. reply' = [kind |-> "tail", envs |-> Abstract!Newest(Messages, op[p].hidden, op[p].n)]
    BY <2>1, <2>2
  <2> QED
    BY <2>1, <2>3
<1>5. ASSUME read_message_by_id(p)
      PROVE  reply' \in Gets
  <2>1. /\ op[p].env \in Envelope
        /\ reply' = [kind |-> "get", env |-> op[p].env,
                     found |-> op[p].env \in DOMAIN index.loc]
    BY <1>1, <1>5, QueryParts DEF read_message_by_id, index_contains
  <2>2. reply' = [kind |-> "get", env |-> op[p].env,
                  found |-> op[p].env \in Abstract!Elements(Messages)]
    BY <1>3, <2>1
  <2> QED
    BY <2>1, <2>2
<1>6. ASSUME chunk_summaries(p)
      PROVE  reply' = [kind |-> "chunks", members |-> Chunks]
  <2>1. reply' = [kind |-> "chunks", members |-> index.chunks]
    BY <1>6 DEF chunk_summaries
  <2>2. index.chunks = Chunks
    BY <1>3
  <2> QED
    BY <2>1, <2>2
<1>7. reply' \in Tails \cup Gets \cup {[kind |-> "chunks", members |-> Chunks]}
  <2> HIDE DEF Tails, Gets, Chunks
  <2> QED
    BY <1>4, <1>5, <1>6
<1>8. Abstract!Read
  BY <1>1, <1>2, <1>7 DEF Abstract!Read, Messages
<1> QED
  BY <1>8 DEF Abstract!Next

(* A power loss shortens the log, and drops no message that was kept.      *)
LEMMA LoseImplements ==
    ASSUME IInv, IInv', PowerLoss
    PROVE  Abstract!Next
<1>1. PICK n \in 0..Len(log) : log' = SubSeq(log, 1, n)
  BY DEF PowerLoss
<1>2. UNCHANGED <<kept, reply>> /\ log \in Seq(Record) /\ log' \in Seq(Record)
  BY DEF PowerLoss, acks, IInv, DataInv
<1>3. /\ Messages \in Seq(Envelope) /\ Len(Messages) = Len(log) /\ Len(log) \in Nat
      /\ \A i \in 1..Len(log) : Messages[i] = log[i].id
  BY <1>2, MessagesType
<1>4. Len(log') = n /\ \A i \in 1..n : log'[i] = log[i] /\ i \in 1..Len(log)
  BY <1>1, <1>2, <1>3, Prefix
<1>5. /\ Messages' \in Seq(Envelope) /\ Len(Messages') = n
      /\ \A i \in 1..n : Messages'[i] = log'[i].id
  <2>1. \A i \in 1..n : log'[i].id \in Envelope
    BY <1>2, <1>4, RecordType
  <2> QED
    BY <1>4, <2>1 DEF Messages
<1>6. Messages' = SubSeq(Messages, 1, n)
  <2>1. /\ SubSeq(Messages, 1, n) \in Seq(Envelope)
        /\ Len(SubSeq(Messages, 1, n)) = n
        /\ \A i \in 1..n : SubSeq(Messages, 1, n)[i] = Messages[i]
    BY <1>3
  <2>2. \A i \in 1..Len(Messages') : Messages'[i] = SubSeq(Messages, 1, n)[i]
    BY <1>3, <1>4, <1>5, <2>1
  <2> QED
    BY <1>5, <2>1, <2>2, SeqEqual
<1>7. kept \subseteq Abstract!Elements(Messages')
  <2>1. \A e \in kept : \E i \in 1..n : log'[i].id = e
    BY <1>2, <1>4 DEF IInv, DataInv, KeptInv
  <2> QED
    BY <1>5, <2>1 DEF Abstract!Elements
<1>8. Abstract!Lose
  BY <1>2, <1>3, <1>6, <1>7 DEF Abstract!Lose, Messages
<1> QED
  BY <1>8 DEF Abstract!Next

LEMMA StepImplements ==
    IInv /\ IInv' /\ [Next]_vars => [Abstract!Next]_(Abstract!vars)
<1> SUFFICES ASSUME IInv, IInv', [Next]_vars
             PROVE  [Abstract!Next]_(Abstract!vars)
  OBVIOUS
<1> USE DEF disk, acks
<1>1. ASSUME UNCHANGED <<log, eof, kept, reply>>
      PROVE  UNCHANGED Abstract!vars
  BY <1>1 DEF Abstract!vars, Scannable
<1>2. ASSUME NEW p \in Process, Start(p)
      PROVE  Abstract!Next
  <2>1. UNCHANGED <<log, eof, kept>> /\ reply' = [kind |-> "none"]
    BY <1>2 DEF Start, NoReply
  <2>2. Scannable' = Scannable
    BY <2>1 DEF Scannable
  <2>3. Abstract!Ask
    BY <2>1, <2>2 DEF Abstract!Ask, Abstract!NoReply
  <2> QED
    BY <2>3 DEF Abstract!Next
<1>3. ASSUME NEW p \in Process,
             \/ lock_exclusive(p) \/ ChangePolicy(p) \/ authorize_append(p)
             \/ RefuseAppend(p) \/ ensure_index(p) \/ ScanFails(p)
             \/ SkipDuplicate(p) \/ sync_data(p) \/ Abort(p)
      PROVE  UNCHANGED <<log, eof, kept, reply>>
  BY <1>3 DEF lock_exclusive, ChangePolicy, authorize_append, RefuseAppend,
              ensure_index, ScanFails, SkipDuplicate, sync_data, Abort
<1>4. LoseIndex \/ UNCHANGED vars => UNCHANGED <<log, eof, kept, reply>>
  BY DEF LoseIndex, vars
<1> QED
  BY <1>1, <1>2, <1>3, <1>4, AddImplements, AcknowledgeImplements, DamageImplements,
     ReadImplements, LoseImplements DEF Next, Step

(* Whatever fails in between, the file with its index and its lock behaves *)
(* as the deduplicated log of DedupLog: appends, acknowledgements, losses, *)
(* and every answer to a tail, an id or a bucket read.                     *)
THEOREM ImplementsDedupLog == Spec => AbstractSpec
<1>1. Init => Abstract!Init
  BY InitImplements
<1>2. IInv /\ IInv' /\ [Next]_vars => [Abstract!Next]_(Abstract!vars)
  BY StepImplements
<1> QED
  BY <1>1, <1>2, Invariance, PTL DEF Spec, AbstractSpec, Abstract!Spec
==============================================================================
