------------------------------ MODULE DedupLog ------------------------------
(***************************************************************************)
(* What a channel log promises its callers, with no file, index or lock:   *)
(* a sequence of distinct messages that only grows, an acknowledgement     *)
(* that is never taken back, and reads that return a suffix of the         *)
(* sequence.  A power loss may drop messages nobody was promised, and an   *)
(* interrupted write may leave the log unreadable, in which case nothing   *)
(* more is appended, acknowledged or read.  ChannelLog implements it.      *)
(***************************************************************************)
EXTENDS Naturals, Sequences

CONSTANTS
    Envelope,       \* the messages
    Bucket,         \* the parts a peer compares separately
    BucketOf,       \* the part a message falls in
    Hidden,         \* the sets of messages a reader may ask to leave out
    TailSizes       \* the sizes of tail a reader may ask for

VARIABLES
    ids,            \* the messages of the channel, oldest first
    kept,           \* the messages whose append returned Ok after its own write
    damaged,        \* the file ends in an incomplete record
    reply           \* the last answer a reader got

vars == <<ids, kept, damaged, reply>>

NoReply == [kind |-> "none"]

Elements(s) == {s[i] : i \in 1..Len(s)}

(* The members of s that are not in h, in order: what is left of the first *)
(* i members, for every i.                                                 *)
Without(s, h) ==
    LET upTo[i \in 0..Len(s)] ==
            IF i = 0 THEN << >>
            ELSE IF s[i] \in h THEN upTo[i - 1]
            ELSE Append(upTo[i - 1], s[i])
    IN  upTo

(* The newest n members of s that are not in h, oldest first.              *)
Newest(s, h, n) ==
    LET visible == Without(s, h)[Len(s)]
    IN  SubSeq(visible, IF Len(visible) > n THEN Len(visible) - n + 1 ELSE 1,
               Len(visible))

Init ==
    /\ ids = << >>
    /\ kept = {}
    /\ damaged = FALSE
    /\ reply = NoReply

Add(e) ==
    /\ ~damaged
    /\ e \notin Elements(ids)
    /\ ids' = Append(ids, e)
    /\ UNCHANGED <<kept, damaged, reply>>

Acknowledge(e) ==
    /\ ~damaged
    /\ e \in Elements(ids)
    /\ kept' = kept \cup {e}
    /\ UNCHANGED <<ids, damaged, reply>>

Damage ==
    /\ damaged' = TRUE
    /\ UNCHANGED <<ids, kept, reply>>

Ask ==
    /\ reply' = NoReply
    /\ UNCHANGED <<ids, kept, damaged>>

(* Answers are computed from the whole log as it is at that instant.       *)
Read ==
    /\ ~damaged
    /\ \E a \in {[kind |-> "tail", envs |-> Newest(ids, h, n)] :
                    h \in Hidden, n \in TailSizes}
              \cup {[kind |-> "get", env |-> e, found |-> e \in Elements(ids)] :
                    e \in Envelope}
              \cup {[kind |-> "chunks",
                     members |-> [b \in Bucket |->
                                    {e \in Elements(ids) : BucketOf[e] = b}]]} :
         reply' = a
    /\ UNCHANGED <<ids, kept, damaged>>

(* A power loss may shorten the log, never below a kept message, and may   *)
(* mend or cause damage.                                                   *)
Lose ==
    /\ \E n \in 0..Len(ids) : ids' = SubSeq(ids, 1, n)
    /\ kept \subseteq Elements(ids')
    /\ damaged' \in BOOLEAN
    /\ UNCHANGED <<kept, reply>>

Next ==
    \/ \E e \in Envelope : Add(e) \/ Acknowledge(e)
    \/ Damage
    \/ Ask \/ Read
    \/ Lose

Spec == Init /\ [][Next]_vars
=============================================================================
