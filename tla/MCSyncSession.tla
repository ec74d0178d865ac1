---------------------------- MODULE MCSyncSession ----------------------------
(* Two nodes and two buckets.  a1, a2, b1 and b2 are in the logs from the  *)
(* start, and common in both; a3 and b3 are posted later.  Each run takes  *)
(* some of them.                                                           *)
EXTENDS SyncSession, TLC

CONSTANTS a, b, a1, a2, a3, b1, b2, b3, common, s1, s2

MCNode == {a, b}

MCBucketOf == [m \in Message |-> IF m \in {a1, b1, b3} THEN 0 ELSE 1]

MCKnown == (a :> (Message \cap {a1, a2, common}) @@ b :> (Message \cap {b1, b2, common}))

MCPosts == {<<a, a3>>, <<b, b3>>} \cap (Node \X Message)

(* a is the client of s1, b of s2.                                         *)
MCClientOf == [s \in Session |-> IF s = s1 THEN a ELSE b]
MCServerOf == [s \in Session |-> IF s = s1 THEN b ELSE a]
=============================================================================
