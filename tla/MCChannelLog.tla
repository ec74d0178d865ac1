---------------------------- MODULE MCChannelLog ----------------------------
(* ChannelLog on two processes and two envelopes, of two authors and two   *)
(* lengths.                                                                *)
EXTENDS ChannelLog, TLC

CONSTANTS e1, e2, alice, bob

MCFrom == (e1 :> alice) @@ (e2 :> bob)
MCSize == (e1 :> 2) @@ (e2 :> 3)
MCBucketOf == (e1 :> 0) @@ (e2 :> 1)
MCHidden == {{}, {e2}}
=============================================================================
