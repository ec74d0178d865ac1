-------------------------- MODULE MCBackgroundSync --------------------------
(* Two saved URLs: nobody answers at the first; the second lists two       *)
(* channels.  One command adds it with the right key, one with another,    *)
(* one from the terminal client, one removes it.                           *)
EXTENDS BackgroundSync, TLC

CONSTANTS offline, friend, short, key, other

MCUrl == {offline, friend}

(* A URL may be typed without its path.                                    *)
MCNormal == (offline :> offline @@ friend :> friend @@ short :> friend)

MCCommands ==
    {Add(friend, key), Add(short, other), Add(short, Unpinned), Remove(friend),
     Add(offline, other)}

MCRank == (offline :> 1 @@ friend :> 2)
MCIdentity == [u \in Url |-> key]
MCOnline == {friend}
MCChannels == [u \in Url |-> <<"one", "two">>]
=============================================================================
