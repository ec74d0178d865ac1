------------------------------ MODULE Discovery ------------------------------
(***************************************************************************)
(* /challenge and /status of responders: the table of challenges of each,  *)
(* kept under one mutex, so that a request is one action.                  *)
(*                                                                         *)
(* An expiry is kept relative to the responder's clock, and time passes in *)
(* ticks: -1 is any time in the past.                                      *)
(***************************************************************************)
EXTENDS Integers, FiniteSets, Functions

CONSTANTS
    Responder,
    Nonce,          \* bound: nonces in use at a time
    Lifetime,       \* ticks in 60 s
    MaxChallenges   \* MAX_DISCOVERY_CHALLENGES

ASSUME DiscoveryConstantsOK ==
    /\ Lifetime \in Nat \ {0}
    /\ MaxChallenges \in Nat \ {0}

VARIABLE challenges     \* per responder, the expiries by nonce

DiscoveryInit == challenges = [r \in Responder |-> << >>]

Issued(r) == DOMAIN challenges[r]

Live(r) == {n \in Issued(r) : challenges[r][n] >= 0}

(* Mutant: a full table is not cleaned up.                                 *)
retain_if_room(r) ==
    IF Cardinality(Issued(r)) < MaxChallenges
    THEN Restrict(challenges[r], Live(r)) ELSE challenges[r]

retain(r) == Restrict(challenges[r], Live(r))

(* Mutant: a full table drops what it has.                                 *)
challenge_evict(r, n) ==
    /\ n \in Nonce \ Issued(r)
    /\ challenges' = [challenges EXCEPT ![r] =
          IF Cardinality(DOMAIN retain(r)) < MaxChallenges
          THEN [m \in DOMAIN retain(r) \cup {n} |->
                  IF m = n THEN Lifetime ELSE challenges[r][m]]
          ELSE [m \in {n} |-> Lifetime]]

(* Mutant: the limit is off by one.                                        *)
challenge_over(r, n) ==
    /\ n \in Nonce \ Issued(r)
    /\ Cardinality(DOMAIN retain(r)) <= MaxChallenges
    /\ challenges' = [challenges EXCEPT ![r] =
          [m \in DOMAIN retain(r) \cup {n} |->
             IF m = n THEN Lifetime ELSE challenges[r][m]]]

challenge(r, n) ==
    /\ n \in Nonce \ Issued(r)
    /\ Cardinality(DOMAIN retain(r)) < MaxChallenges
    /\ challenges' = [challenges EXCEPT ![r] =
          [m \in DOMAIN retain(r) \cup {n} |->
             IF m = n THEN Lifetime ELSE challenges[r][m]]]

(* 429; the table has been cleaned up all the same.                        *)
TooManyChallenges(r) ==
    /\ Cardinality(DOMAIN retain(r)) >= MaxChallenges
    /\ challenges' = [challenges EXCEPT ![r] = retain(r)]

(* discovery_requester, for a request signed at time ts by the responder's *)
(* clock.                                                                  *)
Timely(ts) == -Lifetime <= ts /\ ts <= Lifetime

discovery_requester(r, n, ts) ==
    /\ Timely(ts)
    /\ n \in Live(r)
    /\ challenges' = [challenges EXCEPT ![r] = Restrict(@, Issued(r) \ {n})]

(* 401                                                                     *)
Unauthorized(r, n, ts) ==
    /\ ~Timely(ts) \/ n \notin Live(r)
    /\ UNCHANGED challenges

PassTime ==
    challenges' = [r \in Responder |->
                     [n \in Issued(r) |->
                        IF challenges[r][n] = -1 THEN -1 ELSE challenges[r][n] - 1]]

DiscoveryTypeOK ==
    \A r \in Responder :
       /\ Issued(r) \subseteq Nonce
       /\ Cardinality(Issued(r)) <= MaxChallenges
       /\ \A n \in Issued(r) : challenges[r][n] \in -1..Lifetime
=============================================================================
