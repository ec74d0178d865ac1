-------------------------- MODULE PolicyChainProofs --------------------------
(***************************************************************************)
(* TLAPS proofs about the policy as a function of its history: what a      *)
(* replay computes, by induction over the events, for histories of any     *)
(* length and any identities.                                              *)
(***************************************************************************)
EXTENDS PolicyChain, TLAPS, WellFoundedInduction

-----------------------------------------------------------------------------
(* Induction, in the form the proofs below use it: sets of numbers.        *)

LEMMA LeastNumber ==
  ASSUME NEW T, T \subseteq Nat, T # {}
  PROVE  \E x \in T : \A y \in T : x <= y
<1> DEFINE R == OpToRel(<, Nat)
<1>1. IsWellFoundedOn(R, Nat)
  BY NatLessThanWellFounded
<1>2. \A x, y \in Nat : y < x => <<y, x>> \in R
  BY DEF OpToRel
<1> HIDE DEF R
<1>3. PICK x \in T : \A y \in T : ~(<<y, x>> \in R)
  BY <1>1, WFMin
<1>4. ASSUME NEW y \in T PROVE x <= y
  <2>1. x \in Nat /\ y \in Nat
    OBVIOUS
  <2>2. ~(y < x)
    BY <1>2, <1>3, <2>1
  <2> QED
    BY <2>1, <2>2
<1> QED
  BY <1>4

(* A set with 0 in it, and with n + 1 for each n below N in it, holds all  *)
(* numbers up to N.                                                        *)
LEMMA UpTo ==
  ASSUME NEW N \in Nat, NEW S, 0 \in S, \A n \in 0..N : n \in S /\ n < N => n + 1 \in S
  PROVE  0..N \subseteq S
<1>1. SUFFICES ASSUME (0..N) \ S # {} PROVE FALSE
  OBVIOUS
<1> DEFINE T == (0..N) \ S
<1>2. T \subseteq Nat /\ T # {}
  BY <1>1
<1> HIDE DEF T
<1>3. PICK x \in T : \A y \in T : x <= y
  BY <1>2, LeastNumber
<1>4. x \in 0..N /\ x \notin S /\ x # 0
  BY <1>3 DEF T
<1>5. x - 1 \in 0..N /\ x - 1 < N /\ (x - 1) + 1 = x /\ ~(x <= x - 1)
  BY <1>4
<1>6. x - 1 \in S
  BY <1>3, <1>5 DEF T
<1> QED
  BY <1>4, <1>5, <1>6

-----------------------------------------------------------------------------
(* The recursion of Policies is well defined.                              *)

(* The function f gives the policies of the first n events of h.           *)
Replay(f, h, n) ==
    f = [i \in 0..n |-> IF i = 0 THEN DefaultPolicy
                        ELSE apply_policy_action(f[i - 1], h[i].actor, h[i].action)]

LEMMA ReplayExists ==
  ASSUME NEW h, NEW N \in Nat
  PROVE  \E f : Replay(f, h, N)
<1> DEFINE S == {n \in 0..N : \E f : Replay(f, h, n)}
<1>1. 0 \in S
  <2> DEFINE f == [i \in 0..0 |-> DefaultPolicy]
  <2>1. Replay(f, h, 0)
    BY DEF Replay
  <2> QED
    BY <2>1
<1>2. ASSUME NEW n \in 0..N, n \in S, n < N PROVE n + 1 \in S
  <2>1. PICK f : Replay(f, h, n)
    BY <1>2
  <2> DEFINE step(g, i) == apply_policy_action(g[i - 1], h[i].actor, h[i].action)
             g == [i \in 0..(n + 1) |-> IF i = n + 1 THEN step(f, i) ELSE f[i]]
  <2>2. /\ f = [i \in 0..n |-> IF i = 0 THEN DefaultPolicy ELSE step(f, i)]
        /\ \A i \in 0..n : g[i] = f[i]
        /\ g[n + 1] = step(f, n + 1)
    BY <2>1 DEF Replay
  <2>3. \A i \in 0..(n + 1) : g[i] = IF i = 0 THEN DefaultPolicy ELSE step(g, i)
    <3> SUFFICES ASSUME NEW i \in 0..(n + 1)
                 PROVE  g[i] = IF i = 0 THEN DefaultPolicy ELSE step(g, i)
      OBVIOUS
    <3>1. CASE i = n + 1
      <4>1. g[n] = f[n] /\ i # 0 /\ i - 1 = n
        BY <2>2, <3>1
      <4> HIDE DEF g
      <4> QED
        BY <2>2, <3>1, <4>1
    <3>2. CASE i = 0
      BY <2>2, <3>2
    <3>3. CASE i # 0 /\ i # n + 1
      <4>1. i \in 0..n /\ i - 1 \in 0..n
        BY <3>3
      <4>2. g[i] = f[i] /\ g[i - 1] = f[i - 1]
        BY <2>2, <4>1
      <4>3. f[i] = step(f, i)
        BY <2>2, <3>3, <4>1
      <4> HIDE DEF g
      <4> QED
        BY <3>3, <4>2, <4>3
    <3> QED
      BY <3>1, <3>2, <3>3
  <2>4. g = [i \in 0..(n + 1) |-> g[i]]
    OBVIOUS
  <2> HIDE DEF g
  <2>5. Replay(g, h, n + 1)
    BY <2>3, <2>4 DEF Replay
  <2>6. n + 1 \in 0..N
    BY <1>2
  <2> QED
    BY <2>5, <2>6
<1> HIDE DEF S
<1>3. 0..N \subseteq S
  BY <1>1, <1>2, UpTo
<1>4. N \in S
  BY <1>3
<1> QED
  BY <1>4 DEF S

(* What derive_policy computes: the default policy, changed by one event   *)
(* after the other.                                                        *)
LEMMA PoliciesStep ==
  ASSUME NEW h, Len(h) \in Nat
  PROVE  /\ Policies(h)[0] = DefaultPolicy
         /\ \A i \in 1..Len(h) :
               Policies(h)[i] = apply_policy_action(Policies(h)[i - 1], h[i].actor, h[i].action)
<1> DEFINE N == Len(h)
           p == Policies(h)
<1>1. PICK f : Replay(f, h, N)
  BY ReplayExists
<1>2. Replay(p, h, N)
  BY <1>1 DEF Policies, Replay
<1> HIDE DEF p, N
<1>3. p = [i \in 0..N |-> IF i = 0 THEN DefaultPolicy
                          ELSE apply_policy_action(p[i - 1], h[i].actor, h[i].action)]
  BY <1>2 DEF Replay
<1>4. N \in Nat
  BY DEF N
<1>5. \A i \in 0..N : p[i] = IF i = 0 THEN DefaultPolicy
                             ELSE apply_policy_action(p[i - 1], h[i].actor, h[i].action)
  BY <1>3
<1>6. 0 \in 0..N /\ \A i \in 1..N : i \in 0..N /\ i # 0
  BY <1>4
<1> QED
  BY <1>5, <1>6 DEF p, N

-----------------------------------------------------------------------------
(* Prefixes: what comes later changes no earlier policy.                   *)

LEMMA PrefixElements ==
  ASSUME NEW S, NEW g \in Seq(S), NEW h \in Seq(S), Prefix(g, h)
  PROVE  /\ Len(g) \in Nat /\ Len(h) \in Nat /\ Len(g) <= Len(h)
         /\ \A i \in 1..Len(g) : g[i] = h[i] /\ i \in 1..Len(h)
<1>1. Len(g) \in Nat /\ Len(h) \in Nat /\ Len(g) <= Len(h) /\ g = SubSeq(h, 1, Len(g))
  BY DEF Prefix
<1>2. \A i \in 1..Len(g) : SubSeq(h, 1, Len(g))[i] = h[i] /\ i \in 1..Len(h)
  BY <1>1
<1> QED
  BY <1>1, <1>2

LEMMA PrefixFacts ==
  ASSUME NEW S, NEW g \in Seq(S), NEW h \in Seq(S)
  PROVE  /\ g \o h \in Seq(S)
         /\ Prefix(g, g)
         /\ Prefix(<< >>, g)
         /\ Prefix(g, g \o h)
         /\ \A k \in 0..Len(h) : /\ SubSeq(h, 1, k) \in Seq(S)
                                 /\ Prefix(g \o SubSeq(h, 1, k), g \o h)
  <1>1. g \o h \in Seq(S)
    OBVIOUS
  <1>2. Prefix(g, g)
    BY DEF Prefix
  <1>3. Prefix(<< >>, g)
    BY DEF Prefix
  <1>4. Prefix(g, g \o h)
    BY DEF Prefix
  <1>5. ASSUME NEW k \in 0..Len(h)
        PROVE  /\ SubSeq(h, 1, k) \in Seq(S)
               /\ Prefix(g \o SubSeq(h, 1, k), g \o h)
    <2>1. SubSeq(h, 1, k) \in Seq(S) /\ Len(SubSeq(h, 1, k)) = k
      OBVIOUS
    <2> DEFINE f == g \o SubSeq(h, 1, k)
    <2>2. f \in Seq(S) /\ Len(f) = Len(g) + k /\ Len(f) <= Len(g \o h)
      BY <2>1
    <2>3. \A i \in 1..Len(f) : f[i] = (g \o h)[i]
      BY <2>1, <2>2
    <2> HIDE DEF f
    <2>4. SubSeq(g \o h, 1, Len(f)) = f
      BY <1>1, <2>2, <2>3
    <2> QED
      BY <2>1, <2>2, <2>4 DEF Prefix, f
  <1> QED
    BY <1>1, <1>2, <1>3, <1>4, <1>5

(* What a node appends of a history that extends its own completes it.     *)
LEMMA SuffixCompletes ==
  ASSUME NEW S, NEW g \in Seq(S), NEW h \in Seq(S), Prefix(g, h)
  PROVE  LET s == SubSeq(h, Len(g) + 1, Len(h))
         IN  s \in Seq(S) /\ g \o s = h
  <1> DEFINE s == SubSeq(h, Len(g) + 1, Len(h))
  <1>1. Len(g) <= Len(h) /\ Len(g) \in Nat /\ Len(h) \in Nat
    BY DEF Prefix
  <1>2. s \in Seq(S) /\ Len(s) = Len(h) - Len(g)
    BY <1>1
  <1>3. \A i \in 1..Len(s) : s[i] = h[Len(g) + i]
    BY <1>1, <1>2
  <1>4. \A i \in 1..Len(g) : g[i] = h[i]
    BY <1>1 DEF Prefix
  <1> HIDE DEF s
  <1>5. g \o s \in Seq(S) /\ Len(g \o s) = Len(h)
    BY <1>1, <1>2
  <1>6. \A i \in 1..Len(h) : (g \o s)[i] = h[i]
    BY <1>1, <1>2, <1>3, <1>4
  <1>7. g \o s = h
    <2> DEFINE t == g \o s
    <2>1. t \in Seq(S) /\ Len(t) = Len(h) /\ \A i \in 1..Len(h) : t[i] = h[i]
      BY <1>5, <1>6
    <2> HIDE DEF t
    <2>2. t = h
      BY <2>1
    <2> QED
      BY <2>2 DEF t
  <1> QED
    BY <1>2, <1>7 DEF s

LEMMA PrefixTransitive ==
  ASSUME NEW S, NEW f \in Seq(S), NEW g \in Seq(S), NEW h \in Seq(S),
         Prefix(f, g), Prefix(g, h)
  PROVE  Prefix(f, h)
  <1>1. /\ Len(f) \in Nat /\ Len(g) \in Nat /\ Len(h) \in Nat
        /\ Len(f) <= Len(g) /\ Len(g) <= Len(h)
        /\ \A i \in 1..Len(f) : f[i] = g[i] /\ i \in 1..Len(g)
        /\ \A i \in 1..Len(g) : g[i] = h[i] /\ i \in 1..Len(h)
    BY PrefixElements
  <1>2. SubSeq(h, 1, Len(f)) \in Seq(S) /\ Len(SubSeq(h, 1, Len(f))) = Len(f)
    BY <1>1
  <1>3. \A i \in 1..Len(f) : SubSeq(h, 1, Len(f))[i] = f[i]
    BY <1>1
  <1>4. SubSeq(h, 1, Len(f)) = f
    BY <1>2, <1>3
  <1> QED
    BY <1>1, <1>4 DEF Prefix

LEMMA PoliciesOfPrefix ==
  ASSUME NEW S, NEW g \in Seq(S), NEW h \in Seq(S), Prefix(g, h)
  PROVE  \A i \in 0..Len(g) : Policies(g)[i] = Policies(h)[i]
<1> DEFINE N == Len(g)
           T == {i \in 0..N : Policies(g)[i] = Policies(h)[i]}
<1>1. N \in Nat /\ Len(h) \in Nat /\ \A i \in 1..N : g[i] = h[i] /\ i \in 1..Len(h)
  BY PrefixElements
<1>2. /\ Policies(g)[0] = DefaultPolicy /\ Policies(h)[0] = DefaultPolicy
      /\ \A i \in 1..N :
           Policies(g)[i] = apply_policy_action(Policies(g)[i - 1], g[i].actor, g[i].action)
      /\ \A i \in 1..Len(h) :
           Policies(h)[i] = apply_policy_action(Policies(h)[i - 1], h[i].actor, h[i].action)
  BY <1>1, PoliciesStep
<1> HIDE DEF N
<1>3. 0 \in T
  BY <1>1, <1>2
<1>4. ASSUME NEW n \in 0..N, n \in T, n < N PROVE n + 1 \in T
  <2>1. n + 1 \in 1..N /\ n + 1 \in 0..N /\ (n + 1) - 1 = n
    BY <1>1, <1>4
  <2>2. g[n + 1] = h[n + 1] /\ n + 1 \in 1..Len(h)
    BY <1>1, <2>1
  <2>3. Policies(g)[n] = Policies(h)[n]
    BY <1>4
  <2>4. /\ Policies(g)[n + 1]
             = apply_policy_action(Policies(g)[n], g[n + 1].actor, g[n + 1].action)
        /\ Policies(h)[n + 1]
             = apply_policy_action(Policies(h)[n], h[n + 1].actor, h[n + 1].action)
    BY <1>2, <2>1, <2>2
  <2> QED
    BY <2>1, <2>2, <2>3, <2>4
<1> HIDE DEF T
<1>5. 0..N \subseteq T
  BY <1>1, <1>3, <1>4, UpTo
<1> QED
  BY <1>5 DEF T, N

LEMMA SubSeqIsPrefix ==
  ASSUME NEW S, NEW h \in Seq(S), NEW k \in 0..Len(h)
  PROVE  /\ SubSeq(h, 1, k) \in Seq(S) /\ Len(SubSeq(h, 1, k)) = k
         /\ Prefix(SubSeq(h, 1, k), h)
<1>1. SubSeq(h, 1, k) \in Seq(S) /\ Len(SubSeq(h, 1, k)) = k /\ k <= Len(h)
  OBVIOUS
<1> QED
  BY <1>1 DEF Prefix

(* Every event of a valid history is accepted under the policy before it.  *)
LEMMA ValidSteps ==
  ASSUME NEW S, NEW h \in Seq(S)
  PROVE  ValidHistory(h) <=>
         \A i \in 1..Len(h) : accepts(Policies(h)[i - 1], h[i].actor, h[i].action)
<1>1. ASSUME NEW i \in 1..Len(h)
      PROVE  Policies(SubSeq(h, 1, i - 1))[i - 1] = Policies(h)[i - 1]
  <2>1. Len(h) \in Nat /\ i - 1 \in 0..Len(h) /\ i - 1 \in 0..(i - 1)
    OBVIOUS
  <2>2. /\ SubSeq(h, 1, i - 1) \in Seq(S) /\ Len(SubSeq(h, 1, i - 1)) = i - 1
        /\ Prefix(SubSeq(h, 1, i - 1), h)
    BY <2>1, SubSeqIsPrefix
  <2> DEFINE g == SubSeq(h, 1, i - 1)
  <2> HIDE DEF g
  <2>3. g \in Seq(S) /\ Len(g) = i - 1 /\ Prefix(g, h)
    BY <2>2 DEF g
  <2>4. Policies(g)[i - 1] = Policies(h)[i - 1]
    BY <2>1, <2>3, PoliciesOfPrefix
  <2> QED
    BY <2>4 DEF g
<1> QED
  BY <1>1 DEF ValidHistory

-----------------------------------------------------------------------------
(* What an event makes of a policy.                                        *)

LEMMA DefaultPolicyType ==
  /\ DefaultPolicy \in Policy /\ DefaultPolicy.mode = "open"
  /\ DefaultPolicy.owner = NoOne /\ DefaultPolicy.visibility = "public"
  BY DEF DefaultPolicy, Policy, Visibility

LEMMA ApplyType ==
  ASSUME NEW p \in Policy, NEW e \in PolicyEvent
  PROVE  apply_policy_action(p, e.actor, e.action) \in Policy
<1> DEFINE a == e.action
<1>1. a \in PolicyAction /\ e.actor \in Identity
  BY DEF PolicyEvent
<1> HIDE DEF a
<1>2. CASE a \in [type : {"restrict"}, owner : Identity]
  BY <1>1, <1>2 DEF apply_policy_action, Policy, a
<1>3. CASE a \in [type : {"adopt"}, policy : Policy]
  BY <1>3 DEF apply_policy_action, a
<1>4. CASE a \in [type : {"grant", "revoke"}, role : Role, key : Identity]
  BY <1>4 DEF apply_policy_action, Granted, Policy, a
<1>5. CASE a \in [type : {"transfer_owner"}, key : Identity]
  BY <1>5 DEF apply_policy_action, Policy, a
<1>6. CASE a \in [type : {"set_visibility"}, visibility : Visibility]
  BY <1>6 DEF apply_policy_action, Policy, a
<1> QED
  BY <1>1, <1>2, <1>3, <1>4, <1>5, <1>6 DEF PolicyAction

(* A channel under somebody's control: restricted, and owned.              *)
Controlled(p) == p.mode = "restricted" /\ p.owner \in Identity

LEMMA ApplyControls ==
  ASSUME NEW p \in Policy, NEW e \in PolicyEvent, accepts(p, e.actor, e.action),
         p = DefaultPolicy \/ Controlled(p)
  PROVE  Controlled(apply_policy_action(p, e.actor, e.action))
<1> DEFINE a == e.action
<1>1. a \in PolicyAction /\ e.actor \in Identity
  BY DEF PolicyEvent
<1> HIDE DEF a
<1>2. p.mode = "open" => p.owner \notin Identity
  BY DefaultPolicyType, NoOneOK DEF Controlled
<1>3. p.mode = "restricted" => Controlled(p)
  BY DefaultPolicyType
<1>4. CASE a \in [type : {"restrict"}, owner : Identity]
  BY <1>1, <1>4 DEF apply_policy_action, Policy, Controlled, a
<1>5. CASE a \in [type : {"adopt"}, policy : Policy]
  BY <1>1, <1>5 DEF apply_policy_action, accepts, Controlled, a
<1>6. CASE a \in [type : {"grant", "revoke"}, role : Role, key : Identity]
  <2>1. p.mode = "restricted"
    BY <1>6 DEF accepts, authorize_policy_change, a
  <2>2. Controlled(p)
    BY <1>3, <2>1
  <2> QED
    BY <1>6, <2>2 DEF apply_policy_action, Granted, Policy, Controlled, a
<1>7. CASE a \in [type : {"transfer_owner"}, key : Identity]
  <2>1. p.owner \in Identity
    BY <1>1, <1>7 DEF accepts, a
  <2>2. Controlled(p)
    BY <2>1, DefaultPolicyType, NoOneOK
  <2> QED
    BY <1>7, <2>2 DEF apply_policy_action, Policy, Controlled, a
<1>8. CASE a \in [type : {"set_visibility"}, visibility : Visibility]
  <2>1. p.mode = "restricted"
    BY <1>8 DEF accepts, a
  <2>2. Controlled(p)
    BY <1>3, <2>1
  <2> QED
    BY <1>8, <2>2 DEF apply_policy_action, Policy, Controlled, a
<1> QED
  BY <1>1, <1>4, <1>5, <1>6, <1>7, <1>8 DEF PolicyAction

-----------------------------------------------------------------------------
(* The theorems.                                                           *)

(* derive_policy gives a policy for every history of well-formed events,   *)
(* and for every part of one: it has no case it does not handle.           *)
THEOREM PoliciesType ==
  ASSUME NEW h \in Seq(PolicyEvent)
  PROVE  \A i \in 0..Len(h) : Policies(h)[i] \in Policy
<1> DEFINE N == Len(h)
           T == {i \in 0..N : Policies(h)[i] \in Policy}
<1>1. N \in Nat /\ \A i \in 1..N : h[i] \in PolicyEvent
  OBVIOUS
<1>2. /\ Policies(h)[0] = DefaultPolicy
      /\ \A i \in 1..N :
           Policies(h)[i] = apply_policy_action(Policies(h)[i - 1], h[i].actor, h[i].action)
  BY <1>1, PoliciesStep
<1> HIDE DEF N
<1>3. 0 \in T
  BY <1>1, <1>2, DefaultPolicyType
<1>4. ASSUME NEW n \in 0..N, n \in T, n < N PROVE n + 1 \in T
  <2>1. n + 1 \in 1..N /\ n + 1 \in 0..N /\ (n + 1) - 1 = n
    BY <1>1, <1>4
  <2>2. Policies(h)[n + 1]
          = apply_policy_action(Policies(h)[n], h[n + 1].actor, h[n + 1].action)
    BY <1>2, <2>1
  <2>3. Policies(h)[n] \in Policy /\ h[n + 1] \in PolicyEvent
    BY <1>1, <1>4, <2>1
  <2> QED
    BY <2>1, <2>2, <2>3, ApplyType
<1> HIDE DEF T
<1>5. 0..N \subseteq T
  BY <1>1, <1>3, <1>4, UpTo
<1> QED
  BY <1>5 DEF T, N

(* A channel that has a valid history of at least one event is restricted  *)
(* and has an owner, after that event and after every later one: no grant, *)
(* revocation, transfer or change of visibility opens it again.            *)
THEOREM ValidIsControlled ==
  ASSUME NEW h \in Seq(PolicyEvent), ValidHistory(h)
  PROVE  \A i \in 1..Len(h) : Controlled(Policies(h)[i])
<1> DEFINE N == Len(h)
           T == {i \in 0..N : i > 0 => Controlled(Policies(h)[i])}
<1>1. N \in Nat /\ \A i \in 1..N : h[i] \in PolicyEvent
  OBVIOUS
<1>2. /\ Policies(h)[0] = DefaultPolicy
      /\ \A i \in 1..N :
           Policies(h)[i] = apply_policy_action(Policies(h)[i - 1], h[i].actor, h[i].action)
  BY <1>1, PoliciesStep
<1>3. \A i \in 1..N : accepts(Policies(h)[i - 1], h[i].actor, h[i].action)
  BY ValidSteps
<1>4. \A i \in 0..N : Policies(h)[i] \in Policy
  BY PoliciesType
<1> HIDE DEF N
<1>5. 0 \in T
  BY <1>1
<1>6. ASSUME NEW n \in 0..N, n \in T, n < N PROVE n + 1 \in T
  <2>1. n + 1 \in 1..N /\ n + 1 \in 0..N /\ (n + 1) - 1 = n
    BY <1>1, <1>6
  <2> DEFINE p == Policies(h)[n]
             e == h[n + 1]
  <2>2. /\ Policies(h)[n + 1] = apply_policy_action(p, e.actor, e.action)
        /\ accepts(p, e.actor, e.action)
    BY <1>2, <1>3, <2>1
  <2>3. p \in Policy /\ e \in PolicyEvent
    BY <1>1, <1>4, <2>1
  <2>4. p = DefaultPolicy \/ Controlled(p)
    BY <1>2, <1>6
  <2> HIDE DEF p, e
  <2>5. Controlled(Policies(h)[n + 1])
    BY <2>2, <2>3, <2>4, ApplyControls
  <2> QED
    BY <2>1, <2>5
<1> HIDE DEF T
<1>7. 0..N \subseteq T
  BY <1>1, <1>5, <1>6, UpTo
<1>8. \A i \in 1..N : i \in 0..N /\ i > 0
  BY <1>1
<1> QED
  BY <1>7, <1>8 DEF T, N

LEMMA DerivedPolicy ==
  ASSUME NEW h \in Seq(PolicyEvent), ValidHistory(h)
  PROVE  /\ derive_policy(h) \in Policy
         /\ IF h = << >> THEN derive_policy(h) = DefaultPolicy
            ELSE Controlled(derive_policy(h))
<1>1. Len(h) \in 0..Len(h) /\ (h # << >> => Len(h) \in 1..Len(h))
      /\ (h = << >> => Len(h) = 0)
  OBVIOUS
<1>2. derive_policy(h) \in Policy
  BY <1>1, PoliciesType DEF derive_policy
<1>3. CASE h = << >>
  BY <1>1, <1>2, <1>3, PoliciesStep DEF derive_policy
<1>4. CASE h # << >>
  BY <1>1, <1>2, <1>4, ValidIsControlled DEF derive_policy
<1> QED
  BY <1>3, <1>4
==============================================================================
