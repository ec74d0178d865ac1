--------------------------- MODULE TuiRefreshProofs ---------------------------
(***************************************************************************)
(* TLAPS proofs about the inputs and the refreshes of the terminal client, *)
(* for any channels, any changes of the list and any number of failures.   *)
(***************************************************************************)
EXTENDS TuiRefresh, FiniteSetTheorems, TLAPS

(* App as far as the selection goes.  A mode other than "normal" means     *)
(* that an input is open.                                                  *)
AppFields == {"channels", "selected", "mode", "view", "fingerprint"}

AppShape ==
    /\ AppFields \subseteq DOMAIN app
    /\ app.channels \subseteq Channel
    /\ listed \subseteq Channel

(* InputStays is inductive with the fact that only an open input has a     *)
(* channel.                                                                *)
InputInv ==
    /\ AppShape
    /\ app.mode = "normal" => typed = None
    /\ InputStays

-----------------------------------------------------------------------------
(* The list is sorted: fewer channels come before an earlier one.          *)
LEMMA PositionIncreases ==
  ASSUME NEW list \in SUBSET Channel, NEW c \in list, NEW d \in list, c < d
  PROVE  /\ Position(c, list) \in Nat
         /\ Position(d, list) \in Nat
         /\ Position(c, list) < Position(d, list)
  <1> DEFINE below(x) == {y \in list : y < x}
  <1>1. list \subseteq Nat /\ IsFiniteSet(list)
    BY TuiConstantsOK, FS_Subset DEF TuiConstantsOK
  <1>2. IsFiniteSet(below(d))
    BY <1>1, FS_Subset
  <1>3. below(c) \subseteq below(d)
    <2> SUFFICES ASSUME NEW y \in list, y < c PROVE y < d
      OBVIOUS
    <2> QED
      BY <1>1
  <1>4. /\ IsFiniteSet(below(c))
        /\ Cardinality(below(c)) <= Cardinality(below(d))
        /\ Cardinality(below(d)) = Cardinality(below(c)) => below(d) = below(c)
    BY <1>2, <1>3, FS_Subset
  <1>5. below(c) # below(d)
    <2>1. c \in below(d)
      OBVIOUS
    <2>2. c \notin below(c)
      BY <1>1
    <2> QED
      BY <2>1, <2>2
  <1>6. Cardinality(below(c)) \in Nat /\ Cardinality(below(d)) \in Nat
    BY <1>2, <1>4, FS_CardinalityType
  <1>7. Cardinality(below(c)) < Cardinality(below(d))
    <2> HIDE DEF below
    <2> QED
      BY <1>4, <1>5, <1>6
  <1> QED
    BY <1>6, <1>7 DEF Position

(* The index of a channel selects it.                                      *)
LEMMA PositionSelects ==
  ASSUME NEW list \in SUBSET Channel, NEW c \in list, NEW a,
         a.channels = list, a.selected = Position(c, list)
  PROVE  Selected(a) = c
  <1>1. list \subseteq Nat /\ IsFiniteSet(list)
    BY TuiConstantsOK, FS_Subset DEF TuiConstantsOK
  <1>2. Position(c, list) < Cardinality(list)
    <2> DEFINE below == {y \in list : y < c}
    <2>1. /\ IsFiniteSet(below)
          /\ Cardinality(below) <= Cardinality(list)
          /\ Cardinality(list) = Cardinality(below) => list = below
      BY <1>1, FS_Subset
    <2>2. c \notin below
      BY <1>1
    <2>3. Cardinality(below) \in Nat /\ Cardinality(list) \in Nat
      BY <1>1, <2>1, FS_CardinalityType
    <2>4. Cardinality(below) < Cardinality(list)
      <3> HIDE DEF below
      <3> QED
        BY <2>1, <2>2, <2>3
    <2> QED
      BY <2>4 DEF Position
  <1>3. ASSUME NEW d \in list, Position(d, list) = Position(c, list)
        PROVE  d = c
    <2>1. c \in Nat /\ d \in Nat
      BY <1>1
    <2>2. CASE c < d
      BY <1>3, <2>2, PositionIncreases
    <2>3. CASE d < c
      BY <1>3, <2>3, PositionIncreases
    <2> QED
      BY <2>1, <2>2, <2>3
  <1>4. (CHOOSE d \in list : Position(d, list) = Position(c, list)) = c
    BY <1>3
  <1> QED
    BY <1>2, <1>4 DEF Selected

-----------------------------------------------------------------------------
(* What Selected looks at.                                                 *)
LEMMA SelectedOf ==
  ASSUME NEW a, NEW b, a.channels = b.channels, a.selected = b.selected
  PROVE  Selected(a) = Selected(b)
  BY DEF Selected

(* A refresh leaves the selection to the handler that asks for it.         *)
LEMMA BeginKeeps ==
  ASSUME NEW a, AppFields \subseteq DOMAIN a, NEW fatal, Begin(a, fatal)
  PROVE  /\ AppFields \subseteq DOMAIN app'
         /\ app'.channels = a.channels
         /\ app'.selected = a.selected
         /\ app'.mode = a.mode
         /\ typed' = Typed
  <1>1. CASE Selected(a) = None
    <2>1. app' = [a EXCEPT !.view = [@ EXCEPT !["messages"] = <<None>>,
                                             !["role"] = <<None>>]]
      BY <1>1 DEF Begin, Refresh
    <2>2. typed' = Typed
      BY DEF Begin
    <2> HIDE DEF Typed
    <2> QED
      BY <2>1, <2>2 DEF AppFields
  <1>2. CASE Selected(a) # None
    BY <1>2 DEF Begin, Refresh
  <1> QED
    BY <1>1, <1>2

(* A handler that leaves no input open.                                    *)
LEMMA ClosedKeeps ==
  ASSUME AppFields \subseteq DOMAIN app', app'.channels \subseteq Channel,
         listed' \subseteq Channel, typed' = None
  PROVE  InputInv'
  BY DEF InputInv, AppShape, InputStays

(* The list is read again while an input may be open.                      *)
LEMMA FollowKeeps ==
  ASSUME InputInv, NEW otherwise, Begin(Follow(app, listed, otherwise), FALSE),
         UNCHANGED listed
  PROVE  InputInv'
  <1> DEFINE a == Follow(app, listed, otherwise)
  <1>1. AppFields \subseteq DOMAIN app
    BY DEF InputInv, AppShape
  <1>2. /\ AppFields \subseteq DOMAIN a
        /\ a.channels = listed
        /\ a.selected = IF Selected(app) \in listed
                        THEN Position(Selected(app), listed) ELSE otherwise
        /\ a.mode = app.mode
    BY <1>1 DEF Follow, AppFields
  <1>3. /\ AppFields \subseteq DOMAIN app'
        /\ app'.channels = listed
        /\ app'.selected = a.selected
        /\ app'.mode = app.mode
        /\ typed' = Typed
    <2> HIDE DEF a
    <2> QED
      BY <1>2, BeginKeeps DEF a
  <1>4. AppShape'
    BY <1>3 DEF InputInv, AppShape
  <1>5. app'.mode = "normal" => typed' = None
    BY <1>3 DEF Typed
  <1>6. ASSUME typed' # None PROVE Selected(app)' = typed'
    <2>1. app.mode # "normal" /\ typed' = typed /\ typed \in listed
      BY <1>3, <1>6 DEF Typed
    <2>2. Selected(app) = typed
      BY <1>6, <2>1 DEF InputInv, InputStays
    <2>3. app'.selected = Position(typed, listed)
      BY <1>2, <1>3, <2>1, <2>2
    <2>4. listed \in SUBSET Channel
      BY DEF InputInv, AppShape
    <2>5. Selected(app') = typed
      BY <1>3, <2>1, <2>3, <2>4, PositionSelects
    <2> QED
      BY <2>1, <2>5 DEF Selected
  <1> QED
    BY <1>4, <1>5, <1>6 DEF InputInv, InputStays

-----------------------------------------------------------------------------
LEMMA InputInitially == Init => InputInv
  BY DEF Init, InputInv, AppShape, AppFields, InputStays

(* Steps that touch neither the selection nor the inputs; the list on disk *)
(* may change.                                                             *)
LEMMA UntouchedKeeps ==
  ASSUME InputInv, AppFields \subseteq DOMAIN app',
         app'.channels = app.channels, app'.selected = app.selected,
         app'.mode = app.mode, typed' = typed, listed' \subseteq Channel
  PROVE  InputInv'
  <1>1. Selected(app') = Selected(app)
    BY SelectedOf
  <1>2. Selected(app)' = Selected(app')
    BY DEF Selected
  <1> QED
    BY <1>1, <1>2 DEF InputInv, AppShape, InputStays

LEMMA InputStep == InputInv /\ [Next]_vars => InputInv'
  <1> SUFFICES ASSUME InputInv, [Next]_vars PROVE InputInv'
    OBVIOUS
  <1>0. /\ AppFields \subseteq DOMAIN app
        /\ app.channels \subseteq Channel
        /\ listed \subseteq Channel
    BY DEF InputInv, AppShape
  <1>1. ASSUME NEW p \in Part, Read(p) PROVE InputInv'
    <2>1. app' = [app EXCEPT !.view[p] = Content(Selected(app))[p]]
      BY <1>1 DEF Read
    <2>2. typed' = typed /\ listed' = listed
      BY <1>1 DEF Read, files
    <2> QED
      BY <1>0, <2>1, <2>2, UntouchedKeeps DEF AppFields
  <1>2. CASE TakeFingerprint
    <2>1. app' = [app EXCEPT !.fingerprint = local_state_fingerprint]
      BY <1>2 DEF TakeFingerprint
    <2>2. typed' = typed /\ listed' = listed
      BY <1>2 DEF TakeFingerprint, files
    <2> QED
      BY <1>0, <2>1, <2>2, UntouchedKeeps DEF AppFields
  <1>3. CASE Fail \/ LoseEvent \/ Quit \/ SendEvent
    <2>1. app' = app /\ typed' = typed /\ listed' = listed
      BY <1>3 DEF Fail, LoseEvent, Quit, SendEvent, files
    <2> QED
      BY <1>0, <2>1, UntouchedKeeps
  <1>4. CASE ApplyEvent
    <2>1. listed' = listed
      BY <1>4 DEF ApplyEvent, files
    <2>2. CASE Begin(Follow(app, listed, app.selected), FALSE)
      BY <2>1, <2>2, FollowKeeps
    <2>3. CASE UNCHANGED <<app, step, typed>>
      BY <1>0, <2>1, <2>3, UntouchedKeeps
    <2> QED
      BY <1>4, <2>2, <2>3 DEF ApplyEvent
  <1>5. CASE Poll
    <2>1. listed' = listed
      BY <1>5 DEF Poll, files
    <2>2. Begin(Follow(app, listed, Clamp(app.selected, listed)), FALSE)
      BY <1>5 DEF Poll
    <2> QED
      BY <2>1, <2>2, FollowKeeps
  <1>6. CASE Up \/ Down \/ ToggleAudit \/ ManualRefresh \/ Post
    <2>1. PICK a : /\ AppFields \subseteq DOMAIN a
                   /\ a.channels \subseteq Channel
                   /\ a.mode = "normal"
                   /\ \E fatal \in BOOLEAN : Begin(a, fatal)
      <3>1. CASE Up
        <4> DEFINE a == [app EXCEPT !.selected = @ - 1]
        <4>1. Begin(a, TRUE) /\ app.mode = "normal"
          BY <3>1 DEF Up, Key
        <4>2. AppFields \subseteq DOMAIN a /\ a.channels = app.channels /\ a.mode = app.mode
          BY <1>0 DEF AppFields
        <4> QED
          BY <1>0, <4>1, <4>2
      <3>2. CASE Down
        <4> DEFINE a == [app EXCEPT !.selected = @ + 1]
        <4>1. Begin(a, TRUE) /\ app.mode = "normal"
          BY <3>2 DEF Down, Key
        <4>2. AppFields \subseteq DOMAIN a /\ a.channels = app.channels /\ a.mode = app.mode
          BY <1>0 DEF AppFields
        <4> QED
          BY <1>0, <4>1, <4>2
      <3>3. CASE ToggleAudit
        BY <1>0, <3>3 DEF ToggleAudit, Key
      <3>4. CASE ManualRefresh
        <4> DEFINE a == [app EXCEPT !.channels = listed, !.selected = Clamp(@, listed)]
        <4>1. Begin(a, TRUE) /\ app.mode = "normal"
          BY <3>4 DEF ManualRefresh, Key
        <4>2. AppFields \subseteq DOMAIN a /\ a.channels = listed /\ a.mode = app.mode
          BY <1>0 DEF AppFields
        <4> QED
          BY <1>0, <4>1, <4>2
      <3>5. CASE Post
        <4> DEFINE a == [app EXCEPT !.mode = "normal"]
        <4>1. Begin(a, FALSE)
          BY <3>5 DEF Post
        <4>2. AppFields \subseteq DOMAIN a /\ a.channels = app.channels /\ a.mode = "normal"
          BY <1>0 DEF AppFields
        <4> QED
          BY <1>0, <4>1, <4>2
      <3> QED
        BY <1>6, <3>1, <3>2, <3>3, <3>4, <3>5
    <2>2. listed' = listed
      BY <1>6 DEF Up, Down, ToggleAudit, ManualRefresh, Post, files
    <2>3. /\ AppFields \subseteq DOMAIN app'
          /\ app'.channels = a.channels
          /\ app'.mode = "normal"
          /\ typed' = Typed
      BY <2>1, BeginKeeps
    <2>4. typed' = None
      BY <2>3 DEF Typed
    <2> QED
      BY <1>0, <2>1, <2>2, <2>3, <2>4, ClosedKeeps
  <1>7. CASE OpenInput
    <2>1. PICK mode \in {"post", "peer"} : app' = [app EXCEPT !.mode = mode]
      BY <1>7 DEF OpenInput
    <2>2. /\ AppFields \subseteq DOMAIN app'
          /\ app'.channels = app.channels
          /\ app'.selected = app.selected
          /\ app'.mode # "normal"
      BY <1>0, <2>1 DEF AppFields
    <2>3. typed' = Selected(app) /\ listed' = listed
      BY <1>7 DEF OpenInput, files
    <2>4. Selected(app') = Selected(app)
      BY <2>2, SelectedOf
    <2>5. Selected(app)' = Selected(app')
      BY DEF Selected
    <2> QED
      BY <1>0, <2>2, <2>3, <2>4, <2>5 DEF InputInv, AppShape, InputStays
  <1>8. CASE CloseInput \/ SyncWith
    <2>1. app' = [app EXCEPT !.mode = "normal"] /\ typed' = None
      BY <1>8 DEF CloseInput, SyncWith
    <2>2. listed' = listed
      BY <1>8 DEF CloseInput, SyncWith, files
    <2>3. AppFields \subseteq DOMAIN app' /\ app'.channels = app.channels
      BY <1>0, <2>1 DEF AppFields
    <2> QED
      BY <1>0, <2>1, <2>2, <2>3, ClosedKeeps
  <1>9. ASSUME NEW c \in Channel, NEW f \in File, Write(c, f) PROVE InputInv'
    <2>1. app' = app /\ typed' = typed
      BY <1>9 DEF Write
    <2>2. listed' \subseteq Channel
      BY <1>0, <1>9 DEF Write
    <2> QED
      BY <1>0, <2>1, <2>2, UntouchedKeeps
  <1>10. ASSUME NEW c \in Channel, KeyArrives(c) PROVE InputInv'
    <2>1. app' = app /\ typed' = typed /\ listed' = listed
      BY <1>10 DEF KeyArrives
    <2> QED
      BY <1>0, <2>1, UntouchedKeeps
  <1>11. CASE UNCHANGED vars
    BY <1>0, <1>11, UntouchedKeeps DEF vars
  <1> QED
    BY <1>1, <1>2, <1>3, <1>4, <1>5, <1>6, <1>7, <1>8, <1>9, <1>10, <1>11
    DEF Next, Refreshing, Handle, Others

(* Events, polls and keys move the selection and rebuild the list while a  *)
(* message or a peer is typed (apply_auto_sync,                            *)
(* refresh_if_local_state_changed); the input stays with the channel it    *)
(* was opened for as long as that channel is listed.                       *)
THEOREM InputsStay == Spec => []InputStays
  <1>1. InputInv => InputStays
    BY DEF InputInv
  <1> QED
    BY <1>1, InputInitially, InputStep, PTL DEF Spec

-----------------------------------------------------------------------------
(* Types.                                                                  *)

(* Every index below the length of the list is that of a channel: as many  *)
(* positions as channels, and no two channels at the same.                 *)
LEMMA PositionExists ==
  ASSUME NEW list \in SUBSET Channel, NEW i \in Nat, i < Cardinality(list)
  PROVE  \E c \in list : Position(c, list) = i
  <1> DEFINE N == Cardinality(list)
             f == [c \in list |-> Position(c, list)]
  <1>1. list \subseteq Nat /\ IsFiniteSet(list) /\ N \in Nat
    BY TuiConstantsOK, FS_Subset, FS_CardinalityType DEF TuiConstantsOK
  <1>2. ASSUME NEW c \in list
        PROVE  Position(c, list) \in 0..(N - 1)
    <2> DEFINE below == {y \in list : y < c}
    <2>1. /\ IsFiniteSet(below) /\ Cardinality(below) <= N
          /\ N = Cardinality(below) => list = below
      BY <1>1, FS_Subset
    <2>2. c \notin below
      BY <1>1
    <2>3. Cardinality(below) \in Nat
      BY <2>1, FS_CardinalityType
    <2>4. Position(c, list) = Cardinality(below)
      BY DEF Position
    <2> HIDE DEF below, N
    <2> QED
      BY <1>1, <2>1, <2>2, <2>3, <2>4
  <1>3. ASSUME NEW c \in list, NEW d \in list, Position(c, list) = Position(d, list)
        PROVE  c = d
    <2>1. c \in Nat /\ d \in Nat
      BY <1>1
    <2>2. CASE c < d
      BY <1>3, <2>2, PositionIncreases
    <2>3. CASE d < c
      BY <1>3, <2>3, PositionIncreases
    <2> QED
      BY <2>1, <2>2, <2>3
  <1>4. IsFiniteSet(0..(N - 1)) /\ Cardinality(0..(N - 1)) = N
    <2> HIDE DEF N
    <2>1. N \in Nat /\ 0 \in Int /\ N - 1 \in Int
      BY <1>1
    <2> QED
      BY <2>1, FS_Interval
  <1>5. f \in Injection(list, 0..(N - 1))
    BY <1>2, <1>3 DEF Injection, IsInjective
  <1>6. f \in Surjection(list, 0..(N - 1))
    <2> HIDE DEF f
    <2> QED
      BY <1>4, <1>5, FS_Injection
  <1>7. i \in 0..(N - 1)
    BY <1>1
  <1> QED
    BY <1>6, <1>7 DEF Surjection

(* Something is selected exactly if the index is in the list.              *)
LEMMA SelectedChannel ==
  ASSUME NEW a, a.channels \subseteq Channel, a.selected \in Nat
  PROVE  Selected(a) \in a.channels \cup {None}
  <1>1. CASE a.selected < Cardinality(a.channels)
    <2>1. \E c \in a.channels : Position(c, a.channels) = a.selected
      BY <1>1, PositionExists
    <2> QED
      BY <1>1, <2>1 DEF Selected
  <1>2. CASE ~(a.selected < Cardinality(a.channels))
    BY <1>2 DEF Selected
  <1> QED
    BY <1>1, <1>2

Index == {0} \cup 1..(Cardinality(Channel) - 1)
Mode == {"normal", "post", "peer"}
Step == [at : Part \cup {"idle", "fingerprint", "quit"}, fatal : BOOLEAN]

(* The index stays below the number of channels.                           *)
LEMMA IndexIn ==
  ASSUME NEW list \in SUBSET Channel
  PROVE  /\ \A i \in Nat : i < Cardinality(list) => i \in Index
         /\ \A c \in list : Position(c, list) \in Index
         /\ \A i \in Nat : Clamp(i, list) \in Index
         /\ Index \subseteq Nat
  <1>1. /\ IsFiniteSet(list) /\ Cardinality(list) \in Nat /\ Cardinality(Channel) \in Nat
        /\ Cardinality(list) <= Cardinality(Channel)
        /\ list # {} => Cardinality(list) # 0
    BY TuiConstantsOK, FS_Subset, FS_CardinalityType, FS_EmptySet DEF TuiConstantsOK
  <1>2. \A i \in Nat : i < Cardinality(list) => i \in Index
    BY <1>1 DEF Index
  <1>3. ASSUME NEW c \in list PROVE Position(c, list) \in Index
    <2> DEFINE below == {y \in list : y < c}
    <2>1. /\ IsFiniteSet(below) /\ Cardinality(below) <= Cardinality(list)
          /\ Cardinality(list) = Cardinality(below) => list = below
      BY <1>1, FS_Subset
    <2>2. c \notin below
      BY TuiConstantsOK DEF TuiConstantsOK
    <2>3. Cardinality(below) \in Nat
      BY <2>1, FS_CardinalityType
    <2>4. Position(c, list) = Cardinality(below)
      BY DEF Position
    <2> HIDE DEF below
    <2>5. Cardinality(below) < Cardinality(list)
      BY <1>1, <2>1, <2>2, <2>3
    <2> QED
      BY <1>2, <2>3, <2>4, <2>5
  <1>4. \A i \in Nat : Clamp(i, list) \in Index
    BY <1>1, <1>2 DEF Clamp, Index
  <1> QED
    BY <1>1, <1>2, <1>3, <1>4 DEF Index

DiskOK == writes \in 0..MaxWrites /\ disk \in [Channel -> [File -> 0..writes]]

AppOK(a) ==
    /\ AppFields \subseteq DOMAIN a
    /\ a.channels \subseteq Channel /\ a.selected \in Index /\ a.mode \in Mode
    /\ DOMAIN a.view = Part

TypesInv ==
    /\ DiskOK
    /\ listed \cup sealed \subseteq Channel
    /\ event \in {"none", "received", "nothing"}
    /\ AppOK(app)
    /\ step \in Step
    /\ typed \in Channel \cup {None}
    /\ faults \in 0..MaxFaults

(* The App changes and reading begins.                                     *)
LEMMA BeginTypes ==
  ASSUME TypesInv, NEW a, AppOK(a), NEW fatal \in BOOLEAN, Begin(a, fatal)
  PROVE  AppOK(app') /\ step' \in Step /\ typed' \in Channel \cup {None}
  <1>1. /\ AppFields \subseteq DOMAIN app' /\ app'.channels = a.channels
        /\ app'.selected = a.selected /\ app'.mode = a.mode /\ typed' = Typed
    BY BeginKeeps DEF AppOK
  <1>2. DOMAIN app'.view = DOMAIN a.view /\ step' \in Step
    <2>1. CASE Selected(a) = None
      <3>1. /\ app' = [a EXCEPT !.view = [@ EXCEPT !["messages"] = <<None>>,
                                                  !["role"] = <<None>>]]
            /\ step' = [at |-> "fingerprint", fatal |-> fatal]
        BY <2>1 DEF Begin, Refresh
      <3> QED
        BY <3>1 DEF AppOK, AppFields, Step
    <2>2. CASE Selected(a) # None
      <3>1. app' = a /\ step' = [at |-> "messages", fatal |-> fatal]
        BY <2>2 DEF Begin, Refresh
      <3> QED
        BY <3>1 DEF Step, Part
    <2> QED
      BY <2>1, <2>2
  <1>3. AppOK(app')
    BY <1>1, <1>2 DEF AppOK
  <1>4. app.selected \in Nat /\ app.channels \subseteq Channel
    BY IndexIn DEF TypesInv, AppOK
  <1>5. Selected(app) \in Channel \cup {None}
    BY <1>4, SelectedChannel
  <1>6. typed' \in Channel \cup {None}
    BY <1>1, <1>5 DEF Typed, TypesInv
  <1> QED
    BY <1>2, <1>3, <1>6

LEMMA FollowTypes ==
  ASSUME TypesInv, NEW i \in Index
  PROVE  AppOK(Follow(app, listed, i))
  <1> DEFINE a == Follow(app, listed, i)
  <1>1. AppOK(app) /\ listed \in SUBSET Channel
    BY DEF TypesInv
  <1>2. /\ AppFields \subseteq DOMAIN a /\ a.channels = listed
        /\ a.selected = IF Selected(app) \in listed
                        THEN Position(Selected(app), listed) ELSE i
        /\ a.mode = app.mode /\ a.view = app.view
    BY <1>1 DEF Follow, AppOK, AppFields
  <1>3. a.selected \in Index
    BY <1>1, <1>2, IndexIn
  <1> HIDE DEF a
  <1>4. AppOK(a)
    BY <1>1, <1>2, <1>3 DEF AppOK
  <1> QED
    BY <1>4 DEF a

LEMMA ChangedTypes ==
  ASSUME DiskOK, NEW c, NEW f, disk' = Changed(c, f), writes < MaxWrites, writes' = writes + 1
  PROVE  DiskOK'
  <1>1. writes \in Nat /\ MaxWrites \in Nat /\ writes' \in 0..MaxWrites
    BY TuiConstantsOK DEF DiskOK, TuiConstantsOK
  <1>2. disk' = [disk EXCEPT ![c][f] = @ + 1]
    BY DEF Changed
  <1>3. ASSUME NEW d \in Channel PROVE disk'[d] \in [File -> 0..writes']
    <2>1. disk[d] \in [File -> 0..writes]
      BY DEF DiskOK
    <2>2. disk'[d] = IF d = c THEN [disk[d] EXCEPT ![f] = @ + 1] ELSE disk[d]
      BY <1>2 DEF DiskOK
    <2>3. \A g \in File : disk[d][g] \in 0..writes /\ disk[d][g] + 1 \in 0..writes'
      BY <1>1, <2>1
    <2>4. 0..writes \subseteq 0..writes'
      BY <1>1
    <2> QED
      BY <2>1, <2>2, <2>3, <2>4
  <1>4. disk' = [d \in Channel |-> disk'[d]]
    BY <1>2 DEF DiskOK
  <1> QED
    BY <1>1, <1>3, <1>4 DEF DiskOK

LEMMA TypesInitially == Init => TypesInv
  <1> SUFFICES ASSUME Init PROVE TypesInv
    OBVIOUS
  <1>1. AppOK(app) /\ step \in Step
    BY DEF Init, AppOK, AppFields, Index, Mode, Step, Part
  <1>2. DiskOK /\ faults \in 0..MaxFaults
    BY TuiConstantsOK DEF Init, DiskOK, TuiConstantsOK
  <1> QED
    BY <1>1, <1>2 DEF Init, TypesInv

LEMMA TypesStep == TypesInv /\ [Next]_vars => TypesInv'
  <1> SUFFICES ASSUME TypesInv, [Next]_vars PROVE TypesInv'
    OBVIOUS
  <1>0. /\ DiskOK /\ AppOK(app) /\ step \in Step /\ listed \in SUBSET Channel
        /\ app.selected \in Nat /\ app.channels \in SUBSET Channel
    BY IndexIn DEF TypesInv, AppOK
  <1>1. UNCHANGED files => DiskOK' /\ listed' \cup sealed' \subseteq Channel
    BY DEF files, TypesInv, DiskOK
  <1>2. UNCHANGED rest => faults' \in 0..MaxFaults
    BY DEF rest, TypesInv
  <1>3. ASSUME NEW p \in Part, Read(p) PROVE TypesInv'
    <2>1. /\ app' = [app EXCEPT !.view[p] = Content(Selected(app))[p]]
          /\ step' = [step EXCEPT !.at = After[p]]
          /\ UNCHANGED <<files, event, typed, rest>>
      BY <1>3 DEF Read
    <2>2. AppOK(app')
      BY <1>0, <2>1 DEF AppOK, AppFields
    <2>3. After[p] \in Part \cup {"fingerprint"}
      BY DEF After, Part
    <2>4. step' \in Step
      BY <1>0, <2>1, <2>3 DEF Step
    <2> QED
      BY <1>1, <1>2, <2>1, <2>2, <2>4 DEF TypesInv
  <1>4. CASE TakeFingerprint
    <2>1. /\ app' = [app EXCEPT !.fingerprint = local_state_fingerprint]
          /\ step' = [step EXCEPT !.at = "idle"]
          /\ UNCHANGED <<files, event, typed, faults>>
      BY <1>4 DEF TakeFingerprint
    <2>2. AppOK(app')
      BY <1>0, <2>1 DEF AppOK, AppFields
    <2>3. step' \in Step
      BY <1>0, <2>1 DEF Step
    <2> QED
      BY <1>1, <2>1, <2>2, <2>3 DEF TypesInv
  <1>5. CASE Fail
    <2>1. /\ faults' = faults \/ (faults < MaxFaults /\ faults' = faults + 1)
          /\ step' = [step EXCEPT !.at = IF step.fatal THEN "quit" ELSE "idle"]
          /\ UNCHANGED <<files, event, app, typed>>
      BY <1>5 DEF Fail
    <2>2. step' \in Step
      BY <1>0, <2>1 DEF Step
    <2>3. faults' \in 0..MaxFaults
      BY <2>1, TuiConstantsOK DEF TypesInv, TuiConstantsOK
    <2> QED
      BY <1>0, <1>1, <2>1, <2>2, <2>3 DEF TypesInv
  <1>6. CASE ApplyEvent
    <2>1. event' = "none" /\ UNCHANGED <<files, rest>>
      BY <1>6 DEF ApplyEvent
    <2>2. CASE Begin(Follow(app, listed, app.selected), FALSE)
      <3> DEFINE a == Follow(app, listed, app.selected)
      <3>1. AppOK(a)
        BY <1>0, FollowTypes DEF AppOK
      <3> HIDE DEF a
      <3>2. AppOK(app') /\ step' \in Step /\ typed' \in Channel \cup {None}
        BY <2>2, <3>1, BeginTypes DEF a
      <3> QED
        BY <1>1, <1>2, <2>1, <3>2 DEF TypesInv
    <2>3. CASE UNCHANGED <<app, step, typed>>
      BY <1>1, <1>2, <2>1, <2>3 DEF TypesInv
    <2> QED
      BY <1>6, <2>2, <2>3 DEF ApplyEvent
  <1>7. CASE LoseEvent
    <2>1. /\ event' = "none" /\ faults < MaxFaults /\ faults' = faults + 1
          /\ UNCHANGED <<files, app, step, typed>>
      BY <1>7 DEF LoseEvent
    <2>2. faults' \in 0..MaxFaults
      BY <2>1, TuiConstantsOK DEF TypesInv, TuiConstantsOK
    <2> QED
      BY <1>1, <2>1, <2>2 DEF TypesInv
  <1>8. ASSUME NEW a, AppOK(a), NEW fatal \in BOOLEAN, Begin(a, fatal),
               UNCHANGED <<files, event, rest>>
        PROVE  TypesInv'
    <2>1. AppOK(app') /\ step' \in Step /\ typed' \in Channel \cup {None}
      BY <1>8, BeginTypes
    <2> QED
      BY <1>1, <1>2, <1>8, <2>1 DEF TypesInv
  <1>9. CASE Poll
    <2> DEFINE i == Clamp(app.selected, listed)
               a == Follow(app, listed, i)
    <2>1. i \in Index
      BY <1>0, IndexIn
    <2> HIDE DEF i
    <2>2. AppOK(a)
      BY <2>1, FollowTypes
    <2>3. Begin(a, FALSE) /\ UNCHANGED <<files, event, rest>>
      BY <1>9 DEF Poll, i
    <2> HIDE DEF a
    <2> QED
      BY <1>8, <2>2, <2>3
  <1>10. CASE Up
    <2> DEFINE a == [app EXCEPT !.selected = app.selected - 1]
    <2>1. app.selected > 0 /\ Begin(a, TRUE) /\ UNCHANGED <<files, event, rest>>
      BY <1>10 DEF Up
    <2>2. app.selected - 1 \in Index
      <3>1. Cardinality(Channel) \in Nat
        BY TuiConstantsOK, FS_CardinalityType DEF TuiConstantsOK
      <3> QED
        BY <1>0, <2>1, <3>1 DEF AppOK, Index
    <2>3. AppOK(a)
      BY <1>0, <2>2 DEF AppOK, AppFields
    <2> HIDE DEF a
    <2> QED
      BY <1>8, <2>1, <2>3
  <1>11. CASE Down
    <2> DEFINE a == [app EXCEPT !.selected = app.selected + 1]
    <2>1. /\ app.selected + 1 < Cardinality(app.channels) /\ Begin(a, TRUE)
          /\ UNCHANGED <<files, event, rest>>
      BY <1>11 DEF Down
    <2>2. app.selected + 1 \in Index
      BY <1>0, <2>1, IndexIn
    <2>3. AppOK(a)
      BY <1>0, <2>2 DEF AppOK, AppFields
    <2> HIDE DEF a
    <2> QED
      BY <1>8, <2>1, <2>3
  <1>12. CASE ToggleAudit
    BY <1>0, <1>8, <1>12 DEF ToggleAudit
  <1>13. CASE ManualRefresh
    <2> DEFINE i == Clamp(app.selected, listed)
               a == [app EXCEPT !.channels = listed, !.selected = i]
    <2>1. Begin(a, TRUE) /\ UNCHANGED <<files, event, rest>>
      BY <1>13 DEF ManualRefresh
    <2>2. i \in Index
      BY <1>0, IndexIn
    <2> HIDE DEF i
    <2>3. AppOK(a)
      BY <1>0, <2>2 DEF AppOK, AppFields
    <2> HIDE DEF a
    <2> QED
      BY <1>8, <2>1, <2>3
  <1>14. CASE Post
    <2> DEFINE a == [app EXCEPT !.mode = "normal"]
    <2>1. /\ writes < MaxWrites /\ disk' = Changed(Selected(app), "log")
          /\ writes' = writes + 1 /\ Begin(a, FALSE)
          /\ UNCHANGED <<listed, sealed, event, rest>>
      BY <1>14 DEF Post
    <2>2. AppOK(a)
      BY <1>0 DEF AppOK, AppFields, Mode
    <2> HIDE DEF a
    <2>3. AppOK(app') /\ step' \in Step /\ typed' \in Channel \cup {None}
      BY <2>1, <2>2, BeginTypes
    <2>4. DiskOK'
      BY <1>0, <2>1, ChangedTypes
    <2> QED
      BY <1>2, <2>1, <2>3, <2>4 DEF TypesInv
  <1>15. ASSUME NEW mode \in Mode, app' = [app EXCEPT !.mode = mode],
                typed' \in Channel \cup {None}, step' \in Step,
                UNCHANGED <<files, event, rest>>
         PROVE  TypesInv'
    <2>1. AppOK(app')
      BY <1>0, <1>15 DEF AppOK, AppFields
    <2> QED
      BY <1>1, <1>2, <1>15, <2>1 DEF TypesInv
  <1>16. CASE OpenInput
    <2>1. PICK mode \in {"post", "peer"} : app' = [app EXCEPT !.mode = mode]
      BY <1>16 DEF OpenInput
    <2>2. typed' = Selected(app) /\ step' = step /\ UNCHANGED <<files, event, rest>>
      BY <1>16 DEF OpenInput
    <2>3. Selected(app) \in Channel \cup {None}
      BY <1>0, SelectedChannel
    <2> QED
      BY <1>0, <1>15, <2>1, <2>2, <2>3 DEF Mode
  <1>17. CASE CloseInput
    BY <1>0, <1>15, <1>17 DEF CloseInput, Mode
  <1>18. CASE SyncWith
    <2>1. step' \in Step
      BY <1>0, <1>18 DEF SyncWith, Step
    <2> QED
      BY <1>15, <1>18, <2>1 DEF SyncWith, Mode
  <1>19. CASE Quit
    <2>1. step' \in Step
      BY <1>0, <1>19 DEF Quit, Step
    <2> QED
      BY <1>1, <1>2, <1>19, <2>1 DEF Quit, TypesInv
  <1>20. ASSUME NEW c \in Channel, NEW f \in File, Write(c, f) PROVE TypesInv'
    <2>1. /\ writes < MaxWrites /\ disk' = Changed(c, f) /\ writes' = writes + 1
          /\ UNCHANGED <<event, app, step, typed, rest>>
      BY <1>20 DEF Write
    <2>2. listed' \cup sealed' \subseteq Channel
      BY <1>20 DEF Write, TypesInv
    <2>3. DiskOK'
      BY <1>0, <2>1, ChangedTypes
    <2> QED
      BY <1>2, <2>1, <2>2, <2>3 DEF TypesInv
  <1>21. ASSUME NEW c \in Channel, KeyArrives(c) PROVE TypesInv'
    BY <1>2, <1>21 DEF KeyArrives, TypesInv, DiskOK
  <1>22. CASE SendEvent
    BY <1>1, <1>2, <1>22 DEF SendEvent, TypesInv
  <1>23. CASE UNCHANGED vars
    <2>1. UNCHANGED <<files, rest, event, app, step, typed>>
      BY <1>23 DEF vars, files, rest
    <2> QED
      BY <1>1, <1>2, <2>1 DEF TypesInv
  <1> QED
    BY <1>3, <1>4, <1>5, <1>6, <1>7, <1>9, <1>10, <1>11, <1>12, <1>13, <1>14, <1>16,
       <1>17, <1>18, <1>19, <1>20, <1>21, <1>22, <1>23
    DEF Next, Refreshing, Handle, Others

(* The index of the selected channel stays inside the list of channels     *)
(* there are, whatever appears in the list or leaves it between two reads, *)
(* and an input is opened for a channel.                                   *)
THEOREM TuiTypes == Spec => []TypeOK
  <1>1. TypesInv => TypeOK
    <2> SUFFICES ASSUME TypesInv PROVE TypeOK
      OBVIOUS
    <2>1. 0..writes \subseteq 0..MaxWrites
      BY TuiConstantsOK DEF TypesInv, DiskOK, TuiConstantsOK
    <2>2. disk \in [Channel -> [File -> 0..MaxWrites]]
      BY <2>1 DEF TypesInv, DiskOK
    <2> QED
      BY <2>2 DEF TypesInv, AppOK, Index, Mode, Step, TypeOK
  <1> QED
    BY <1>1, TypesInitially, TypesStep, PTL DEF Spec

-----------------------------------------------------------------------------
(* What the fingerprint says of what is shown.                             *)

FilesOf == [messages |-> {"log", "moderation"}, role |-> {"policy"},
            conflicts |-> {"conflicts"}]

(* A part of channel c is as in its files, or they have changed since the  *)
(* fingerprint; they never change back.                                    *)
PartFaithful(c, p) ==
    (\A f \in FilesOf[p] : disk[c][f] = app.fingerprint.files[f]) =>
        app.view[p] = Content(c)[p]

ChannelFaithful(c) ==
    /\ c \in Channel
    /\ \A f \in File : /\ app.fingerprint.files[f] \in Nat
                       /\ app.fingerprint.files[f] <= disk[c][f]
    /\ app.view = [p \in Part |-> app.view[p]]
    /\ \A p \in Part : PartFaithful(c, p)

Faithful ==
    /\ app.channels = app.fingerprint.channels
    /\ Selected(app) = app.fingerprint.selected
    /\ IF Selected(app) = None THEN app.channels = {} ELSE ChannelFaithful(Selected(app))

(* While a refresh may fail without ending the client, and between two of  *)
(* them, the fingerprint is faithful, or the failure will be noticed: the  *)
(* list has changed.                                                       *)
FaithInv ==
    /\ step.at # "quit" /\ (step.at # "idle" => ~step.fatal)
    /\ ~astray
    => \/ Faithful
       \/ step.at # "idle" /\ app.channels # app.fingerprint.channels

(* A refresh begins with the fingerprint from before.                      *)
LEMMA BeginFingerprint ==
  ASSUME NEW a, AppFields \subseteq DOMAIN a, NEW fatal, Begin(a, fatal)
  PROVE  /\ app'.fingerprint = a.fingerprint
         /\ Selected(a) # None => app' = a
         /\ step'.fatal = fatal /\ step'.at \in {"messages", "fingerprint"}
  <1>1. CASE Selected(a) = None
    <2>1. /\ app' = [a EXCEPT !.view = [@ EXCEPT !["messages"] = <<None>>,
                                                !["role"] = <<None>>]]
          /\ step' = [at |-> "fingerprint", fatal |-> fatal]
      BY <1>1 DEF Begin, Refresh
    <2> QED
      BY <1>1, <2>1 DEF AppFields
  <1>2. CASE Selected(a) # None
    <2>1. app' = a /\ step' = [at |-> "messages", fatal |-> fatal]
      BY <1>2 DEF Begin, Refresh
    <2> QED
      BY <2>1
  <1> QED
    BY <1>1, <1>2

(* Files only grow, and what is read again is what is in the files.        *)
LEMMA ChannelStaysFaithful ==
  ASSUME TypesInv, TypesInv', NEW c, ChannelFaithful(c),
         app'.fingerprint = app.fingerprint,
         \A f \in File : disk'[c][f] = disk[c][f] \/ disk'[c][f] = disk[c][f] + 1,
         app'.view = [p \in Part |-> app'.view[p]],
         \A p \in Part : \/ app'.view[p] = app.view[p]
                         \/ disk' = disk /\ app'.view[p] = Content(c)[p]
  PROVE  ChannelFaithful(c)'
  <1>1. c \in Channel /\ \A f \in File : disk[c][f] \in Nat
    BY DEF ChannelFaithful, TypesInv, DiskOK
  <1>2. ASSUME NEW f \in File
        PROVE  /\ app'.fingerprint.files[f] \in Nat
               /\ app'.fingerprint.files[f] <= disk'[c][f]
               /\ disk'[c][f] = app'.fingerprint.files[f] =>
                     disk'[c][f] = disk[c][f] /\ disk[c][f] = app.fingerprint.files[f]
    BY <1>1 DEF ChannelFaithful
  <1>3. ASSUME NEW p \in Part, \A f \in FilesOf[p] : disk'[c][f] = app'.fingerprint.files[f]
        PROVE  app'.view[p] = Content(c)'[p]
    <2>1. FilesOf[p] \subseteq File
      BY DEF Part, FilesOf, File
    <2>2. \A f \in FilesOf[p] : disk'[c][f] = disk[c][f] /\ disk[c][f] = app.fingerprint.files[f]
      BY <1>2, <1>3, <2>1
    <2>3. app.view[p] = Content(c)[p]
      BY <2>2 DEF ChannelFaithful, PartFaithful
    <2>4. Content(c)'[p] = Content(c)[p]
      <3>1. CASE p = "messages"
        BY <2>2, <3>1 DEF Content, FilesOf
      <3>2. CASE p = "role"
        BY <2>2, <3>2 DEF Content, FilesOf
      <3>3. CASE p = "conflicts"
        BY <2>2, <3>3 DEF Content, FilesOf
      <3> QED
        BY <3>1, <3>2, <3>3 DEF Part
    <2> QED
      BY <2>3, <2>4
  <1> QED
    BY <1>1, <1>2, <1>3 DEF ChannelFaithful, PartFaithful

(* Steps that leave the selection alone.                                   *)
LEMMA StaysFaithful ==
  ASSUME TypesInv, TypesInv', Faithful, app'.fingerprint = app.fingerprint,
         app'.channels = app.channels, Selected(app') = Selected(app),
         \A c \in Channel, f \in File :
            disk'[c][f] = disk[c][f] \/ disk'[c][f] = disk[c][f] + 1,
         Selected(app) # None =>
            /\ app'.view = [p \in Part |-> app'.view[p]]
            /\ \A p \in Part : \/ app'.view[p] = app.view[p]
                               \/ disk' = disk /\ app'.view[p] = Content(Selected(app))[p]
  PROVE  Faithful'
  <1>1. Selected(app)' = Selected(app)
    BY DEF Selected
  <1>2. ASSUME Selected(app) # None PROVE ChannelFaithful(Selected(app))'
    <2>1. PICK c : c = Selected(app)
      OBVIOUS
    <2>2. ChannelFaithful(c) /\ c \in Channel
      BY <1>2, <2>1 DEF Faithful, ChannelFaithful
    <2>3. ChannelFaithful(c)'
      BY <1>2, <2>1, <2>2, ChannelStaysFaithful
    <2>4. Selected(app)' = c
      BY <1>1, <2>1
    <2> QED
      BY <2>3, <2>4 DEF ChannelFaithful, PartFaithful, Content
  <1> QED
    BY <1>1, <1>2 DEF Faithful

(* A refresh whose failure is reported begins with the list read again.    *)
LEMMA FollowStaysFaithful ==
  ASSUME TypesInv, TypesInv', FaithInv, Idle, NEW i \in Nat,
         Begin(Follow(app, listed, i), FALSE), UNCHANGED <<files, rest>>
  PROVE  FaithInv'
  <1> DEFINE a == Follow(app, listed, i)
  <1>1. /\ AppFields \subseteq DOMAIN app /\ app.channels \in SUBSET Channel
        /\ listed \in SUBSET Channel /\ app.selected \in Nat
    BY IndexIn DEF TypesInv, AppOK
  <1>2. /\ AppFields \subseteq DOMAIN a /\ a.channels = listed /\ a.view = app.view
        /\ a.fingerprint = app.fingerprint
        /\ a.selected = IF Selected(app) \in listed
                        THEN Position(Selected(app), listed) ELSE i
    BY <1>1 DEF Follow, AppFields
  <1> HIDE DEF a
  <1>3. /\ app'.channels = listed /\ app'.selected = a.selected
        /\ app'.fingerprint = app.fingerprint
        /\ Selected(a) # None => app' = a
        /\ step'.at # "idle"
    BY <1>2, BeginKeeps, BeginFingerprint DEF a
  <1>4. astray' = astray /\ disk' = disk
    BY DEF files, rest
  <1>5. SUFFICES ASSUME ~astray, listed = app.fingerprint.channels PROVE Faithful'
    BY <1>3, <1>4 DEF FaithInv
  <1>6. Faithful /\ listed = app.channels
    BY <1>5 DEF FaithInv, Faithful, Idle
  <1>7. Selected(app') = Selected(a)
    BY <1>2, <1>3, SelectedOf
  <1>8. CASE Selected(app) = None
    <2>1. listed = {} /\ Cardinality(listed) = 0
      BY <1>6, <1>8, FS_EmptySet DEF Faithful
    <2>2. a.selected \in Nat
      BY <1>1, <1>2, <2>1
    <2>3. Selected(a) = None
      BY <1>2, <2>1, <2>2 DEF Selected
    <2> QED
      BY <1>3, <1>4, <1>6, <1>7, <1>8, <2>3, StaysFaithful
  <1>9. CASE Selected(app) # None
    <2>1. Selected(app) \in listed
      BY <1>1, <1>6, <1>9, SelectedChannel
    <2>2. Selected(a) = Selected(app)
      BY <1>1, <1>2, <2>1, PositionSelects
    <2>3. app'.view = app.view
      BY <1>2, <1>3, <1>9, <2>2
    <2>4. app.view = [p \in Part |-> app.view[p]]
      BY <1>6, <1>9 DEF Faithful, ChannelFaithful
    <2> QED
      BY <1>3, <1>4, <1>6, <1>7, <2>2, <2>3, <2>4, StaysFaithful
  <1> QED
    BY <1>8, <1>9

(* A key whose failure ends the client.                                    *)
LEMMA FatalIsFaithful ==
  ASSUME NEW a, AppFields \subseteq DOMAIN a, Begin(a, TRUE)
  PROVE  FaithInv'
  BY BeginFingerprint DEF FaithInv

(* Nothing is read and no channel selected.                                *)
LEMMA AppStaysFaithful ==
  ASSUME TypesInv, TypesInv', FaithInv, step'.at # "quit" => step' = step,
         app'.fingerprint = app.fingerprint, app'.channels = app.channels,
         app'.selected = app.selected, app'.view = app.view, astray' = astray,
         \A c \in Channel, f \in File :
            disk'[c][f] = disk[c][f] \/ disk'[c][f] = disk[c][f] + 1
  PROVE  FaithInv'
  <1>1. Selected(app') = Selected(app)
    BY SelectedOf
  <1>2. ASSUME Faithful PROVE Faithful'
    <2>1. Selected(app) # None => app.view = [p \in Part |-> app.view[p]]
      BY <1>2 DEF Faithful, ChannelFaithful
    <2> QED
      BY <1>1, <1>2, <2>1, StaysFaithful
  <1> QED
    BY <1>2 DEF FaithInv

LEMMA ChangedGrows ==
  ASSUME TypesInv, NEW d, NEW g, disk' = Changed(d, g)
  PROVE  \A c \in Channel, f \in File :
            disk'[c][f] = disk[c][f] \/ disk'[c][f] = disk[c][f] + 1
  BY DEF TypesInv, DiskOK, Changed

LEMMA FaithInitially == Init => FaithInv
  <1> SUFFICES ASSUME Init PROVE FaithInv
    OBVIOUS
  <1> QED
    BY DEF Init, FaithInv

LEMMA FaithStep == TypesInv /\ FaithInv /\ [Next]_vars => FaithInv'
  <1> SUFFICES ASSUME TypesInv, FaithInv, [Next]_vars PROVE FaithInv'
    OBVIOUS
  <1>0. TypesInv'
    BY TypesStep
  <1>1. /\ AppOK(app) /\ AppFields \subseteq DOMAIN app /\ step \in Step
        /\ app.selected \in Nat /\ app.channels \in SUBSET Channel /\ listed \in SUBSET Channel
    BY IndexIn DEF TypesInv, AppOK
  <1>2. UNCHANGED files => disk' = disk /\ listed' = listed
    BY DEF files
  <1>3. UNCHANGED rest => astray' = astray
    BY DEF rest
  <1>4. ASSUME NEW p \in Part, Read(p) PROVE FaithInv'
    <2>1. /\ step.at = p
          /\ app' = [app EXCEPT !.view[p] = Content(Selected(app))[p]]
          /\ step' = [step EXCEPT !.at = After[p]]
          /\ disk' = disk /\ astray' = astray
      BY <1>2, <1>3, <1>4 DEF Read
    <2>2. step.at \notin {"idle", "quit"} /\ After[p] \notin {"idle", "quit"}
      BY <2>1 DEF Part, After
    <2>3. step'.at = After[p] /\ step'.fatal = step.fatal
      BY <1>1, <2>1 DEF Step
    <2>4. /\ app'.channels = app.channels /\ app'.fingerprint = app.fingerprint
          /\ app'.selected = app.selected
          /\ app'.view = [app.view EXCEPT ![p] = Content(Selected(app))[p]]
      BY <1>1, <2>1 DEF AppFields
    <2>5. Selected(app') = Selected(app)
      BY <2>4, SelectedOf
    <2>6. ASSUME Faithful PROVE Faithful'
      <3>1. ASSUME Selected(app) # None
            PROVE  /\ app'.view = [q \in Part |-> app'.view[q]]
                   /\ \A q \in Part : \/ app'.view[q] = app.view[q]
                                      \/ app'.view[q] = Content(Selected(app))[q]
        <4>1. app.view = [q \in Part |-> app.view[q]]
          BY <2>6, <3>1 DEF Faithful, ChannelFaithful
        <4> QED
          BY <2>4, <4>1
      <3> QED
        BY <1>0, <2>1, <2>4, <2>5, <2>6, <3>1, StaysFaithful
    <2> QED
      BY <2>1, <2>2, <2>3, <2>4, <2>6 DEF FaithInv
  <1>5. CASE TakeFingerprint
    <2>1. /\ app' = [app EXCEPT !.fingerprint = local_state_fingerprint]
          /\ astray' = ~Shown /\ disk' = disk
      BY <1>2, <1>5 DEF TakeFingerprint
    <2>2. SUFFICES ASSUME Shown PROVE Faithful'
      BY <2>1 DEF FaithInv
    <2>3. /\ app'.channels = app.channels /\ app'.selected = app.selected
          /\ app'.view = app.view /\ app'.fingerprint = local_state_fingerprint
      BY <1>1, <2>1 DEF AppFields
    <2>4. Selected(app)' = Selected(app)
      BY <2>3 DEF Selected
    <2>5. app'.fingerprint.channels = listed /\ app'.fingerprint.selected = Selected(app)
      BY <2>3 DEF local_state_fingerprint
    <2>6. ASSUME Selected(app) # None PROVE ChannelFaithful(Selected(app))'
      <3>1. PICK c : c = Selected(app)
        OBVIOUS
      <3>2. c \in Channel
        BY <1>1, <2>6, <3>1, SelectedChannel
      <3>3. app'.view = Content(c)
        BY <2>2, <2>3, <2>6, <3>1 DEF Shown
      <3>4. Content(c)' = Content(c) /\ Content(c) = [p \in Part |-> Content(c)[p]]
        BY <2>1 DEF Content, Part
      <3>5. \A f \in File : app'.fingerprint.files[f] = disk[c][f] /\ disk[c][f] \in Nat
        BY <2>3, <2>6, <3>1, <3>2 DEF local_state_fingerprint, TypesInv, DiskOK
      <3>6. ChannelFaithful(c)'
        BY <2>1, <3>2, <3>3, <3>4, <3>5 DEF ChannelFaithful, PartFaithful
      <3>7. Selected(app)' = c
        BY <2>4, <3>1
      <3> QED
        BY <3>6, <3>7 DEF ChannelFaithful, PartFaithful, Content
    <2> QED
      BY <2>2, <2>3, <2>4, <2>5, <2>6 DEF Faithful, Shown
  <1>6. CASE Fail
    <2>1. /\ step' = [step EXCEPT !.at = IF step.fatal THEN "quit" ELSE "idle"]
          /\ astray' = (astray \/ (~step.fatal /\ app.channels # app.fingerprint.channels))
          /\ app' = app /\ disk' = disk
          /\ step.at \notin {"idle", "quit"}
      BY <1>2, <1>6 DEF Fail, Part
    <2>2. step'.at = IF step.fatal THEN "quit" ELSE "idle"
      BY <1>1, <2>1 DEF Step
    <2>3. ASSUME Faithful PROVE Faithful'
      <3>1. Selected(app) # None => app.view = [p \in Part |-> app.view[p]]
        BY <2>3 DEF Faithful, ChannelFaithful
      <3> QED
        BY <1>0, <2>1, <2>3, <3>1, StaysFaithful
    <2> QED
      BY <2>1, <2>2, <2>3 DEF FaithInv
  <1>7. ASSUME step'.at # "quit" => step' = step, UNCHANGED app, astray' = astray,
               UNCHANGED disk
        PROVE  FaithInv'
    BY <1>0, <1>7, AppStaysFaithful
  <1>8. CASE ApplyEvent
    <2>1. CASE Begin(Follow(app, listed, app.selected), FALSE)
      BY <1>0, <1>1, <1>8, <2>1, FollowStaysFaithful DEF ApplyEvent
    <2>2. CASE UNCHANGED <<app, step, typed>>
      BY <1>2, <1>3, <1>7, <1>8, <2>2 DEF ApplyEvent
    <2> QED
      BY <1>8, <2>1, <2>2 DEF ApplyEvent
  <1>9. CASE LoseEvent \/ SendEvent \/ UNCHANGED vars
    BY <1>2, <1>3, <1>7, <1>9 DEF LoseEvent, SendEvent, vars
  <1>10. CASE Poll
    <2> DEFINE i == Clamp(app.selected, listed)
    <2>1. Idle /\ Begin(Follow(app, listed, i), FALSE) /\ UNCHANGED <<files, rest>>
      BY <1>10 DEF Poll
    <2>2. i \in Nat
      BY <1>1, IndexIn
    <2> HIDE DEF i
    <2> QED
      BY <1>0, <2>1, <2>2, FollowStaysFaithful
  <1>11. CASE Up \/ Down \/ ToggleAudit \/ ManualRefresh
    <2>1. \E a : AppFields \subseteq DOMAIN a /\ Begin(a, TRUE)
      <3>1. CASE Up
        <4> DEFINE a == [app EXCEPT !.selected = @ - 1]
        <4>1. Begin(a, TRUE)
          BY <3>1 DEF Up
        <4>2. AppFields \subseteq DOMAIN a
          BY <1>1
        <4> QED
          BY <4>1, <4>2
      <3>2. CASE Down
        <4> DEFINE a == [app EXCEPT !.selected = @ + 1]
        <4>1. Begin(a, TRUE)
          BY <3>2 DEF Down
        <4>2. AppFields \subseteq DOMAIN a
          BY <1>1
        <4> QED
          BY <4>1, <4>2
      <3>3. CASE ToggleAudit
        BY <1>1, <3>3 DEF ToggleAudit
      <3>4. CASE ManualRefresh
        <4> DEFINE a == [app EXCEPT !.channels = listed, !.selected = Clamp(@, listed)]
        <4>1. Begin(a, TRUE)
          BY <3>4 DEF ManualRefresh
        <4>2. AppFields \subseteq DOMAIN a
          BY <1>1
        <4> QED
          BY <4>1, <4>2
      <3> QED
        BY <1>11, <3>1, <3>2, <3>3, <3>4
    <2> QED
      BY <2>1, FatalIsFaithful
  <1>12. CASE OpenInput \/ CloseInput \/ SyncWith \/ Quit
    <2>1. /\ app' = app \/ \E mode : app' = [app EXCEPT !.mode = mode]
          /\ step'.at # "quit" => step' = step
          /\ UNCHANGED <<files, rest>>
      BY <1>1, <1>12 DEF OpenInput, CloseInput, SyncWith, Quit, Step
    <2>2. /\ app'.channels = app.channels /\ app'.selected = app.selected
          /\ app'.view = app.view /\ app'.fingerprint = app.fingerprint
      BY <1>1, <2>1 DEF AppFields
    <2> QED
      BY <1>0, <1>2, <1>3, <2>1, <2>2, AppStaysFaithful
  <1>13. CASE Post
    <2> DEFINE a == [app EXCEPT !.mode = "normal"]
    <2>1. /\ Idle /\ Selected(app) # None /\ Begin(a, FALSE)
          /\ disk' = Changed(Selected(app), "log") /\ astray' = astray
      BY <1>3, <1>13 DEF Post, Key
    <2>2. /\ AppFields \subseteq DOMAIN a /\ a.channels = app.channels
          /\ a.selected = app.selected /\ a.view = app.view
          /\ a.fingerprint = app.fingerprint
      BY <1>1 DEF AppFields
    <2> HIDE DEF a
    <2>3. Selected(a) = Selected(app)
      BY <2>2, SelectedOf
    <2>4. app' = a
      BY <2>1, <2>2, <2>3, BeginFingerprint
    <2>5. ASSUME Faithful PROVE Faithful'
      <3>1. app.view = [p \in Part |-> app.view[p]]
        BY <2>1, <2>5 DEF Faithful, ChannelFaithful
      <3>2. \A c \in Channel, f \in File :
               disk'[c][f] = disk[c][f] \/ disk'[c][f] = disk[c][f] + 1
        BY <2>1, ChangedGrows
      <3> QED
        BY <1>0, <2>2, <2>3, <2>4, <2>5, <3>1, <3>2, StaysFaithful
    <2> QED
      BY <2>1, <2>5 DEF FaithInv, Idle
  <1>14. ASSUME NEW c \in Channel, NEW f \in File, Write(c, f) PROVE FaithInv'
    <2>1. disk' = Changed(c, f) /\ UNCHANGED <<app, step>> /\ astray' = astray
      BY <1>3, <1>14 DEF Write
    <2>2. \A d \in Channel, g \in File :
             disk'[d][g] = disk[d][g] \/ disk'[d][g] = disk[d][g] + 1
      BY <2>1, ChangedGrows
    <2> QED
      BY <1>0, <2>1, <2>2, AppStaysFaithful
  <1>15. ASSUME NEW c \in Channel, KeyArrives(c) PROVE FaithInv'
    BY <1>3, <1>7, <1>15 DEF KeyArrives
  <1> QED
    BY <1>4, <1>5, <1>6, <1>8, <1>9, <1>10, <1>11, <1>12, <1>13, <1>14, <1>15
    DEF Next, Refreshing, Handle, Others

(* refresh_if_local_state_changed reads again only when the fingerprint    *)
(* differs: if it does not, and the client has not lost track, what is     *)
(* shown is what is in the files, whatever was half read when a refresh    *)
(* failed, for files never change back.                                    *)
THEOREM NothingHidden == Spec => []UnchangedIsShown
  <1>1. TypesInv /\ FaithInv => UnchangedIsShown
    <2> SUFFICES ASSUME TypesInv, FaithInv, Idle, ~astray,
                        app.fingerprint = local_state_fingerprint
                 PROVE  Shown
      BY DEF UnchangedIsShown
    <2>1. Faithful
      BY DEF FaithInv, Idle
    <2>2. app.channels = listed /\ app.fingerprint.selected = Selected(app)
      BY <2>1 DEF Faithful, local_state_fingerprint
    <2>3. ASSUME Selected(app) # None PROVE app.view = Content(Selected(app))
      <3> DEFINE c == Selected(app)
      <3>1. ChannelFaithful(c)
        BY <2>1, <2>3 DEF Faithful
      <3>2. \A f \in File : app.fingerprint.files[f] = disk[c][f]
        BY <2>3 DEF local_state_fingerprint
      <3>3. \A p \in Part : FilesOf[p] \subseteq File
        BY DEF Part, FilesOf, File
      <3>4. \A p \in Part : app.view[p] = Content(c)[p]
        BY <3>1, <3>2, <3>3 DEF ChannelFaithful, PartFaithful
      <3>5. app.view = [p \in Part |-> app.view[p]]
        BY <3>1 DEF ChannelFaithful
      <3>6. Content(c) = [p \in Part |-> Content(c)[p]]
        BY DEF Content, Part
      <3> HIDE DEF c
      <3>7. app.view = Content(c)
        BY <3>4, <3>5, <3>6
      <3> QED
        BY <3>7 DEF c
    <2> QED
      BY <2>1, <2>2, <2>3 DEF Faithful, Shown
  <1> QED
    BY <1>1, TypesInitially, TypesStep, FaithInitially, FaithStep, PTL DEF Spec
==============================================================================
