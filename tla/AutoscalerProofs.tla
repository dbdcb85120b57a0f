-------------------------- MODULE AutoscalerProofs --------------------------
(***************************************************************************)
(* The target is exact, the group within maxSize and every delete called   *)
(* once, for any servers, refreshes, sizes and events, until something     *)
(* that WithinMax excuses happens.  A listing that waits to be folded is   *)
(* older than the group: the invariant says what it may and may not have   *)
(* missed (Current).                                                       *)
(***************************************************************************)
EXTENDS Autoscaler, FiniteSetTheorems, TLAPS

\* The target CA sees is what a refresh would make of the group.
Exact == desired = Cardinality(running \ Marked) + Cardinality(Intents)

\* A create is known by its intent until it has produced a server.
Created ==
  \A n \in Name :
    /\ job[n] = "none" => creating[n] = "none"
    /\ job[n] = "begun" \/ n \in posted => creating[n] = "pending"
    /\ n \in posted => job[n] = "sent"
    /\ n \in cloud \cup running => n \notin posted /\ job[n] \in {"sent", "done"}
    /\ creating[n] = "failed" => n \notin cloud /\ job[n] = "done"

\* A delete is known by its marker until the server is gone, and a marked server
\* is on its way out.
Deleted ==
  \A n \in Name :
    /\ deleting[n] # "failed" /\ kills[n] <= 1
    /\ deleting[n] = "deleting" => kills[n] > 0 \/ n \notin cloud \ doomed
    /\ n \in doomed \/ (n \in cloud \cup running /\ kills[n] > 0) => deleting[n] = "deleting"
    /\ n \in posted \/ job[n] \in {"none", "begun"} => kills[n] = 0

\* What the group is committed to, it counts; before the first listing it counts
\* nothing and has asked for nothing.
Covered ==
  /\ listed => Committed \subseteq (running \ Marked) \cup Intents
  /\ ~listed => running = {} /\ Intents = {} /\ Cardinality(Committed) <= maxSize

\* A listing that waits to be folded shows every listed server that is still
\* there and every committed server no intent stands for, and nothing the group
\* does not count.
Current ==
  /\ \A r, q \in Refresh : list[r].held /\ list[q].held => r = q
  /\ \A r \in Refresh : list[r].held =>
       /\ running \cap cloud \subseteq list[r].items
       /\ ~listed => Cardinality(list[r].items) <= maxSize
       /\ \A n \in Committed : n \in list[r].items \/ creating[n] \in {"pending", "resolved"}
       /\ \A n \in list[r].items :
            /\ n \notin posted /\ job[n] \in {"sent", "done"} /\ creating[n] # "failed"
            /\ kills[n] > 0 => deleting[n] = "deleting"
            /\ listed => n \in running \cup Intents

Calm == Exact /\ Created /\ Deleted /\ Covered /\ Current

Inv == TypeOK /\ (~slipped => Calm)

-----------------------------------------------------------------------------
(* Sizes of sets of servers.                                               *)

LEMMA Sized ==
  ASSUME NEW S \in SUBSET Name
  PROVE  IsFiniteSet(S) /\ Cardinality(S) \in Nat
BY NameAssumption, FS_Subset, FS_CardinalityType

LEMMA Within ==
  ASSUME NEW T \in SUBSET Name, NEW S \in SUBSET T
  PROVE  Cardinality(S) <= Cardinality(T)
BY Sized, FS_Subset

LEMMA Together ==
  ASSUME NEW S \in SUBSET Name, NEW T \in SUBSET Name
  PROVE  /\ Cardinality(S \cup T) <= Cardinality(S) + Cardinality(T)
         /\ S \cap T = {} => Cardinality(S \cup T) = Cardinality(S) + Cardinality(T)
<1>1. /\ IsFiniteSet(S) /\ IsFiniteSet(T)
      /\ Cardinality(S) \in Nat /\ Cardinality(T) \in Nat /\ Cardinality(S \cap T) \in Nat
  BY Sized
<1>2. Cardinality(S \cup T) = Cardinality(S) + Cardinality(T) - Cardinality(S \cap T)
  BY <1>1, FS_Union
<1> QED
  BY <1>1, <1>2, FS_EmptySet

LEMMA Without ==
  ASSUME NEW S \in SUBSET Name, NEW T \in SUBSET S
  PROVE  Cardinality(S \ T) = Cardinality(S) - Cardinality(T)
<1>1. S = (S \ T) \cup T /\ (S \ T) \cap T = {}
  OBVIOUS
<1>2. Cardinality(S) = Cardinality(S \ T) + Cardinality(T)
  BY <1>1, Together
<1> QED
  BY <1>2, Sized

\* The bound follows from the invariant: what is committed is counted.
LEMMA Bounded ==
  ASSUME Inv
  PROVE  WithinMax
<1> SUFFICES ASSUME ~slipped
             PROVE  Cardinality(Committed) <= maxSize
  BY DEF WithinMax
<1>1. CASE ~listed
  BY <1>1 DEF Inv, Calm, Covered
<1>2. CASE listed
  <2>1. Committed \subseteq (running \ Marked) \cup Intents
    BY <1>2 DEF Inv, Calm, Covered
  <2>2. running \ Marked \in SUBSET Name /\ Intents \in SUBSET Name /\ Committed \in SUBSET Name
    BY DEF Inv, TypeOK, Intents, Committed
  <2>3. Cardinality(Committed) <= Cardinality((running \ Marked) \cup Intents)
    BY <2>1, <2>2, Within
  <2>4. Cardinality((running \ Marked) \cup Intents) <= desired
    BY <2>2, Together DEF Inv, Calm, Exact
  <2>5. desired <= maxSize /\ desired \in Nat /\ maxSize \in Nat
    BY SizeAssumption DEF Inv, TypeOK
  <2> QED
    BY <2>2, <2>3, <2>4, <2>5, Sized
<1> QED
  BY <1>1, <1>2

-----------------------------------------------------------------------------
(* Types.                                                                  *)

LEMMA TypedInit == Init => TypeOK
<1> SUFFICES ASSUME Init PROVE TypeOK
  OBVIOUS
<1>1. maxSize \in Nat /\ MaxEvents \in Nat
  BY SizeAssumption DEF Init
<1>2. Marked = {}
  BY DEF Init, Marked
<1>3. list \in [Refresh -> [items : SUBSET Name, complete : BOOLEAN, held : BOOLEAN]]
  BY DEF Init, NoList
<1>4. /\ creating \in [Name -> Intent] /\ deleting \in [Name -> {"none", "deleting", "failed"}]
      /\ job \in [Name -> {"none", "begun", "sent", "done"}] /\ kills \in [Name -> Nat]
  BY DEF Init, Intent
<1>5. /\ cloud \subseteq Name /\ posted = {} /\ doomed = {} /\ running = {}
      /\ maxSize \in MaxSizes /\ desired = 0
      /\ listed = FALSE /\ slipped = FALSE /\ events = 0
  BY DEF Init
<1>6. desired \in 0..maxSize /\ events \in 0..MaxEvents
  BY <1>1, <1>5
<1> QED
  BY <1>2, <1>3, <1>4, <1>5, <1>6 DEF TypeOK

LEMMA TypedIncrease == TypeOK /\ IncreaseSize => TypeOK'
<1> SUFFICES ASSUME TypeOK, IncreaseSize PROVE TypeOK'
  OBVIOUS
<1>1. PICK fresh \in (SUBSET {n \in Name : job[n] = "none"}) \ {{}} :
        /\ desired + Cardinality(fresh) <= maxSize
        /\ desired' = desired + Cardinality(fresh)
        /\ creating' = [n \in Name |-> IF n \in fresh THEN "pending" ELSE creating[n]]
        /\ job' = [n \in Name |-> IF n \in fresh THEN "begun" ELSE job[n]]
        /\ slipped' = (slipped \/ ~listed)
        /\ Count
        /\ UNCHANGED <<provider, maxSize, running, deleting, kills, list, listed>>
  BY DEF IncreaseSize
<1>2. desired' \in 0..maxSize'
  <2>1. Cardinality(fresh) \in Nat
    BY <1>1, Sized
  <2>2. maxSize \in Nat
    BY SizeAssumption DEF TypeOK
  <2> QED
    BY <1>1, <2>1, <2>2 DEF TypeOK
<1>3. events' \in 0..MaxEvents
  BY <1>1, SizeAssumption DEF TypeOK, Count
<1>4. Marked' = Marked
  BY <1>1 DEF Marked
<1> QED
  BY <1>1, <1>2, <1>3, <1>4 DEF TypeOK, Intent, provider

LEMMA TypedDelete == TypeOK /\ DeleteNodes => TypeOK'
<1> SUFFICES ASSUME TypeOK, DeleteNodes PROVE TypeOK'
  OBVIOUS
<1>1. PICK nodes \in (SUBSET running) \ {{}} :
        LET new == nodes \ Marked IN
        /\ deleting' = [n \in Name |-> IF n \in new THEN "deleting" ELSE deleting[n]]
        /\ desired' = Less(desired, Cardinality(new))
        /\ kills' = [n \in Name |-> IF n \in new THEN kills[n] + 1 ELSE kills[n]]
        /\ Count
        /\ UNCHANGED <<provider, maxSize, running, creating, job, list, listed, slipped>>
  BY DEF DeleteNodes
<1>2. desired' \in 0..maxSize'
  <2>1. Cardinality(nodes \ Marked) \in Nat
    BY Sized DEF TypeOK
  <2>2. maxSize \in Nat
    BY SizeAssumption DEF TypeOK
  <2> QED
    BY <1>1, <2>1, <2>2 DEF TypeOK, Less
<1>3. events' \in 0..MaxEvents
  BY <1>1, SizeAssumption DEF TypeOK, Count
<1>4. Marked' = Marked \cup nodes
  BY <1>1 DEF Marked, TypeOK
<1> QED
  BY <1>1, <1>2, <1>3, <1>4 DEF TypeOK, provider

LEMMA TypedDecrease == TypeOK /\ DecreaseTargetSize => TypeOK'
<1> SUFFICES ASSUME TypeOK, DecreaseTargetSize PROVE TypeOK'
  OBVIOUS
<1>1. PICK delta \in 1..desired : desired' = desired - delta
  BY DEF DecreaseTargetSize
<1>2. desired' \in 0..maxSize' /\ events' \in 0..MaxEvents
  BY <1>1, SizeAssumption DEF TypeOK, DecreaseTargetSize, Chance, Count
<1>3. Marked' = Marked
  BY DEF Marked, DecreaseTargetSize
<1> QED
  BY <1>2, <1>3 DEF TypeOK, DecreaseTargetSize, provider

LEMMA TypedTasks ==
  ASSUME TypeOK, NEW n \in Name, Create(n) \/ Delete(n) \/ Provider(n)
  PROVE  TypeOK'
<1> USE DEF TypeOK, Intent, group, provider, Chance, Count, Failed
<1>1. CASE CreateRefused(n)
  BY <1>1 DEF CreateRefused, Marked
<1>2. CASE CreateSent(n)
  BY <1>2 DEF CreateSent, Marked
<1>3. CASE CreateAnswered(n)
  BY <1>3 DEF CreateAnswered, Marked
<1>4. CASE CreateRejected(n)
  BY <1>4 DEF CreateRejected, Marked
<1>5. CASE CreateAnswerLost(n)
  BY <1>5, SizeAssumption DEF CreateAnswerLost, Marked
<1>6. CASE DeleteAnswered(n)
  BY <1>6 DEF DeleteAnswered, Marked
<1>7. CASE DeleteFails(n)
  <2>1. Marked' = Marked
    BY <1>7 DEF DeleteFails, Marked
  <2>2. deleting' \in [Name -> {"none", "deleting", "failed"}] /\ kills' \in [Name -> Nat]
    BY <1>7 DEF DeleteFails
  <2>3. events' \in 0..MaxEvents
    BY <1>7, SizeAssumption DEF DeleteFails
  <2> QED
    BY <1>7, <2>1, <2>2, <2>3 DEF DeleteFails
<1>8. CASE CreateLands(n)
  BY <1>8 DEF CreateLands, Marked
<1>9. CASE DeleteTaken(n)
  BY <1>9 DEF DeleteTaken, Marked
<1>10. CASE Vanishes(n)
  BY <1>10 DEF Vanishes, Marked
<1> QED
  BY <1>1, <1>2, <1>3, <1>4, <1>5, <1>6, <1>7, <1>8, <1>9, <1>10 DEF Create, Delete, Provider

LEMMA TypedListed == ASSUME TypeOK, NEW r \in Refresh, Listed(r) PROVE TypeOK'
<1>1. PICK part \in SUBSET Name, full \in BOOLEAN :
        list' = [list EXCEPT ![r] = [items |-> part, complete |-> full, held |-> TRUE]]
  BY DEF TypeOK, Listed
<1>2. /\ list' \in [Refresh -> [items : SUBSET Name, complete : BOOLEAN, held : BOOLEAN]]
      /\ slipped' \in BOOLEAN
  <2>1. [items |-> part, complete |-> full, held |-> TRUE]
          \in [items : SUBSET Name, complete : BOOLEAN, held : BOOLEAN]
    OBVIOUS
  <2>2. slipped' \in BOOLEAN
    BY DEF TypeOK, Listed
  <2> QED
    BY <1>1, <2>1, <2>2 DEF TypeOK
<1>4. events' \in 0..MaxEvents
  BY SizeAssumption DEF TypeOK, Listed, Chance, Count
<1>3. Marked' = Marked
  BY DEF Listed, Marked, group
<1> QED
  BY <1>2, <1>3, <1>4 DEF TypeOK, Listed, group, provider

\* What a fold leaves of the markers, and of the intents.
LEMMA Folded ==
  ASSUME TypeOK, NEW r \in Refresh, Fold(r)
  PROVE  /\ list[r].items \in SUBSET Name
         /\ Marked' = {n \in list[r].items : deleting[n] = "deleting"}
         /\ Intents' = {n \in Name \ list[r].items : creating[n] \in {"pending", "resolved"}}
         /\ Cardinality(list[r].items \ Marked')
              = Cardinality(list[r].items) - Cardinality(Marked')
         /\ desired' = Least(maxSize, Cardinality(list[r].items \ Marked') + Cardinality(Intents'))
<1>1. list[r].items \in SUBSET Name
  BY DEF TypeOK
<1>2. Marked' = {n \in list[r].items : deleting[n] = "deleting"}
  BY <1>1 DEF Fold, DropMarkers, Marked, TypeOK
<1>3. Intents' = {n \in Name \ list[r].items : creating[n] \in {"pending", "resolved"}}
  BY <1>1 DEF Fold, DropIntents, Intents, TypeOK, Intent
<1>4. Cardinality(list[r].items \ Marked') = Cardinality(list[r].items) - Cardinality(Marked')
  BY <1>1, <1>2, Without
<1> QED
  BY <1>1, <1>2, <1>3, <1>4 DEF Fold

LEMMA TypedFold == ASSUME TypeOK, NEW r \in Refresh, Fold(r) PROVE TypeOK'
<1>1. Cardinality(list[r].items \ Marked') \in Nat /\ Cardinality(Intents') \in Nat
  BY Folded, Sized
<1>2. maxSize \in Nat
  BY SizeAssumption DEF TypeOK
<1>3. desired' \in 0..maxSize
  BY <1>1, <1>2, Folded DEF Least
<1>4. list' \in [Refresh -> [items : SUBSET Name, complete : BOOLEAN, held : BOOLEAN]]
  BY DEF TypeOK, Fold, NoList
<1>5. creating' \in [Name -> Intent]
  BY DEF TypeOK, Fold, DropIntents, Intent
<1>6. deleting' \in [Name -> {"none", "deleting", "failed"}]
  BY DEF TypeOK, Fold, DropMarkers
<1>7. running' \in SUBSET Name /\ Marked' \subseteq running'
  BY Folded DEF Fold
<1>8. UNCHANGED <<provider, maxSize, job, kills, slipped, events>> /\ listed' = TRUE
  BY DEF Fold
<1> QED
  BY <1>3, <1>4, <1>5, <1>6, <1>7, <1>8 DEF TypeOK, provider

LEMMA TypedManager ==
  ASSUME TypeOK, Restart \/ \E m \in MaxSizes : Reload(m)
  PROVE  TypeOK'
<1>1. NewManager /\ Count /\ maxSize' \in MaxSizes /\ UNCHANGED provider /\ slipped' \in BOOLEAN
  BY DEF TypeOK, Restart, Reload, Chance
<1>2. job' \in [Name -> {"none", "begun", "sent", "done"}] /\ kills' \in [Name -> Nat]
  BY DEF TypeOK, Restart, Reload
<1>3. Marked' = {}
  BY <1>1 DEF NewManager, Marked
<1>4. events' \in 0..MaxEvents /\ 0 \in 0..maxSize'
  BY <1>1, SizeAssumption DEF Count, TypeOK
<1>5. list' \in [Refresh -> [items : SUBSET Name, complete : BOOLEAN, held : BOOLEAN]]
  BY <1>1 DEF NewManager, NoList
<1> QED
  BY <1>1, <1>2, <1>3, <1>4, <1>5 DEF TypeOK, Intent, NewManager, provider

LEMMA TypedByHand ==
  ASSUME TypeOK, NEW n \in Name, Added(n) \/ Removed(n)
  PROVE  TypeOK'
<1>1. events' \in 0..MaxEvents /\ Marked' = Marked
  BY SizeAssumption DEF TypeOK, Added, Removed, Chance, Count, Marked, group
<1> QED
  BY <1>1 DEF TypeOK, Added, Removed, group

LEMMA Typed == TypeOK /\ [Next]_vars => TypeOK'
<1> SUFFICES ASSUME TypeOK, [Next]_vars PROVE TypeOK'
  OBVIOUS
<1>1. CASE UNCHANGED vars
  BY <1>1 DEF vars, TypeOK, Marked, group, provider
<1> QED
  BY <1>1, TypedIncrease, TypedDelete, TypedDecrease, TypedTasks, TypedListed, TypedFold,
     TypedManager, TypedByHand DEF Next

\* Every reachable state of the group, its tasks and the cloud is well typed.
THEOREM GroupTypeCorrect == Spec => []TypeOK
BY TypedInit, Typed, PTL DEF Spec

-----------------------------------------------------------------------------
(* Each step keeps what holds while nothing excused has happened.          *)

LEMMA CalmInit == Init => Calm
<1> SUFFICES ASSUME Init PROVE Calm
  OBVIOUS
<1>1. Marked = {} /\ Intents = {}
  BY DEF Init, Marked, Intents
<1>2. Exact
  BY <1>1, FS_EmptySet DEF Init, Exact
<1>3. Created
  BY DEF Init, Created
<1>4. Deleted
  BY DEF Init, Deleted
<1>5. Covered
  <2>1. Committed = cloud
    BY DEF Init, Committed
  <2> QED
    BY <1>1, <2>1 DEF Init, Covered
<1>6. Current
  BY DEF Init, Current, NoList
<1> QED
  BY <1>2, <1>3, <1>4, <1>5, <1>6 DEF Calm

\* A step that leaves the group's count alone and commits to nothing new.
LEMMA CountKept ==
  ASSUME TypeOK, Exact, Covered, Committed' \subseteq Committed,
         Marked' = Marked, Intents' = Intents,
         UNCHANGED <<maxSize, desired, running, listed>>
  PROVE  Exact' /\ Covered'
<1>1. Exact'
  BY DEF Exact
<1>2. Cardinality(Committed) <= maxSize => Cardinality(Committed') <= maxSize
  <2>1. Committed \in SUBSET Name /\ Committed' \in SUBSET Committed
    BY DEF Committed
  <2>2. Cardinality(Committed') \in Nat /\ Cardinality(Committed) \in Nat /\ maxSize \in Nat
    BY <2>1, Sized, SizeAssumption DEF TypeOK
  <2> QED
    BY <2>1, <2>2, Within
<1> QED
  BY <1>1, <1>2 DEF Covered

LEMMA CalmIncrease ==
  ASSUME TypeOK, Calm, IncreaseSize, ~slipped'
  PROVE  Calm'
<1>1. PICK fresh \in (SUBSET {n \in Name : job[n] = "none"}) \ {{}} :
        /\ desired' = desired + Cardinality(fresh)
        /\ creating' = [n \in Name |-> IF n \in fresh THEN "pending" ELSE creating[n]]
        /\ job' = [n \in Name |-> IF n \in fresh THEN "begun" ELSE job[n]]
        /\ listed
        /\ UNCHANGED <<provider, maxSize, running, deleting, kills, list, listed>>
  BY DEF IncreaseSize
<1>2. Marked' = Marked
  BY <1>1 DEF Marked
<1>3. Intents' = Intents \cup fresh /\ Intents \cap fresh = {}
  BY <1>1 DEF Intents, TypeOK, Calm, Created
<1>4. Committed' \subseteq Committed \cup fresh
  BY <1>1 DEF Committed, provider, TypeOK
<1>5. Exact'
  <2>1. Cardinality(Intents') = Cardinality(Intents) + Cardinality(fresh)
    BY <1>3, Together DEF Intents
  <2>2. /\ Cardinality(Intents) \in Nat /\ Cardinality(fresh) \in Nat
        /\ Cardinality(running \ Marked) \in Nat
    BY Sized DEF Intents, TypeOK
  <2> QED
    BY <1>1, <1>2, <2>1, <2>2 DEF Exact, Calm
<1>6. Created'
  BY <1>1 DEF Created, Calm, TypeOK, provider
<1>7. Deleted'
  BY <1>1 DEF Deleted, Calm, TypeOK, provider
<1>8. Covered'
  BY <1>1, <1>2, <1>3, <1>4 DEF Covered, Calm
<1>9. Current'
  <2>1. \A n \in Name \ fresh : creating'[n] = creating[n] /\ job'[n] = job[n]
    BY <1>1 DEF TypeOK
  <2>2. \A n \in fresh : creating'[n] = "pending" /\ job[n] = "none"
    BY <1>1
  <2>3. \A r \in Refresh : list[r].held => list[r].items \cap fresh = {}
    BY <1>1, <2>2 DEF Current, Calm
  <2>4. \A r \in Refresh : list[r].items \in SUBSET Name
    BY DEF TypeOK
  <2> QED
    BY <1>1, <1>3, <1>4, <2>1, <2>2, <2>3, <2>4 DEF Current, Calm, Committed, provider
<1> QED
  BY <1>5, <1>6, <1>7, <1>8, <1>9 DEF Calm

LEMMA CalmDelete ==
  ASSUME TypeOK, Calm, DeleteNodes
  PROVE  Calm'
<1>1. PICK nodes \in (SUBSET running) \ {{}} :
        LET new == nodes \ Marked IN
        /\ deleting' = [n \in Name |-> IF n \in new THEN "deleting" ELSE deleting[n]]
        /\ desired' = Less(desired, Cardinality(new))
        /\ kills' = [n \in Name |-> IF n \in new THEN kills[n] + 1 ELSE kills[n]]
        /\ UNCHANGED <<provider, maxSize, running, creating, job, list, listed>>
  BY DEF DeleteNodes
<1> DEFINE new == nodes \ Marked
<1>2. new \in SUBSET (running \ Marked) /\ running \in SUBSET Name
  BY DEF TypeOK
<1>3. Marked' = Marked \cup new /\ Intents' = Intents
  BY <1>1, <1>2 DEF Marked, Intents, TypeOK
<1>4. \A n \in new : kills[n] = 0 /\ kills'[n] = 1
  BY <1>1, <1>2 DEF Calm, Deleted, TypeOK, Marked
<1>5. \A n \in Name \ new : kills'[n] = kills[n] /\ deleting'[n] = deleting[n]
  BY <1>1 DEF TypeOK
<1>6. Committed' = Committed \ new
  <2>1. \A n \in new : n \notin posted /\ job[n] # "begun"
    BY <1>2 DEF Calm, Created
  <2> QED
    BY <1>1, <1>2, <1>4, <1>5, <2>1 DEF Committed, provider
<1>7. Exact'
  <2>1. running' \ Marked' = (running \ Marked) \ new
    BY <1>1, <1>3
  <2>2. Cardinality((running \ Marked) \ new)
          = Cardinality(running \ Marked) - Cardinality(new)
    BY <1>2, Without
  <2>3. /\ Cardinality(Intents) \in Nat /\ Cardinality(new) \in Nat
        /\ Cardinality(running \ Marked) \in Nat
        /\ Cardinality((running \ Marked) \ new) \in Nat
    BY <1>2, Sized DEF Intents
  <2>4. desired' = Less(desired, Cardinality(new))
    BY <1>1
  <2>5. desired = Cardinality(running \ Marked) + Cardinality(Intents)
    BY DEF Exact, Calm
  <2>6. desired' = Cardinality((running \ Marked) \ new) + Cardinality(Intents)
    <3> HIDE DEF new
    <3> QED
      BY <2>2, <2>3, <2>4, <2>5 DEF Less
  <2> QED
    BY <1>3, <2>1, <2>6 DEF Exact
<1>8. Created'
  BY <1>1 DEF Created, Calm, provider
<1>9. Deleted'
  <2>1. \A n \in new : deleting'[n] = "deleting"
    BY <1>1, <1>2
  <2>2. \A n \in new : n \notin posted /\ job[n] \notin {"none", "begun"}
    BY <1>2 DEF Calm, Created
  <2> QED
    BY <1>1, <1>4, <1>5, <2>1, <2>2 DEF Deleted, Calm, provider
<1>10. Covered'
  <2>1. listed
    BY <1>1, <1>2 DEF Covered, Calm
  <2> QED
    BY <1>1, <1>3, <1>6, <2>1 DEF Covered, Calm
<1>11. Current'
  <2>1. \A n \in new : deleting'[n] = "deleting"
    BY <1>1, <1>2
  <2> QED
    BY <1>1, <1>3, <1>5, <1>6, <2>1 DEF Current, Calm, TypeOK, provider
<1> QED
  BY <1>7, <1>8, <1>9, <1>10, <1>11 DEF Calm

\* A failed create was committed until it failed, then no longer.
LEMMA CalmCreateFails ==
  ASSUME TypeOK, Calm, NEW n \in Name, CreateRefused(n) \/ CreateRejected(n)
  PROVE  Calm'
<1>1. /\ job' = [job EXCEPT ![n] = "done"] /\ Failed(n)
      /\ posted' = posted \ {n}
      /\ UNCHANGED <<cloud, doomed, maxSize, desired, running, deleting, kills, list, listed>>
  BY DEF CreateRefused, CreateRejected, Calm, Created, provider
<1>2. creating[n] = "pending" /\ n \notin cloud \cup running
  BY DEF CreateRefused, CreateRejected, Calm, Created
<1>3. /\ creating'[n] = "failed" /\ job'[n] = "done"
      /\ \A m \in Name \ {n} : creating'[m] = creating[m] /\ job'[m] = job[m]
  BY <1>1, <1>2 DEF Failed, TypeOK
<1>4. Intents' = Intents /\ Marked' = Marked
  BY <1>1, <1>2, <1>3 DEF Intents, Marked
<1>5. Committed' = Committed \ {n}
  BY <1>1, <1>2, <1>3 DEF Committed
<1>6. Exact' /\ Covered'
  BY <1>1, <1>4, <1>5, CountKept DEF Calm
<1>7. Created'
  BY <1>1, <1>2, <1>3 DEF Created, Calm
<1>8. Deleted'
  BY <1>1, <1>2, <1>3 DEF Deleted, Calm
<1>9. Current'
  <2>1. \A r \in Refresh : list[r].held => n \notin list[r].items
    BY DEF CreateRefused, CreateRejected, Calm, Current
  <2>2. \A r \in Refresh : list[r].items \in SUBSET Name
    BY DEF TypeOK
  <2>3. Committed \in SUBSET Name
    BY DEF Committed
  <2> QED
    BY <1>1, <1>3, <1>4, <1>5, <2>1, <2>2, <2>3 DEF Current, Calm
<1> QED
  BY <1>6, <1>7, <1>8, <1>9 DEF Calm

LEMMA CalmCreateSent ==
  ASSUME TypeOK, Calm, NEW n \in Name, CreateSent(n)
  PROVE  Calm'
<1>1. /\ job[n] = "begun" /\ job' = [job EXCEPT ![n] = "sent"] /\ posted' = posted \cup {n}
      /\ UNCHANGED <<cloud, doomed, maxSize, group, kills, list, listed>>
  BY DEF CreateSent
<1>2. Intents' = Intents /\ Marked' = Marked
  BY <1>1 DEF Intents, Marked, group
<1>3. job'[n] = "sent" /\ \A m \in Name \ {n} : job'[m] = job[m]
  BY <1>1 DEF TypeOK
<1>4. Committed' = Committed
  BY <1>1, <1>3 DEF Committed
<1>5. Exact' /\ Covered'
  BY <1>1, <1>2, <1>4, CountKept DEF Calm, group
<1>6. Created'
  BY <1>1, <1>3 DEF Created, Calm, group
<1>7. Deleted'
  BY <1>1, <1>3 DEF Deleted, Calm, group
<1>8. Current'
  <2>1. \A r \in Refresh : list[r].held => n \notin list[r].items
    BY <1>1 DEF Calm, Current
  <2> QED
    BY <1>1, <1>2, <1>3, <1>4, <2>1 DEF Current, Calm, TypeOK, group
<1> QED
  BY <1>5, <1>6, <1>7, <1>8 DEF Calm

LEMMA CalmCreateLands ==
  ASSUME TypeOK, Calm, NEW n \in Name, CreateLands(n)
  PROVE  Calm'
<1>1. /\ n \in posted /\ posted' = posted \ {n} /\ cloud' = cloud \cup {n}
      /\ UNCHANGED <<doomed, maxSize, group, job, kills, list, listed>>
  BY DEF CreateLands
<1>2. Intents' = Intents /\ Marked' = Marked
  BY <1>1 DEF Intents, Marked, group
<1>3. creating[n] = "pending" /\ job[n] = "sent" /\ n \notin cloud \cup running
  BY <1>1 DEF Calm, Created
<1>4. Committed' \subseteq Committed
  BY <1>1 DEF Committed
<1>5. Exact' /\ Covered'
  BY <1>1, <1>2, <1>4, CountKept DEF Calm, group
<1>6. Created'
  BY <1>1, <1>3 DEF Created, Calm, group
<1>7. Deleted'
  BY <1>1, <1>2, <1>3 DEF Deleted, Calm, group, TypeOK, Marked
<1>8. Current'
  BY <1>1, <1>2, <1>3, <1>4 DEF Current, Calm, group
<1> QED
  BY <1>5, <1>6, <1>7, <1>8 DEF Calm

LEMMA CalmCreateAnswered ==
  ASSUME TypeOK, Calm, NEW n \in Name, CreateAnswered(n)
  PROVE  Calm'
<1>1. /\ job[n] = "sent" /\ n \notin posted /\ job' = [job EXCEPT ![n] = "done"]
      /\ creating' = [creating EXCEPT ![n] = IF @ = "none" THEN @ ELSE "resolved"]
      /\ UNCHANGED <<provider, maxSize, desired, running, deleting, kills, list, listed>>
  BY DEF CreateAnswered
<1>2. /\ job'[n] = "done" /\ creating'[n] \in {"none", "resolved"}
      /\ creating'[n] = "none" <=> creating[n] = "none"
      /\ \A m \in Name \ {n} : creating'[m] = creating[m] /\ job'[m] = job[m]
  BY <1>1 DEF TypeOK
<1>3. Intents' = Intents /\ Marked' = Marked
  BY <1>1, <1>2 DEF Intents, Marked
<1>4. Committed' = Committed
  BY <1>1, <1>2 DEF Committed, provider
<1>5. Exact' /\ Covered'
  BY <1>1, <1>3, <1>4, CountKept DEF Calm
<1>6. Created'
  BY <1>1, <1>2 DEF Created, Calm, provider
<1>7. Deleted'
  BY <1>1, <1>2 DEF Deleted, Calm, provider
<1>8. Current'
  <2>1. \A r \in Refresh : list[r].items \in SUBSET Name
    BY DEF TypeOK
  <2>2. Committed \in SUBSET Name
    BY DEF Committed
  <2> QED
    BY <1>1, <1>2, <1>3, <1>4, <2>1, <2>2 DEF Current, Calm, provider
<1> QED
  BY <1>5, <1>6, <1>7, <1>8 DEF Calm

LEMMA CalmDeleteTaken ==
  ASSUME TypeOK, Calm, NEW n \in Name, DeleteTaken(n)
  PROVE  Calm'
<1>1. /\ kills[n] > 0 /\ n \in cloud \ doomed /\ doomed' = doomed \cup {n}
      /\ UNCHANGED <<cloud, posted, maxSize, group, job, kills, list, listed>>
  BY DEF DeleteTaken
<1>2. Intents' = Intents /\ Marked' = Marked
  BY <1>1 DEF Intents, Marked, group
<1>3. Committed' = Committed
  BY <1>1 DEF Committed, TypeOK
<1>4. Exact' /\ Covered'
  BY <1>1, <1>2, <1>3, CountKept DEF Calm, group
<1>5. Created'
  BY <1>1 DEF Created, Calm, group
<1>6. Deleted'
  BY <1>1 DEF Deleted, Calm, group
<1>7. Current'
  BY <1>1, <1>2, <1>3 DEF Current, Calm, group
<1> QED
  BY <1>4, <1>5, <1>6, <1>7 DEF Calm

LEMMA CalmVanishes ==
  ASSUME TypeOK, Calm, NEW n \in Name, Vanishes(n) \/ Removed(n)
  PROVE  Calm'
<1>1. /\ n \in cloud /\ cloud' = cloud \ {n} /\ doomed' = doomed \ {n}
      /\ UNCHANGED <<posted, maxSize, group, job, kills, list, listed>>
  BY DEF Vanishes, Removed, TypeOK
<1>2. Intents' = Intents /\ Marked' = Marked
  BY <1>1 DEF Intents, Marked, group
<1>3. Committed' \subseteq Committed
  BY <1>1 DEF Committed
<1>4. Exact' /\ Covered'
  BY <1>1, <1>2, <1>3, CountKept DEF Calm, group
<1>5. Created'
  BY <1>1 DEF Created, Calm, group
<1>6. Deleted'
  BY <1>1 DEF Deleted, Calm, group
<1>7. Current'
  BY <1>1, <1>2, <1>3 DEF Current, Calm, group
<1> QED
  BY <1>4, <1>5, <1>6, <1>7 DEF Calm

LEMMA CalmDeleteAnswered ==
  ASSUME TypeOK, Calm, NEW n \in Name, DeleteAnswered(n)
  PROVE  Calm'
<1>1. /\ kills[n] > 0 /\ n \notin cloud \ doomed /\ kills' = [kills EXCEPT ![n] = @ - 1]
      /\ UNCHANGED <<provider, maxSize, group, job, list, listed>>
  BY DEF DeleteAnswered
<1>2. kills[n] = 1 /\ kills'[n] = 0 /\ \A m \in Name \ {n} : kills'[m] = kills[m]
  BY <1>1 DEF Calm, Deleted, TypeOK
<1>3. Intents' = Intents /\ Marked' = Marked
  BY <1>1 DEF Intents, Marked, group
<1>4. Committed' = Committed
  BY <1>1, <1>2 DEF Committed, provider
<1>5. Exact' /\ Covered'
  BY <1>1, <1>3, <1>4, CountKept DEF Calm, group
<1>6. Created'
  BY <1>1 DEF Created, Calm, group, provider
<1>7. Deleted'
  BY <1>1, <1>2 DEF Deleted, Calm, group, provider
<1>8. Current'
  <2>1. \A r \in Refresh : list[r].items \in SUBSET Name
    BY DEF TypeOK
  <2> QED
    BY <1>1, <1>2, <1>3, <1>4, <2>1 DEF Current, Calm, group, provider
<1> QED
  BY <1>5, <1>6, <1>7, <1>8 DEF Calm

LEMMA CalmListed ==
  ASSUME TypeOK, Calm, NEW r \in Refresh, Listed(r), ~slipped'
  PROVE  Calm'
<1>1. /\ list' = [list EXCEPT ![r] = [items |-> cloud, complete |-> TRUE, held |-> TRUE]]
      /\ \A q \in Refresh : ~list[q].held
      /\ UNCHANGED <<provider, maxSize, group, job, kills, listed>>
  BY DEF Listed
<1>2. Intents' = Intents /\ Marked' = Marked /\ Committed' = Committed
  BY <1>1 DEF Intents, Marked, Committed, group, provider
<1>3. Exact' /\ Covered'
  BY <1>1, <1>2, CountKept DEF Calm, group
<1>4. Created' /\ Deleted'
  BY <1>1 DEF Created, Deleted, Calm, group, provider
<1>5. list'[r].items = cloud /\ \A q \in Refresh : list'[q].held => q = r
  BY <1>1 DEF TypeOK
<1>6. ~listed => Cardinality(cloud) <= maxSize
  <2> SUFFICES ASSUME ~listed PROVE Cardinality(cloud) <= maxSize
    OBVIOUS
  <2>1. cloud \in SUBSET Committed /\ Committed \in SUBSET Name
    BY DEF Calm, Covered, Deleted, Committed, TypeOK, Marked
  <2>2. Cardinality(cloud) \in Nat /\ Cardinality(Committed) \in Nat /\ maxSize \in Nat
    BY <2>1, Sized, SizeAssumption DEF TypeOK
  <2> QED
    BY <2>1, <2>2, Within DEF Calm, Covered
<1>7. \A n \in Committed : n \in cloud \/ creating[n] \in {"pending", "resolved"}
  BY DEF Committed, Calm, Created
<1>8. \A n \in cloud :
        /\ n \notin posted /\ job[n] \in {"sent", "done"} /\ creating[n] # "failed"
        /\ kills[n] > 0 => deleting[n] = "deleting"
        /\ listed => n \in running \cup Intents
  <2>1. cloud \subseteq Name
    BY DEF TypeOK
  <2>2. \A n \in cloud : listed => n \in running \cup Intents
    BY DEF Calm, Deleted, Covered, Committed, TypeOK, Marked
  <2> QED
    BY <2>1, <2>2 DEF Calm, Created, Deleted
<1>9. Current'
  BY <1>1, <1>2, <1>5, <1>6, <1>7, <1>8 DEF Current, group, provider
<1> QED
  BY <1>3, <1>4, <1>9 DEF Calm

\* The fold changes what the group counts, but never beyond what it counted: the
\* cap does not bite.
LEMMA CalmFold ==
  ASSUME TypeOK, Calm, NEW r \in Refresh, Fold(r)
  PROVE  Calm'
<1> DEFINE items == list[r].items
<1>1. /\ items \in SUBSET Name
      /\ Marked' = {n \in items : deleting[n] = "deleting"}
      /\ Intents' = {n \in Name \ items : creating[n] \in {"pending", "resolved"}}
      /\ desired' = Least(maxSize, Cardinality(items \ Marked') + Cardinality(Intents'))
  BY Folded
<1>2. /\ running' = items /\ listed' = TRUE
      /\ list[r].held /\ list' = [list EXCEPT ![r] = NoList]
      /\ UNCHANGED <<provider, maxSize, job, kills>>
  BY DEF Fold
<1>3. /\ running \cap cloud \subseteq items
      /\ ~listed => Cardinality(items) <= maxSize
      /\ \A n \in Committed : n \in items \/ creating[n] \in {"pending", "resolved"}
      /\ \A n \in items :
           /\ n \notin posted /\ job[n] \in {"sent", "done"} /\ creating[n] # "failed"
           /\ kills[n] > 0 => deleting[n] = "deleting"
           /\ listed => n \in running \cup Intents
  BY <1>2 DEF Calm, Current
<1>4. \A n \in Name :
        /\ n \in items => creating'[n] = "none" /\ deleting'[n] = deleting[n]
        /\ n \notin items =>
             /\ deleting'[n] = "none"
             /\ creating'[n] = IF creating[n] = "failed" THEN "none" ELSE creating[n]
  BY DEF Fold, DropIntents, DropMarkers, Calm, Deleted
<1> HIDE DEF items
<1>5. Cardinality(items \ Marked') + Cardinality(Intents') <= maxSize
  <2>1. items \ Marked' \in SUBSET Name /\ Intents' \in SUBSET Name
    BY <1>1
  <2>2. /\ Cardinality(items \ Marked') \in Nat /\ Cardinality(Intents') \in Nat
        /\ maxSize \in Nat /\ Cardinality(items) \in Nat
    BY <1>1, <2>1, Sized, SizeAssumption DEF TypeOK
  <2>3. CASE ~listed
    <3>1. Intents' = {}
      BY <1>1, <2>3 DEF Calm, Covered, Intents
    <3>2. Cardinality(items \ Marked') <= Cardinality(items)
      BY <1>1, Within
    <3> QED
      BY <1>3, <2>2, <2>3, <3>1, <3>2, FS_EmptySet
  <2>4. CASE listed
    <3> DEFINE kept == running \ Marked
    <3>1. kept \in SUBSET Name /\ Intents \in SUBSET Name
      BY DEF TypeOK, Intents
    <3>2. (items \ Marked') \cup Intents' \in SUBSET (kept \cup Intents)
      BY <1>1, <1>3, <2>4 DEF Intents, Marked, Calm, Deleted, TypeOK
    <3>3. (items \ Marked') \cap Intents' = {}
      BY <1>1
    <3>4. Cardinality((items \ Marked') \cup Intents')
            = Cardinality(items \ Marked') + Cardinality(Intents')
      BY <2>1, <3>3, Together
    <3>5. Cardinality((items \ Marked') \cup Intents') <= Cardinality(kept \cup Intents)
      BY <3>1, <3>2, Within
    <3>6. /\ Cardinality(kept \cup Intents) <= Cardinality(kept) + Cardinality(Intents)
          /\ Cardinality(kept \cup Intents) \in Nat
      BY <3>1, Together, Sized
    <3>7. Cardinality(kept) + Cardinality(Intents) = desired /\ desired \in Nat /\ desired <= maxSize
      BY SizeAssumption DEF Calm, Exact, TypeOK
    <3> HIDE DEF kept
    <3> QED
      BY <2>2, <3>4, <3>5, <3>6, <3>7
  <2> QED
    BY <2>3, <2>4
<1>6. Exact'
  <2>1. Cardinality(items \ Marked') \in Nat /\ Cardinality(Intents') \in Nat /\ maxSize \in Nat
    BY <1>1, Sized, SizeAssumption DEF TypeOK
  <2>2. desired' = Cardinality(items \ Marked') + Cardinality(Intents')
    BY <1>1, <1>5, <2>1 DEF Least
  <2> QED
    BY <1>2, <2>2 DEF Exact
<1>7. Created'
  BY <1>1, <1>2, <1>3, <1>4 DEF Created, Calm, provider
<1>8. Deleted'
  <2>1. \A n \in Name : deleting[n] = "deleting" => n \in running
    BY DEF TypeOK, Marked
  <2>2. doomed \subseteq cloud
    BY DEF TypeOK
  <2> QED
    BY <1>1, <1>2, <1>3, <1>4, <2>1, <2>2 DEF Deleted, Calm, provider
<1>9. Covered'
  <2>1. Committed' = Committed
    BY <1>2 DEF Committed, provider
  <2>2. Committed \subseteq (items \ Marked') \cup Intents'
    BY <1>1, <1>3 DEF Committed, Calm, Deleted
  <2> QED
    BY <1>2, <2>1, <2>2 DEF Covered
<1>10. Current'
  <2>1. \A q \in Refresh : ~list'[q].held
    BY <1>2 DEF Calm, Current, NoList, TypeOK
  <2> QED
    BY <2>1 DEF Current
<1> QED
  BY <1>6, <1>7, <1>8, <1>9, <1>10 DEF Calm

\* A new manager counts nothing; with no call in flight, none is needed.
LEMMA CalmManager ==
  ASSUME Inv, Calm, ~slipped, Restart \/ \E m \in MaxSizes : Reload(m), ~slipped'
  PROVE  Calm'
<1>1. /\ NewManager /\ ~InFlight /\ UNCHANGED provider
      /\ maxSize' \in Nat /\ maxSize' >= maxSize
  <2>1. maxSize \in Nat
    BY SizeAssumption DEF Inv, TypeOK
  <2>2. CASE Restart
    <3>1. ~InFlight
      BY <2>2, Zenon DEF Restart
    <3> QED
      BY <2>1, <2>2, <3>1 DEF Restart
  <2>3. ASSUME NEW m \in MaxSizes, Reload(m)
        PROVE  /\ NewManager /\ ~InFlight /\ UNCHANGED provider
               /\ maxSize' \in Nat /\ maxSize' >= maxSize
    <3>1. ~(InFlight \/ m < maxSize)
      BY <2>3, Zenon DEF Reload
    <3>2. NewManager /\ UNCHANGED provider /\ maxSize' = m /\ m \in Nat
      BY <2>3, SizeAssumption DEF Reload
    <3> QED
      BY <2>1, <3>1, <3>2
  <2> QED
    BY <2>2, <2>3
<1>2. \A n \in Name :
        /\ kills[n] = 0 /\ kills'[n] = 0 /\ n \notin posted \cup doomed
        /\ job[n] \in {"none", "done"} /\ job'[n] = job[n]
  BY <1>1 DEF Restart, Reload, InFlight, Inv, TypeOK
<1>3. /\ Marked' = {} /\ Intents' = {} /\ Committed' = Committed
      /\ running' = {} /\ desired' = 0 /\ listed' = FALSE
  BY <1>1, <1>2 DEF NewManager, Marked, Intents, Committed, provider
<1>4. Exact'
  BY <1>3, FS_EmptySet DEF Exact
<1>5. Created'
  BY <1>1, <1>2, <1>3 DEF Created, Calm, NewManager, provider
<1>6. Deleted'
  BY <1>1, <1>2, <1>3 DEF Deleted, NewManager, provider
<1>7. Covered'
  <2>1. Cardinality(Committed) <= maxSize
    BY Bounded DEF WithinMax
  <2>2. Cardinality(Committed) \in Nat /\ maxSize \in Nat
    BY Sized, SizeAssumption DEF Committed, Inv, TypeOK
  <2> QED
    BY <1>1, <1>3, <2>1, <2>2 DEF Covered
<1>8. Current'
  BY <1>1 DEF NewManager, NoList, Current
<1> QED
  BY <1>4, <1>5, <1>6, <1>7, <1>8 DEF Calm

LEMMA Kept == Inv /\ [Next]_vars => Inv'
<1> SUFFICES ASSUME Inv, [Next]_vars PROVE Inv'
  OBVIOUS
<1>1. TypeOK /\ TypeOK'
  BY Typed DEF Inv
<1> SUFFICES ASSUME ~slipped' PROVE Calm'
  BY <1>1 DEF Inv
<1>2. ~slipped
  BY DEF Next, vars, IncreaseSize, DeleteNodes, DecreaseTargetSize, Create, Delete, Provider,
         CreateRefused, CreateSent, CreateAnswered, CreateRejected, CreateAnswerLost,
         DeleteAnswered, DeleteFails, CreateLands, DeleteTaken, Vanishes, Added, Removed,
         Listed, Fold, Reload, Restart
<1>3. Calm
  BY <1>2 DEF Inv
<1>4. CASE UNCHANGED vars
  BY <1>3, <1>4 DEF vars, group, provider, Calm, Exact, Created, Deleted, Covered, Current,
                    Marked, Intents, Committed
<1>5. CASE IncreaseSize \/ DeleteNodes \/ DecreaseTargetSize
  BY <1>1, <1>3, <1>5, CalmIncrease, CalmDelete DEF DecreaseTargetSize
<1>6. ASSUME NEW n \in Name, Create(n) PROVE Calm'
  BY <1>1, <1>3, <1>6, CalmCreateFails, CalmCreateSent, CalmCreateAnswered
     DEF Create, CreateAnswerLost
<1>7. ASSUME NEW n \in Name, Delete(n) \/ Provider(n) PROVE Calm'
  BY <1>1, <1>3, <1>7, CalmDeleteAnswered, CalmCreateLands, CalmDeleteTaken, CalmVanishes
     DEF Delete, Provider, DeleteFails
<1>8. ASSUME NEW n \in Name, Added(n) \/ Removed(n) PROVE Calm'
  BY <1>1, <1>3, <1>8, CalmVanishes DEF Added
<1>9. ASSUME NEW r \in Refresh, Listed(r) \/ Fold(r) PROVE Calm'
  BY <1>1, <1>3, <1>9, CalmListed, CalmFold
<1>10. CASE Restart \/ \E m \in MaxSizes : Reload(m)
  BY <1>2, <1>3, <1>10, CalmManager
<1> QED
  BY <1>4, <1>5, <1>6, <1>7, <1>8, <1>9, <1>10 DEF Next

-----------------------------------------------------------------------------

LEMMA Invariant == Spec => []Inv
<1>1. Init => Inv
  BY TypedInit, CalmInit DEF Inv
<1> QED
  BY <1>1, Kept, PTL DEF Spec

\* The servers a group is committed to never exceed maxSize, for any servers,
\* refreshes and sizes, while nothing the property excuses has happened
\* (groups.js:197, 585).
THEOREM GroupWithinMax == Spec => []WithinMax
BY Invariant, Bounded, PTL

\* The target always equals the listed servers not marked, and the intents
\* (groups.js:488-492).
THEOREM GroupTargetExact == Spec => []TargetExact
<1>1. Inv => TargetExact
  BY DEF Inv, Calm, Exact, TargetExact
<1> QED
  BY <1>1, Invariant, PTL

\* No server has two deleteServer calls under way (groups.js:385-391).
THEOREM GroupDeletesOnce == Spec => []DeletesOnce
<1>1. Inv => DeletesOnce
  BY DEF Inv, Calm, Deleted, DeletesOnce
<1> QED
  BY <1>1, Invariant, PTL

=============================================================================
