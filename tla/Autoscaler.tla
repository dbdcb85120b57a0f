---------------------------- MODULE Autoscaler ----------------------------
(***************************************************************************)
(* The node group of carbon-autoscaler (src/autoscaler/groups.js, with the *)
(* Refresh handler of service.js): a target the cluster autoscaler (CA)    *)
(* moves, creates and deletes that run in the background, and refreshes    *)
(* that list the cloud, wait, and then fold what they saw into the group.  *)
(*                                                                         *)
(* A section under the FIFO mutex has no await inside it, so it is one     *)
(* step; each provider call is a step of its own, and so is what the       *)
(* provider does with it.  A server is known by its name: names are drawn  *)
(* at random, one per create, and never used again.                        *)
(***************************************************************************)
EXTENDS Naturals, FiniteSets

CONSTANTS
  Name,       \* server names
  Refresh,    \* the Refresh calls that can be under way at once
  MaxSizes,   \* the values of maxSize in the config file over time
  Events,     \* what may go wrong or be done from outside, see Chance
  MaxEvents   \* bound on CA's calls and on those events

ASSUME NameAssumption == IsFiniteSet(Name)
ASSUME SizeAssumption == MaxSizes \subseteq Nat /\ MaxEvents \in Nat
ASSUME EventAssumption ==
  Events \subseteq {"decrease", "reload", "restart", "added", "removed",
                    "softList", "lostAnswer", "deleteFails"}

VARIABLES
  (* the cloud *)
  cloud,     \* servers a listing shows
  posted,    \* creates the provider has that have not produced a server
  doomed,    \* servers the provider is tearing down (DELETE is asynchronous)
  (* the group in the current GroupManager *)
  maxSize,   \* of its config
  desired,   \* the target CA sees
  running,   \* servers of the last folded listing
  creating,  \* name -> intent of a create
  deleting,  \* name -> marker of a delete
  (* tasks of the process *)
  job,       \* name -> step of _createInBackground
  kills,     \* name -> deleteServer calls under way
  list,      \* refresh -> the listing it has yet to fold
  (* bookkeeping of the model *)
  listed,    \* the current manager has folded a listing
  slipped,   \* something happened that excuses the bound, see WithinMax
  events     \* CA calls and events so far

group == <<desired, running, creating, deleting>>
provider == <<cloud, posted, doomed>>
vars == <<provider, maxSize, group, job, kills, list, listed, slipped, events>>

NoList == [items |-> {}, complete |-> TRUE, held |-> FALSE]
Intents == {n \in Name : creating[n] # "none"}
Marked == {n \in Name : deleting[n] # "none"}

\* The smaller of two numbers.
Least(a, b) == IF a < b THEN a ELSE b

\* Math.max(0, a - b).
Less(a, b) == IF a < b THEN 0 ELSE a - b

\* Creates or deletes that only the current manager knows of.
InFlight ==
  \E n \in Name : job[n] \in {"begun", "sent"} \/ n \in posted \cup doomed \/ kills[n] > 0

-----------------------------------------------------------------------------

Init ==
  /\ maxSize \in MaxSizes
  /\ cloud \in {S \in SUBSET Name : Cardinality(S) <= maxSize}
  /\ posted = {} /\ doomed = {}
  /\ desired = 0 /\ running = {}
  /\ creating = [n \in Name |-> "none"] /\ deleting = [n \in Name |-> "none"]
  /\ job = [n \in Name |-> IF n \in cloud THEN "done" ELSE "none"]
  /\ kills = [n \in Name |-> 0]
  /\ list = [r \in Refresh |-> NoList]
  /\ listed = FALSE /\ slipped = FALSE /\ events = 0

Count == events < MaxEvents /\ events' = events + 1
Chance(e) == e \in Events /\ Count

-----------------------------------------------------------------------------
\* What CA asks for.

\* increaseSize: reserve the target and the intents, then leave the creates to
\* background tasks.  Before the first listing the target starts from 0
\* whatever the cloud holds.
IncreaseSize ==
  \E fresh \in (SUBSET {n \in Name : job[n] = "none"}) \ {{}} :
    /\ desired + Cardinality(fresh) <= maxSize
    /\ desired' = desired + Cardinality(fresh)
    /\ creating' = [n \in Name |-> IF n \in fresh THEN "pending" ELSE creating[n]]
    /\ job' = [n \in Name |-> IF n \in fresh THEN "begun" ELSE job[n]]
    /\ slipped' = (slipped \/ ~listed)
    /\ Count
    /\ UNCHANGED <<provider, maxSize, running, deleting, kills, list, listed>>

\* deleteNodes: every name must be of the group; those marked already are skipped.
DeleteNodesTwice ==
  \E nodes \in (SUBSET running) \ {{}} :
    /\ deleting' = [n \in Name |-> IF n \in nodes THEN "deleting" ELSE deleting[n]]
    /\ desired' = Less(desired, Cardinality(nodes))
    /\ kills' = [n \in Name |-> IF n \in nodes THEN kills[n] + 1 ELSE kills[n]]
    /\ Count
    /\ UNCHANGED <<provider, maxSize, running, creating, job, list, listed, slipped>>
DeleteNodes ==
  \E nodes \in (SUBSET running) \ {{}} :
    LET new == nodes \ Marked IN
    /\ deleting' = [n \in Name |-> IF n \in new THEN "deleting" ELSE deleting[n]]
    /\ desired' = Less(desired, Cardinality(new))
    /\ kills' = [n \in Name |-> IF n \in new THEN kills[n] + 1 ELSE kills[n]]
    /\ Count
    /\ UNCHANGED <<provider, maxSize, running, creating, job, list, listed, slipped>>

\* decreaseTargetSize: the intents that made the target stay where they are.
DecreaseTargetSize ==
  \E delta \in 1..desired :
    /\ desired - delta >= Cardinality(running)
    /\ desired' = desired - delta
    /\ slipped' = TRUE
    /\ Chance("decrease")
    /\ UNCHANGED <<provider, maxSize, running, creating, deleting, job, kills, list, listed>>

-----------------------------------------------------------------------------
\* The background tasks.

\* The fold of a create that failed, if the intent is still tracked.
Failed(n) ==
  creating' = [creating EXCEPT ![n] = IF @ = "none" THEN @ ELSE "failed"]

\* The network lookup fails: the create is refused.  (Creates of one refresh cycle
\* share a lookup; here each has its own.)
CreateRefused(n) ==
  /\ job[n] = "begun"
  /\ job' = [job EXCEPT ![n] = "done"]
  /\ Failed(n)
  /\ UNCHANGED <<provider, maxSize, desired, running, deleting, kills, list, listed, slipped, events>>

\* createServer is called.
CreateSent(n) ==
  /\ job[n] = "begun"
  /\ job' = [job EXCEPT ![n] = "sent"]
  /\ posted' = posted \cup {n}
  /\ UNCHANGED <<cloud, doomed, maxSize, group, kills, list, listed, slipped, events>>

\* The provider creates the server.
CreateLands(n) ==
  /\ n \in posted
  /\ posted' = posted \ {n}
  /\ cloud' = cloud \cup {n}
  /\ UNCHANGED <<doomed, maxSize, group, job, kills, list, listed, slipped, events>>

\* createServer returns the id.
CreateAnswered(n) ==
  /\ job[n] = "sent" /\ n \notin posted
  /\ job' = [job EXCEPT ![n] = "done"]
  /\ creating' = [creating EXCEPT ![n] = IF @ = "none" THEN @ ELSE "resolved"]
  /\ UNCHANGED <<provider, maxSize, desired, running, deleting, kills, list, listed, slipped, events>>

\* The provider refuses the create.
CreateRejected(n) ==
  /\ job[n] = "sent" /\ n \in posted
  /\ job' = [job EXCEPT ![n] = "done"]
  /\ posted' = posted \ {n}
  /\ Failed(n)
  /\ UNCHANGED <<cloud, doomed, maxSize, desired, running, deleting, kills, list, listed, slipped, events>>

\* createServer throws although the provider has, or will have, the server: its
\* last attempt lost the answer.
CreateAnswerLost(n) ==
  /\ Chance("lostAnswer")
  /\ job[n] = "sent"
  /\ job' = [job EXCEPT ![n] = "done"]
  /\ Failed(n)
  /\ slipped' = TRUE
  /\ UNCHANGED <<provider, maxSize, desired, running, deleting, kills, list, listed>>

\* The provider takes a delete.
DeleteTaken(n) ==
  /\ kills[n] > 0 /\ n \in cloud \ doomed
  /\ doomed' = doomed \cup {n}
  /\ UNCHANGED <<cloud, posted, maxSize, group, job, kills, list, listed, slipped, events>>

\* The server is gone.
Vanishes(n) ==
  /\ n \in doomed
  /\ cloud' = cloud \ {n} /\ doomed' = doomed \ {n}
  /\ UNCHANGED <<posted, maxSize, group, job, kills, list, listed, slipped, events>>

\* deleteServer returns, on acceptance or on 404: nothing is folded.
DeleteAnswered(n) ==
  /\ kills[n] > 0 /\ n \notin cloud \ doomed
  /\ kills' = [kills EXCEPT ![n] = @ - 1]
  /\ UNCHANGED <<provider, maxSize, group, job, list, listed, slipped, events>>

\* deleteServer throws, whether or not the provider took the delete.
DeleteFails(n) ==
  /\ Chance("deleteFails")
  /\ kills[n] > 0
  /\ kills' = [kills EXCEPT ![n] = @ - 1]
  /\ deleting' = [deleting EXCEPT ![n] = IF @ = "none" THEN @ ELSE "failed"]
  /\ slipped' = TRUE
  /\ UNCHANGED <<provider, maxSize, desired, running, creating, job, list, listed>>

-----------------------------------------------------------------------------
\* Refresh.

\* The provider lists the servers for a Refresh.  A list call that throws leaves
\* the group as it was; one the provider refuses (a 403) does not throw, and what
\* the pages before it held is the answer.
Listed(r) ==
  /\ ~list[r].held
  /\ \/ /\ list' = [list EXCEPT ![r] = [items |-> cloud, complete |-> TRUE, held |-> TRUE]]
        /\ slipped' = (slipped \/ \E q \in Refresh : list[q].held)
        /\ UNCHANGED events
     \/ /\ Chance("softList")
        /\ \E part \in (SUBSET cloud) \ {cloud} :
             list' = [list EXCEPT ![r] = [items |-> part, complete |-> FALSE, held |-> TRUE]]
        /\ slipped' = TRUE
  /\ UNCHANGED <<provider, maxSize, group, job, kills, listed>>

\* Intents that showed up, or that failed, are dropped.
DropIntentsResolved(items) ==
  creating' = [n \in Name |->
    IF n \in items \/ creating[n] \in {"resolved", "failed"} THEN "none" ELSE creating[n]]
DropIntents(items) ==
  creating' = [n \in Name |->
    IF n \in items \/ creating[n] = "failed" THEN "none" ELSE creating[n]]

\* Markers whose server is gone, or whose call failed, are dropped.
DropMarkersGone(items) ==
  deleting' = [n \in Name |-> IF n \notin items THEN "none" ELSE deleting[n]]
DropMarkers(items) ==
  deleting' = [n \in Name |->
    IF n \notin items \/ deleting[n] = "failed" THEN "none" ELSE deleting[n]]

\* The locked part of _refreshGroup: reconcile, then snap the target.
Fold(r) ==
  LET items == list[r].items IN
  /\ list[r].held
  /\ list' = [list EXCEPT ![r] = NoList]
  /\ DropIntents(items)
  /\ DropMarkers(items)
  /\ running' = items
  /\ desired' = Least(maxSize, Cardinality(items) - Cardinality(Marked') + Cardinality(Intents'))
  /\ listed' = TRUE
  /\ UNCHANGED <<provider, maxSize, job, kills, slipped, events>>

-----------------------------------------------------------------------------
\* A new manager, and changes behind its back.

NewManager ==
  /\ desired' = 0 /\ running' = {}
  /\ creating' = [n \in Name |-> "none"] /\ deleting' = [n \in Name |-> "none"]
  /\ list' = [r \in Refresh |-> NoList]
  /\ listed' = FALSE

\* The Refresh handler sees a changed config: the old manager's tasks run on,
\* but fold into an object nobody reads.
Reload(m) ==
  /\ Chance("reload")
  /\ maxSize' = m
  /\ NewManager
  /\ slipped' = (slipped \/ InFlight \/ m < maxSize)
  /\ UNCHANGED <<provider, job, kills>>

\* The pod restarts: its tasks are gone, what they sent is not.
Restart ==
  /\ Chance("restart")
  /\ NewManager
  /\ job' = [n \in Name |-> IF job[n] = "none" THEN "none" ELSE "done"]
  /\ kills' = [n \in Name |-> 0]
  /\ slipped' = (slipped \/ InFlight)
  /\ UNCHANGED <<provider, maxSize>>

\* An operator adds a server with the group's labels.
Added(n) ==
  /\ Chance("added")
  /\ job[n] = "none"
  /\ job' = [job EXCEPT ![n] = "done"]
  /\ cloud' = cloud \cup {n}
  /\ slipped' = TRUE
  /\ UNCHANGED <<posted, doomed, maxSize, group, kills, list, listed>>

\* An operator deletes a server no intent is waiting for.  (One deleted before a
\* listing showed it would leave its intent in the target for good.)
Removed(n) ==
  /\ Chance("removed")
  /\ n \in cloud /\ creating[n] = "none" /\ job[n] = "done"
  /\ cloud' = cloud \ {n} /\ doomed' = doomed \ {n}
  /\ UNCHANGED <<posted, maxSize, group, job, kills, list, listed, slipped>>

-----------------------------------------------------------------------------

Create(n) ==
  CreateRefused(n) \/ CreateSent(n) \/ CreateAnswered(n) \/ CreateRejected(n)
    \/ CreateAnswerLost(n)
Delete(n) == DeleteAnswered(n) \/ DeleteFails(n)
Provider(n) == CreateLands(n) \/ DeleteTaken(n) \/ Vanishes(n)

Next ==
  \/ IncreaseSize \/ DeleteNodes \/ DecreaseTargetSize
  \/ \E n \in Name : Create(n) \/ Delete(n) \/ Provider(n) \/ Added(n) \/ Removed(n)
  \/ \E r \in Refresh : Listed(r) \/ Fold(r)
  \/ \E m \in MaxSizes : Reload(m)
  \/ Restart

Spec == Init /\ [][Next]_vars

\* The tasks of the process go on, the provider does what it took on, and CA
\* refreshes for ever.  Nothing is assumed of CA's other calls.
FairSpec ==
  /\ Spec
  /\ \A n \in Name :
       /\ WF_vars(CreateRefused(n) \/ CreateSent(n))
       /\ WF_vars(CreateLands(n) \/ CreateRejected(n))
       /\ WF_vars(CreateAnswered(n))
       /\ WF_vars(DeleteTaken(n)) /\ WF_vars(Vanishes(n)) /\ WF_vars(DeleteAnswered(n))
  /\ \A r \in Refresh : WF_vars(Listed(r)) /\ WF_vars(Fold(r))

-----------------------------------------------------------------------------

Intent == {"none", "pending", "resolved", "failed"}

\* Every variable has the type the code gives it.
TypeOK ==
  /\ cloud \subseteq Name /\ posted \subseteq Name /\ doomed \subseteq cloud
  /\ maxSize \in MaxSizes /\ desired \in 0..maxSize /\ running \subseteq Name
  /\ creating \in [Name -> Intent]
  /\ deleting \in [Name -> {"none", "deleting", "failed"}] /\ Marked \subseteq running
  /\ job \in [Name -> {"none", "begun", "sent", "done"}]
  /\ kills \in [Name -> Nat]
  /\ list \in [Refresh -> [items : SUBSET Name, complete : BOOLEAN, held : BOOLEAN]]
  /\ listed \in BOOLEAN /\ slipped \in BOOLEAN /\ events \in 0..MaxEvents

\* What the group will have once all it asked for is done: the servers nobody is
\* deleting, and the creates that may still produce one.
Committed ==
  {n \in Name : \/ n \in cloud \ doomed /\ kills[n] = 0
                \/ n \in posted \/ job[n] = "begun"}

\* However refreshes, background creates and deletes interleave with CA's calls,
\* the group never commits to more than maxSize servers (groups.js:197, 585).
\* Excused is what the code cannot tell or lets through: an increase before the
\* first listing, a decrease, two listings at once, a lost answer, a failed
\* delete, a refused list page, servers added by hand, a manager replaced while
\* calls of its own are in flight, a lower maxSize.
WithinMax == ~slipped => Cardinality(Committed) <= maxSize

\* Between refreshes the calls keep the target where a refresh would put it: the
\* listed servers not marked for deletion, and the intents (groups.js:488-492).
TargetExact ==
  ~slipped => desired = Cardinality(running \ Marked) + Cardinality(Intents)

\* One delete is one deleteServer call, whatever refreshes and repeated calls come
\* between (groups.js:385-391).
DeletesOnce == ~slipped => \A n \in Name : kills[n] <= 1

\* Whatever happened, lost answers, restarts, reloads and listings out of order
\* included: when CA and the operator stop, the group comes to agree with the
\* cloud, with no intent or marker left (groups.js:492-496).
Converges ==
  <>[](running = cloud /\ Intents = {} /\ Marked = {}
         /\ desired = Least(maxSize, Cardinality(cloud)))

=============================================================================
