--------------------------- MODULE HaSystemProofs ---------------------------
(***************************************************************************)
(* Type correctness and JournalCoversPromote of HaSystem, for any two      *)
(* clusters, any identifiers and transactions, and any bounds.             *)
(*                                                                         *)
(* TypeOK is inductive by itself: the lemmas go from the helpers that      *)
(* rewrite a cluster (NodeUpdates), over remote calls that fail half way   *)
(* (ScaleTypes, RetireTypes), to the steps of each command.  A step that   *)
(* writes several records at once is split by the record it writes.        *)
(*                                                                         *)
(* JournalCoversPromote is not: that nobody drops the journal of an        *)
(* outstanding promote depends on which step of which command can leave    *)
(* one behind, which is PromoteOwned.  Nearly every step is Calm: it sends *)
(* no promote, puts no side back in recovery and leaves the roles and the  *)
(* journal alone, so that only its pc matters.  The others are proved one  *)
(* by one.                                                                 *)
(***************************************************************************)
EXTENDS HaSystem, TLAPS

\* There are two sides, and Other is the other one.
LEMMA Sides ==
  /\ Side # {}
  /\ \A s \in Side : Other(s) \in Side /\ Other(s) # s
  /\ \A s, t \in Side : t = s \/ t = Other(s)
<1>1. PICK s, t \in Side : s # t /\ Side = {s, t}
  BY SideAssumption
<1>2. \A u \in Side : \E v \in Side : v # u
  BY <1>1
<1>3. \A u \in Side : Other(u) \in Side /\ Other(u) # u
  BY <1>2 DEF Other
<1> QED
  BY <1>1, <1>3

Pc == {"idle"} \cup FailoverPc \cup AbortPc \cup DeployPc

\* What the commands write on a cluster leaves a cluster (the helpers of HaPair).
LEMMA NodeUpdates ==
  ASSUME NEW n \in Node
  PROVE  /\ \A b \in BOOLEAN, c \in BOOLEAN :
              ScaledDown(n, b, c) \in Node /\ ScaledUp(n, b, c) \in Node
         /\ \A r \in Role, live \in BOOLEAN : WithRole(n, r, live) \in Node
         /\ \A f \in {"off", "set", "on"} : [n EXCEPT !.fence = f] \in Node
         /\ \A b \in BOOLEAN : [n EXCEPT !.retired = b] \in Node
         /\ Unfenced(n) \in Node /\ Stopped(n) \in Node /\ Fencing(n) \in Node
         /\ Restarted(n) \in Node /\ Promoting(n) \in Node
         /\ [n EXCEPT !.db = "run"] \in Node
         /\ \A m \in Node : Reseeded(n, m) \in Node
<1>1. ASSUME NEW b \in BOOLEAN, NEW c \in BOOLEAN
      PROVE  ScaledDown(n, b, c) \in Node /\ ScaledUp(n, b, c) \in Node
  <2>1. CASE b /\ c
    BY <2>1 DEF Node, ScaledDown, ScaledUp
  <2>2. CASE b /\ ~c
    BY <2>2 DEF Node, ScaledDown, ScaledUp
  <2>3. CASE ~b /\ c
    BY <2>3 DEF Node, ScaledDown, ScaledUp
  <2>4. CASE ~b /\ ~c
    BY <2>4 DEF Node, ScaledDown, ScaledUp
  <2> QED
    BY <2>1, <2>2, <2>3, <2>4
<1>2. \A r \in Role, live \in BOOLEAN : WithRole(n, r, live) \in Node
  BY DEF Node, WithRole
<1>3. Unfenced(n) \in Node /\ Stopped(n) \in Node /\ Fencing(n) \in Node
  BY DEF Node, Unfenced, Stopped, Fencing
<1>4. Restarted(n) \in Node /\ Promoting(n) \in Node
  BY DEF Node, Restarted, Promoting
<1>5. \A m \in Node : Reseeded(n, m) \in Node
  BY <1>4 DEF Node, Reseeded
<1>6. /\ \A f \in {"off", "set", "on"} : [n EXCEPT !.fence = f] \in Node
      /\ \A b \in BOOLEAN : [n EXCEPT !.retired = b] \in Node
      /\ [n EXCEPT !.db = "run"] \in Node
  BY DEF Node
<1> QED
  BY <1>1, <1>2, <1>3, <1>4, <1>5, <1>6

UsedType == [runs: Nat, faults: Nat, crashes: Nat, behind: BOOLEAN]

\* The counters of the bounds stay numbers, whichever way a remote call ends.
LEMMA UsedUpdates ==
  ASSUME used \in UsedType
  PROVE  /\ used' = used => used' \in UsedType
         /\ Spent => used' \in UsedType
         /\ \A b : Succeeded(b) => used' \in UsedType
         /\ \A b : Failed(b) => used' \in UsedType
  BY DEF UsedType, Spent, Succeeded, Failed

-----------------------------------------------------------------------------
(* What every command shares, without the locals of each.                  *)

Shared ==
  /\ node \in [Side -> Node]
  /\ link \in BOOLEAN
  /\ dns \in Side
  /\ cfg \in Config
  /\ used \in UsedType

\* What the types of the shared state say of the two roles and of one write.
LEMMA SharedFacts ==
  ASSUME Shared
  PROVE  /\ Primary \in Side /\ Standby \in Side
         /\ \A s \in Side : node[s] \in Node
         /\ \A s \in Side, n \in Node : Set(s, n) => node' \in [Side -> Node]
         /\ node' = node => node' \in [Side -> Node]
         /\ \A s \in Side : Running(s) \in BOOLEAN
<1>1. cfg.primary \in Side
  BY DEF Shared, Config
<1>2. Primary \in Side /\ Standby \in Side
  BY <1>1, Sides DEF Primary, Standby
<1>3. \A s \in Side : node[s] \in Node
  BY DEF Shared
<1>4. \A s \in Side, n \in Node : Set(s, n) => node' \in [Side -> Node]
  BY DEF Set, Shared
<1> QED
  BY <1>2, <1>3, <1>4 DEF Running, Shared

\* scaleDeployments, whole or partial, leaves two well-formed clusters.
LEMMA ScaleTypes ==
  ASSUME Shared, NEW s \in Side, Scale(s, ScaledDown) \/ Scale(s, ScaledUp)
  PROVE  node' \in [Side -> Node] /\ used' \in UsedType
<1>1. node[s] \in Node /\ used \in UsedType
  BY SharedFacts DEF Shared
<1>2. Succeeded(Answers(s)) \/ Failed(Answers(s))
  BY DEF Scale
<1>3. \E tier, addons \in BOOLEAN :
        \/ Set(s, ScaledDown(node[s], tier, addons))
        \/ Set(s, ScaledUp(node[s], tier, addons))
  BY DEF Scale
<1> QED
  BY <1>1, <1>2, <1>3, NodeUpdates, SharedFacts, UsedUpdates

\* So does fenceRetiredNode, whichever of its steps fail.
LEMMA RetireTypes ==
  ASSUME Shared, NEW s \in Side, Retire(s)
  PROVE  node' \in [Side -> Node] /\ used' \in UsedType
<1>1. node[s] \in Node /\ used \in UsedType /\ Running(s) \in BOOLEAN
  BY SharedFacts DEF Shared
<1>2. CASE /\ Succeeded(DbAnswers(s))
           /\ Set(s, [ScaledDown(WithRole(node[s], "standby", TRUE), TRUE, TRUE)
                        EXCEPT !.retired = TRUE])
  BY <1>1, <1>2, NodeUpdates, SharedFacts, UsedUpdates DEF Role
<1>3. CASE /\ Failed(DbAnswers(s))
     /\ \E markers, workloads, role \in BOOLEAN :
          /\ markers => DbAnswers(s)
          /\ workloads \/ role => Answers(s)
          /\ LET zeroed == ScaledDown(node[s], workloads, workloads)
                 marked == [zeroed EXCEPT !.retired = IF markers THEN TRUE ELSE @]
             IN Set(s, IF role THEN WithRole(marked, "standby", Running(s)) ELSE marked)
  <2>1. PICK markers \in BOOLEAN, workloads \in BOOLEAN, role \in BOOLEAN :
          LET zeroed == ScaledDown(node[s], workloads, workloads)
              marked == [zeroed EXCEPT !.retired = IF markers THEN TRUE ELSE @]
          IN Set(s, IF role THEN WithRole(marked, "standby", Running(s)) ELSE marked)
    BY <1>3
  <2> DEFINE zeroed == ScaledDown(node[s], workloads, workloads)
             marked == [zeroed EXCEPT !.retired = IF markers THEN TRUE ELSE @]
  <2>2. zeroed \in Node
    BY <1>1, NodeUpdates
  <2>3. marked \in Node
    <3> HIDE DEF zeroed
    <3> QED BY <2>2 DEF Node
  <2>4. WithRole(marked, "standby", Running(s)) \in Node
    <3> HIDE DEF marked
    <3> QED BY <1>1, <2>3, NodeUpdates DEF Role
  <2>5. node' \in [Side -> Node]
    BY <2>1, <2>3, <2>4, SharedFacts
  <2> QED
    BY <1>1, <1>3, <2>5, UsedUpdates
<1> QED
  BY <1>2, <1>3 DEF Retire

\* TypeOK in parts: what every command shares, and the locals of each.
LEMMA TypeOKParts ==
  TypeOK <=> Shared /\ pc \in Pc /\ fo \in Failover /\ ab \in Abort /\ de \in Deploy
  BY DEF TypeOK, Shared, UsedType, Pc

\* The same of the next state.
LEMMA TypeOKPartsNext ==
  Shared' /\ pc' \in Pc /\ fo' \in Failover /\ ab' \in Abort /\ de' \in Deploy => TypeOK'
  BY DEF TypeOK, Shared, UsedType, Pc

\* A command that ends leaves well-formed locals.
LEMMA NoLocalsTypes == NoFailover \in Failover /\ NoAbort \in Abort /\ NoDeploy \in Deploy
  BY DEF NoFailover, Failover, Proof, NoAbort, Abort, NoDeploy, Deploy

\* The steps of the three commands.
LEMMA Pcs == FailoverPc \subseteq Pc /\ AbortPc \subseteq Pc /\ DeployPc \subseteq Pc /\ "idle" \in Pc
  BY DEF Pc

\* Every step of `failover` (failoverHA) keeps the types.
LEMMA FailoverTypes ==
  ASSUME Shared, fo \in Failover, pc \in Pc, FailoverStep
  PROVE  Shared' /\ fo' \in Failover /\ pc' \in Pc
<1> USE SharedFacts
<1>1. CASE ProbePrimary
  BY <1>1, NodeUpdates, UsedUpdates, ScaleTypes, RetireTypes, NoLocalsTypes, Pcs
  DEF ProbePrimary, PrimaryReady, Shared, Config, Failover, FailoverPc, Role, Proof
<1>2. CASE LiftStranded
  BY <1>2, NodeUpdates, UsedUpdates, ScaleTypes, RetireTypes, NoLocalsTypes, Pcs
  DEF LiftStranded, Saved, Exit, Goto, Shared, Config, Failover, FailoverPc, Role, Proof
<1>3. CASE Check
  <2>1. node' \in [Side -> Node]
    BY <1>3, NodeUpdates, ScaleTypes, RetireTypes
    DEF Check, Exit, Goto, StandbyReadings, Role
  <2>2. used' \in UsedType
    BY <1>3, UsedUpdates, ScaleTypes, RetireTypes
    DEF Check, Exit, Goto, StandbyReadings, Shared
  <2>3. cfg' \in Config
    BY <1>3 DEF Check, Exit, Goto, StandbyReadings, Shared, Config, Failover, Journal
  <2>4. fo' \in Failover
    <3>1. \A standby \in StandbyReadings : standby.id \in Id \cup {None}
      BY DEF StandbyReadings, Shared, Node
    <3>2. \/ fo' = NoFailover
          \/ \E id \in Id \cup {None} :
               fo' = [fo EXCEPT !.journaled = cfg.journal # None,
                                !.resume = ~node[Standby].rec, !.seen = id]
      BY <1>3, <3>1 DEF Check, Exit, Goto
    <3>3. node[Standby].rec \in BOOLEAN
      BY DEF Shared, Node
    <3> QED
      BY <3>2, <3>3, NoLocalsTypes DEF Failover
  <2>5. pc' \in Pc
    BY <1>3, Pcs DEF Check, Exit, Goto, StandbyReadings, FailoverPc
  <2> QED
    BY <1>3, <2>1, <2>2, <2>3, <2>4, <2>5 DEF Shared, Check
<1>4. CASE Quiesce
  BY <1>4, NodeUpdates, UsedUpdates, ScaleTypes, RetireTypes, NoLocalsTypes, Pcs
  DEF Quiesce, Shared, Config, Failover, FailoverPc, Role, Proof
<1>5. CASE Drained
  BY <1>5, NodeUpdates, UsedUpdates, ScaleTypes, RetireTypes, NoLocalsTypes, Pcs
  DEF Drained, NotFenced, Aborts, AbortedTo, Goto, Shared, Config, Failover,
      FailoverPc, Role, Proof
<1>6. CASE Mark
  <2>1. cfg' \in Config
    BY <1>6 DEF Mark, Saved, SaveFailed, Shared, Config
  <2>2. used' \in UsedType
    BY <1>6, UsedUpdates DEF Mark, Saved, SaveFailed, Shared
  <2>3. fo' \in Failover
    BY <1>6, NoLocalsTypes DEF Mark, NotFenced, Aborts, Failover
  <2>4. pc' \in Pc
    BY <1>6, Pcs DEF Mark, NotFenced, Aborts, AbortedTo, Goto, FailoverPc
  <2> QED
    BY <1>6, <2>1, <2>2, <2>3, <2>4 DEF Mark, Shared
<1>7. CASE Fence
  <2>1. node' \in [Side -> Node]
    BY <1>7, NodeUpdates DEF Fence, Set, Role, Shared
  <2>2. used' \in UsedType
    BY <1>7, UsedUpdates DEF Fence, Shared
  <2>3. fo' \in Failover
    BY <1>7, NoLocalsTypes DEF Fence, NotFenced, Aborts, Goto
  <2>4. pc' \in Pc
    BY <1>7, Pcs DEF Fence, NotFenced, Aborts, AbortedTo, Goto, FailoverPc
  <2> QED
    BY <1>7, <2>1, <2>2, <2>3, <2>4 DEF Fence, Shared
<1>8. CASE Terminate
  <2>1. node' \in [Side -> Node]
    BY <1>8, NodeUpdates DEF Terminate, Set, Role, Shared
  <2>2. used' \in UsedType
    BY <1>8, UsedUpdates DEF Terminate, Shared
  <2>3. fo' \in Failover
    BY <1>8, NoLocalsTypes DEF Terminate, NotFenced, Aborts, Goto
  <2>4. pc' \in Pc
    BY <1>8, Pcs DEF Terminate, NotFenced, Aborts, AbortedTo, Goto, FailoverPc
  <2> QED
    BY <1>8, <2>1, <2>2, <2>3, <2>4 DEF Terminate, Shared
<1>9. CASE Capture
  <2>1. node' \in [Side -> Node]
    BY <1>9 DEF Capture, Shared
  <2>2. used' \in UsedType
    BY <1>9, UsedUpdates DEF Capture, Shared
  <2>3. fo' \in Failover
    BY <1>9, NoLocalsTypes DEF Capture, Aborts, Goto, Failover, Proof
  <2>4. pc' \in Pc
    BY <1>9, Pcs DEF Capture, Aborts, AbortedTo, Goto, FailoverPc
  <2> QED
    BY <1>9, <2>1, <2>2, <2>3, <2>4 DEF Capture, Shared
<1>10. CASE Replayed
  BY <1>10, NodeUpdates, UsedUpdates, ScaleTypes, RetireTypes, NoLocalsTypes, Pcs
  DEF Replayed, Aborts, AbortedTo, Goto, Shared, Config, Failover, FailoverPc, Role,
      Proof
<1>11. CASE SkipReseed
  BY <1>11, NodeUpdates, UsedUpdates, ScaleTypes, RetireTypes, NoLocalsTypes, Pcs
  DEF SkipReseed, Shared, Config, Failover, FailoverPc, Role, Proof
<1>12. CASE ProbeSource
  BY <1>12, NodeUpdates, UsedUpdates, ScaleTypes, RetireTypes, NoLocalsTypes, Pcs
  DEF ProbeSource, PrimaryReady, Shared, Config, Failover, FailoverPc, Role, Proof
<1>13. CASE Reseed
  <2>1. node' \in [Side -> Node]
    BY <1>13, NodeUpdates, ScaleTypes, RetireTypes
    DEF Reseed, SkipMidProbe, Aborts, AbortedTo, Goto, Role
  <2>2. used' \in UsedType
    <3>1. ASSUME SkipMidProbe PROVE used' \in UsedType
      <4> DEFINE f == IF Running(Primary) THEN used.faults + 1 ELSE used.faults
                 b == used.behind \/ SkippedProof = "skipped"
      <4>1. f \in Nat /\ b \in BOOLEAN
        BY DEF Shared, UsedType
      <4>2. used' = [used EXCEPT !.faults = f, !.behind = b]
        BY <3>1 DEF SkipMidProbe
      <4> HIDE DEF f, b
      <4> QED
        BY <4>1, <4>2 DEF Shared, UsedType
    <3> QED
      BY <1>13, <3>1, UsedUpdates, ScaleTypes, RetireTypes
      DEF Reseed, Aborts, AbortedTo, Goto, Shared
  <2>3. cfg' \in Config
    <3>1. node[Primary].id \in Id
      BY DEF Shared, Node
    <3> QED
      BY <1>13, <3>1 DEF Reseed, SkipMidProbe, Shared, Config
  <2>4. fo' \in Failover
    <3>1. node[Primary].id \in Id
      BY DEF Shared, Node
    <3>2. SkipMidProbe => fo' \in Failover
      BY DEF SkipMidProbe, SkippedProof, Failover, Proof
    <3> QED
      BY <1>13, <3>1, <3>2, NoLocalsTypes DEF Reseed, Aborts, Goto, Failover, Proof
  <2>5. pc' \in Pc
    BY <1>13, Pcs DEF Reseed, SkipMidProbe, Aborts, AbortedTo, Goto, FailoverPc
  <2> QED
    BY <1>13, <2>1, <2>2, <2>3, <2>4, <2>5 DEF Shared, Reseed, SkipMidProbe
<1>14. CASE AssertUnfenced
  BY <1>14, NodeUpdates, UsedUpdates, ScaleTypes, RetireTypes, NoLocalsTypes, Pcs
  DEF AssertUnfenced, Aborts, AbortedTo, Goto, Shared, Config, Failover, FailoverPc,
      Role, Proof
<1>15. CASE Arm
  <2>1. node' \in [Side -> Node]
    BY <1>15, NodeUpdates DEF Arm, Set, Role, Shared
  <2>2. used' \in UsedType
    BY <1>15, UsedUpdates DEF Arm, Shared
  <2>3. fo' \in Failover
    BY <1>15, NoLocalsTypes DEF Arm, NotArmed, Aborts
  <2>4. pc' \in Pc
    BY <1>15, Pcs DEF Arm, NotArmed, Aborts, AbortedTo, Goto, FailoverPc
  <2> QED
    BY <1>15, <2>1, <2>2, <2>3, <2>4 DEF Arm, Shared
<1>16. CASE Disarm
  <2>1. node' \in [Side -> Node]
    BY <1>16, NodeUpdates DEF Disarm, Set, Role, Shared
  <2>2. used' \in UsedType
    BY <1>16, UsedUpdates DEF Disarm, Shared
  <2>3. fo' \in Failover
    BY <1>16, NoLocalsTypes DEF Disarm, Aborts
  <2>4. pc' \in Pc
    BY <1>16, Pcs DEF Disarm, Aborts, AbortedTo, Goto, FailoverPc
  <2> QED
    BY <1>16, <2>1, <2>2, <2>3, <2>4 DEF Disarm, Shared
<1>17. CASE WriteJournal
  <2>1. node' \in [Side -> Node]
    BY <1>17, NodeUpdates, ScaleTypes, RetireTypes
    DEF WriteJournal, NotArmed, Aborts, AbortedTo, Goto, Saved, SaveFailed, Role
  <2>2. used' \in UsedType
    BY <1>17, UsedUpdates, ScaleTypes, RetireTypes
    DEF WriteJournal, NotArmed, Aborts, AbortedTo, Goto, Saved, SaveFailed, Shared
  <2>3. cfg' \in Config
    BY <1>17
        DEF WriteJournal, NotArmed, Aborts, AbortedTo, Goto, Saved, SaveFailed,
         Shared, Config, Failover, Journal
  <2>4. fo' \in Failover
    BY <1>17, NoLocalsTypes
        DEF WriteJournal, NotArmed, Aborts, AbortedTo, Goto, Saved, SaveFailed,
         Failover, Proof, Shared, Node
  <2>5. pc' \in Pc
    BY <1>17, Pcs
    DEF WriteJournal, NotArmed, Aborts, AbortedTo, Goto, Saved, SaveFailed, FailoverPc
  <2> QED
    BY <1>17, <2>1, <2>2, <2>3, <2>4, <2>5 DEF Shared, WriteJournal
<1>18. CASE ReadBeforePromote
  <2>1. node' \in [Side -> Node]
    BY <1>18, NodeUpdates, ScaleTypes, RetireTypes
    DEF ReadBeforePromote, Exit, Goto, Role
  <2>2. used' \in UsedType
    BY <1>18, UsedUpdates, ScaleTypes, RetireTypes
    DEF ReadBeforePromote, Exit, Goto, Shared
  <2>3. cfg' \in Config
    BY <1>18 DEF ReadBeforePromote, Exit, Goto, Shared, Config, Failover, Journal
  <2>4. fo' \in Failover
    <3>1. fo' \in {fo, NoFailover, [fo EXCEPT !.undo = TRUE]}
      BY <1>18 DEF ReadBeforePromote, Exit
    <3> QED
      BY <3>1, NoLocalsTypes DEF Failover
  <2>5. pc' \in Pc
    BY <1>18, Pcs DEF ReadBeforePromote, Exit, Goto, FailoverPc
  <2> QED
    BY <1>18, <2>1, <2>2, <2>3, <2>4, <2>5 DEF Shared, ReadBeforePromote
<1>19. CASE IssuePromote
  <2>1. node' \in [Side -> Node]
    BY <1>19, NodeUpdates, ScaleTypes, RetireTypes DEF IssuePromote, Goto, Role
  <2>2. used' \in UsedType
    BY <1>19, UsedUpdates, ScaleTypes, RetireTypes DEF IssuePromote, Goto, Shared
  <2>3. cfg' \in Config
    BY <1>19 DEF IssuePromote, Goto, Shared, Config, Failover, Journal
  <2>4. fo' \in Failover
    BY <1>19, NoLocalsTypes DEF IssuePromote, Goto, Failover, Proof, Shared, Node
  <2>5. pc' \in Pc
    BY <1>19, Pcs DEF IssuePromote, Goto, FailoverPc
  <2> QED
    BY <1>19, <2>1, <2>2, <2>3, <2>4, <2>5 DEF Shared, IssuePromote
<1>20. CASE Poll
  BY <1>20, NodeUpdates, UsedUpdates, ScaleTypes, RetireTypes, NoLocalsTypes, Pcs
  DEF Poll, Exit, Goto, Shared, Config, Failover, FailoverPc, Role, Proof
<1>21. CASE Unfence
  BY <1>21, NodeUpdates, UsedUpdates, ScaleTypes, RetireTypes, NoLocalsTypes, Pcs
  DEF Unfence, AfterUndo, Goto, Saved, SaveFailed, Shared, Config, Failover,
      FailoverPc, Role, Proof
<1>22. CASE RestartApp
  BY <1>22, NodeUpdates, UsedUpdates, ScaleTypes, RetireTypes, NoLocalsTypes, Pcs
  DEF RestartApp, AfterUndo, Goto, Shared, Config, Failover, FailoverPc, Role, Proof
<1>23. CASE ClearJournal
  BY <1>23, NodeUpdates, UsedUpdates, ScaleTypes, RetireTypes, NoLocalsTypes, Pcs
  DEF ClearJournal, Exit, Goto, Saved, SaveFailed, Shared, Config, Failover,
      FailoverPc, Role, Proof
<1>24. CASE Demote
  <2>1. node' \in [Side -> Node]
    BY <1>24, NodeUpdates, ScaleTypes, RetireTypes DEF Demote, Goto, Role
  <2>2. used' \in UsedType
    BY <1>24, UsedUpdates, ScaleTypes, RetireTypes DEF Demote, Goto, Shared
  <2>3. cfg' \in Config
    BY <1>24 DEF Demote, Goto, Shared, Config, Failover, Journal
  <2>4. fo' \in Failover
    BY <1>24, NoLocalsTypes DEF Demote, Goto, Failover, Proof, Shared, Node
  <2>5. pc' \in Pc
    BY <1>24, Pcs DEF Demote, Goto, FailoverPc
  <2> QED
    BY <1>24, <2>1, <2>2, <2>3, <2>4, <2>5 DEF Shared, Demote
<1>25. CASE ScaleUpPromoted
  <2>1. node' \in [Side -> Node]
    BY <1>25, NodeUpdates, ScaleTypes, RetireTypes DEF ScaleUpPromoted, Goto, Role
  <2>2. used' \in UsedType
    BY <1>25, UsedUpdates, ScaleTypes, RetireTypes DEF ScaleUpPromoted, Goto, Shared
  <2>3. cfg' \in Config
    BY <1>25 DEF ScaleUpPromoted, Goto, Shared, Config, Failover, Journal
  <2>4. fo' \in Failover
    BY <1>25, NoLocalsTypes DEF ScaleUpPromoted, Goto, Failover, Proof, Shared, Node
  <2>5. pc' \in Pc
    BY <1>25, Pcs DEF ScaleUpPromoted, Goto, FailoverPc
  <2> QED
    BY <1>25, <2>1, <2>2, <2>3, <2>4, <2>5 DEF Shared, ScaleUpPromoted
<1>26. CASE ScaleDownOld
  BY <1>26, NodeUpdates, UsedUpdates, ScaleTypes, RetireTypes, NoLocalsTypes, Pcs
  DEF ScaleDownOld, Goto, Shared, Config, Failover, FailoverPc, Role, Proof
<1>27. CASE StartAddons
  <2>1. node' \in [Side -> Node]
    BY <1>27, NodeUpdates, ScaleTypes, RetireTypes DEF StartAddons, Goto, Role
  <2>2. used' \in UsedType
    BY <1>27, UsedUpdates, ScaleTypes, RetireTypes DEF StartAddons, Goto, Shared
  <2>3. cfg' \in Config
    BY <1>27 DEF StartAddons, Goto, Shared, Config, Failover, Journal
  <2>4. fo' \in Failover
    BY <1>27, NoLocalsTypes DEF StartAddons, Goto, Failover, Proof, Shared, Node
  <2>5. pc' \in Pc
    BY <1>27, Pcs DEF StartAddons, Goto, FailoverPc
  <2> QED
    BY <1>27, <2>1, <2>2, <2>3, <2>4, <2>5 DEF Shared, StartAddons
<1>28. CASE FlipDns
  BY <1>28, NodeUpdates, UsedUpdates, ScaleTypes, RetireTypes, NoLocalsTypes, Pcs
  DEF FlipDns, Goto, Shared, Config, Failover, FailoverPc, Role, Proof
<1>29. CASE SwapHaRoles
  BY <1>29, NodeUpdates, UsedUpdates, ScaleTypes, RetireTypes, NoLocalsTypes, Pcs
  DEF SwapHaRoles, Exit, Goto, Saved, SaveFailed, Shared, Config, Failover,
      FailoverPc, Role, Proof
<1>30. CASE RetireOld
  BY <1>30, NodeUpdates, UsedUpdates, ScaleTypes, RetireTypes, NoLocalsTypes, Pcs
  DEF RetireOld, Exit, Goto, Shared, Config, Failover, FailoverPc, Role, Proof
<1> QED
    BY <1>1, <1>2, <1>3, <1>4, <1>5, <1>6, <1>7, <1>8, <1>9, <1>10, <1>11, <1>12,
       <1>13, <1>14, <1>15, <1>16, <1>17, <1>18, <1>19, <1>20, <1>21, <1>22, <1>23,
       <1>24, <1>25, <1>26, <1>27, <1>28, <1>29, <1>30
  DEF FailoverStep

\* Every step of `failover -abort` (abortFailover) keeps the types.
LEMMA AbortTypes ==
  ASSUME Shared, ab \in Abort, pc \in Pc, AbortStep
  PROVE  Shared' /\ ab' \in Abort /\ pc' \in Pc
<1> USE SharedFacts
<1>1. CASE ReadStandbyLineage
  <2>1. node' \in [Side -> Node]
    BY <1>1, NodeUpdates, ScaleTypes, RetireTypes
    DEF ReadStandbyLineage, Goto, Lineage, GivenUp, Role
  <2>2. used' \in UsedType
    BY <1>1, UsedUpdates, ScaleTypes, RetireTypes
    DEF ReadStandbyLineage, Goto, Lineage, GivenUp, Shared
  <2>3. cfg' \in Config
    BY <1>1 DEF ReadStandbyLineage, Goto, Lineage, GivenUp, Shared, Config, Abort
  <2>4. ab' \in Abort
    <3>1. node[Standby] \in Node
      OBVIOUS
    <3>2. GivenUp(Standby) \in Discardable
      BY <3>1 DEF GivenUp, Discardable, Node
    <3>3. Lineage \in Discardable \cup {None}
      BY <3>2 DEF Lineage
    <3> QED
      BY <1>1, <3>3 DEF ReadStandbyLineage, Abort
  <2>5. pc' \in Pc
    BY <1>1, Pcs DEF ReadStandbyLineage, Goto, Lineage, GivenUp, AbortPc
  <2> QED
    BY <1>1, <2>1, <2>2, <2>3, <2>4, <2>5 DEF Shared, ReadStandbyLineage
<1>2. CASE StopStandbyDb
  BY <1>2, NodeUpdates, UsedUpdates, ScaleTypes, RetireTypes, NoLocalsTypes, Pcs
  DEF StopStandbyDb, Shared, Config, Abort, AbortPc, Role, Proof
<1>3. CASE DisarmStandby
  <2>1. node' \in [Side -> Node]
    BY <1>3, NodeUpdates, ScaleTypes, RetireTypes DEF DisarmStandby, Role
  <2>2. used' \in UsedType
    BY <1>3, UsedUpdates, ScaleTypes, RetireTypes DEF DisarmStandby, Shared
  <2>3. cfg' \in Config
    BY <1>3 DEF DisarmStandby, Shared, Config, Abort
  <2>4. ab' \in Abort
    BY <1>3, NoLocalsTypes DEF DisarmStandby, Abort, Proof, Shared, Node
  <2>5. pc' \in Pc
    BY <1>3, Pcs DEF DisarmStandby, AbortPc
  <2> QED
    BY <1>3, <2>1, <2>2, <2>3, <2>4, <2>5 DEF Shared, DisarmStandby
<1>4. CASE RepointDns
  BY <1>4, NodeUpdates, UsedUpdates, ScaleTypes, RetireTypes, NoLocalsTypes, Pcs
  DEF RepointDns, Shared, Config, Abort, AbortPc, Role, Proof
<1>5. CASE UnfencePrimary
  BY <1>5, NodeUpdates, UsedUpdates, ScaleTypes, RetireTypes, NoLocalsTypes, Pcs
  DEF UnfencePrimary, Shared, Config, Abort, AbortPc, Role, Proof
<1>6. CASE ArmPrimary
  <2>1. node' \in [Side -> Node]
    BY <1>6, NodeUpdates DEF ArmPrimary, Set, Role, Shared
  <2>2. used' \in UsedType
    BY <1>6, UsedUpdates DEF ArmPrimary, Shared
  <2>3. ab' \in Abort
    BY <1>6, NoLocalsTypes DEF ArmPrimary
  <2>4. pc' \in Pc
    BY <1>6, Pcs DEF ArmPrimary, AbortPc
  <2> QED
    BY <1>6, <2>1, <2>2, <2>3, <2>4 DEF ArmPrimary, Shared
<1>7. CASE StartPrimaryWriters
  BY <1>7, NodeUpdates, UsedUpdates, ScaleTypes, RetireTypes, NoLocalsTypes, Pcs
  DEF StartPrimaryWriters, Shared, Config, Abort, AbortPc, Role, Proof
<1>8. CASE RecordAbort
  BY <1>8, NodeUpdates, UsedUpdates, ScaleTypes, RetireTypes, NoLocalsTypes, Pcs
  DEF RecordAbort, Saved, SaveFailed, KeptMarker, Shared, Config, Abort, AbortPc,
      Role, Proof
<1> QED
  BY <1>1, <1>2, <1>3, <1>4, <1>5, <1>6, <1>7, <1>8 DEF AbortStep

\* Every step of `deploy` and of the retirement fence keeps the types.
LEMMA DeployTypes ==
  ASSUME Shared, de \in Deploy, pc \in Pc, DeployStep
  PROVE  Shared' /\ de' \in Deploy /\ pc' \in Pc
<1> USE SharedFacts
<1>1. CASE LiftAtEntry
  <2>1. node' \in [Side -> Node]
    BY <1>1, NodeUpdates, ScaleTypes, RetireTypes
    DEF LiftAtEntry, Goto, Saved, SaveFailed, Role
  <2>2. used' \in UsedType
    BY <1>1, UsedUpdates, ScaleTypes, RetireTypes
    DEF LiftAtEntry, Goto, Saved, SaveFailed, Shared
  <2>3. cfg' \in Config
    BY <1>1 DEF LiftAtEntry, Goto, Saved, SaveFailed, Shared, Config, Deploy
  <2>4. de' \in Deploy
    BY <1>1, NoLocalsTypes
    DEF LiftAtEntry, Goto, Saved, SaveFailed, Deploy, Proof, Shared, Node
  <2>5. pc' \in Pc
    BY <1>1, Pcs DEF LiftAtEntry, Goto, Saved, SaveFailed, DeployPc
  <2> QED
    BY <1>1, <2>1, <2>2, <2>3, <2>4, <2>5 DEF Shared, LiftAtEntry
<1>2. CASE Refence
  BY <1>2, NodeUpdates, UsedUpdates, ScaleTypes, RetireTypes, NoLocalsTypes, Pcs
  DEF Refence, Goto, Shared, Config, Deploy, DeployPc, Role, Proof
<1>3. CASE ConvergeClusters
  <2>1. node' \in [Side -> Node]
    <3>1. \A s \in Side : Converged(s) \in Node
      <4> TAKE s \in Side
      <4>1. CASE s = Primary
        BY <4>1, NodeUpdates DEF Converged, Role
      <4>2. CASE s # Primary
        BY <4>2, NodeUpdates DEF Converged, Role
      <4> QED
        BY <4>1, <4>2
    <3> QED
      BY <1>3, <3>1 DEF ConvergeClusters
  <2>2. used' \in UsedType
    BY <1>3, UsedUpdates, ScaleTypes, RetireTypes
    DEF ConvergeClusters, DeployExit, Goto, Converged, Shared
  <2>3. cfg' \in Config
    BY <1>3 DEF ConvergeClusters, DeployExit, Goto, Converged, Shared, Config, Deploy
  <2>4. de' \in Deploy
    BY <1>3, NoLocalsTypes
    DEF ConvergeClusters, DeployExit, Goto, Converged, Deploy, Proof, Shared, Node
  <2>5. pc' \in Pc
    BY <1>3, Pcs DEF ConvergeClusters, DeployExit, Goto, Converged, DeployPc
  <2> QED
    BY <1>3, <2>1, <2>2, <2>3, <2>4, <2>5 DEF Shared, ConvergeClusters
<1>4. CASE ProbeStreaming
  BY <1>4, NodeUpdates, UsedUpdates, ScaleTypes, RetireTypes, NoLocalsTypes, Pcs
  DEF ProbeStreaming, Shared, Config, Deploy, DeployPc, Role, Proof
<1>5. CASE GuardReseed
  BY <1>5, NodeUpdates, UsedUpdates, ScaleTypes, RetireTypes, NoLocalsTypes, Pcs
  DEF GuardReseed, NotStreaming, Goto, Shared, Config, Deploy, DeployPc, Role, Proof
<1>6. CASE StageAndSwap
  BY <1>6, NodeUpdates, UsedUpdates, ScaleTypes, RetireTypes, NoLocalsTypes, Pcs
  DEF StageAndSwap, NotStreaming, Goto, Shared, Config, Deploy, DeployPc, Role, Proof
<1>7. CASE VerifyStreaming
  <2>1. node' \in [Side -> Node]
    BY <1>7, NodeUpdates, ScaleTypes, RetireTypes DEF VerifyStreaming, Role
  <2>2. used' \in UsedType
    BY <1>7, UsedUpdates, ScaleTypes, RetireTypes DEF VerifyStreaming, Shared
  <2>3. cfg' \in Config
    BY <1>7 DEF VerifyStreaming, Shared, Config, Deploy
  <2>4. de' \in Deploy
    BY <1>7, NoLocalsTypes DEF VerifyStreaming, Deploy, Proof, Shared, Node
  <2>5. pc' \in Pc
    BY <1>7, Pcs DEF VerifyStreaming, DeployPc
  <2> QED
    BY <1>7, <2>1, <2>2, <2>3, <2>4, <2>5 DEF Shared, VerifyStreaming
<1>8. CASE ForgetDiscarded
  BY <1>8, NodeUpdates, UsedUpdates, ScaleTypes, RetireTypes, NoLocalsTypes, Pcs
  DEF ForgetDiscarded, Goto, Saved, SaveFailed, Shared, Config, Deploy, DeployPc,
      Role, Proof
<1>9. CASE GateStreaming
  BY <1>9, NodeUpdates, UsedUpdates, ScaleTypes, RetireTypes, NoLocalsTypes, Pcs
  DEF GateStreaming, DeployExit, Goto, Shared, Config, Deploy, DeployPc, Role, Proof
<1>10. CASE AwaitDns
  BY <1>10, NodeUpdates, UsedUpdates, ScaleTypes, RetireTypes, NoLocalsTypes, Pcs
  DEF AwaitDns, DeployExit, Goto, Shared, Config, Deploy, DeployPc, Role, Proof
<1>11. CASE ClearRetired
  BY <1>11, NodeUpdates, UsedUpdates, ScaleTypes, RetireTypes, NoLocalsTypes, Pcs
  DEF ClearRetired, DeployExit, Goto, Shared, Config, Deploy, DeployPc, Role, Proof
<1>12. CASE AssertWritable
  BY <1>12, NodeUpdates, UsedUpdates, ScaleTypes, RetireTypes, NoLocalsTypes, Pcs
  DEF AssertWritable, DeployExit, Goto, Saved, SaveFailed, Shared, Config, Deploy,
      DeployPc, Role, Proof
<1>13. CASE FinalSave
  <2>1. node' \in [Side -> Node]
    BY <1>13, NodeUpdates, ScaleTypes, RetireTypes
    DEF FinalSave, DeployExit, Goto, Saved, SaveFailed, Role
  <2>2. used' \in UsedType
    BY <1>13, UsedUpdates, ScaleTypes, RetireTypes
    DEF FinalSave, DeployExit, Goto, Saved, SaveFailed, Shared
  <2>3. cfg' \in Config
    BY <1>13 DEF FinalSave, DeployExit, Goto, Saved, SaveFailed, Shared, Config, Deploy
  <2>4. de' \in Deploy
    BY <1>13, NoLocalsTypes
    DEF FinalSave, DeployExit, Goto, Saved, SaveFailed, Deploy, Proof, Shared, Node
  <2>5. pc' \in Pc
    BY <1>13, Pcs DEF FinalSave, DeployExit, Goto, Saved, SaveFailed, DeployPc
  <2> QED
    BY <1>13, <2>1, <2>2, <2>3, <2>4, <2>5 DEF Shared, FinalSave
<1> QED
  BY <1>1, <1>2, <1>3, <1>4, <1>5, <1>6, <1>7, <1>8, <1>9, <1>10, <1>11, <1>12, <1>13
  DEF DeployStep

\* What the clusters and the network do leaves every type as it was.
LEMMA WorldTypes ==
  ASSUME Shared, World
  PROVE  Shared' /\ pc' = pc
<1> USE SharedFacts
<1>1. CASE \E s \in Side, w \in Write : Commit(s, w)
  <2>1. PICK s \in Side, w \in Write : Commit(s, w)
    BY <1>1
  <2>2. [node[s] EXCEPT !.data = @ \cup {w}] \in Node
    BY DEF Node
  <2> QED
    BY <2>1, <2>2 DEF Commit, Shared
<1>2. ASSUME NEW s \in Side, Replicate(s) PROVE Shared' /\ pc' = pc
  <2>1. node[s] \in Node /\ node[Other(s)] \in Node
    BY Sides
  <2>2. [node[s] EXCEPT !.data = node[Other(s)].data, !.tl = node[Other(s)].tl] \in Node
    BY <2>1 DEF Node
  <2> QED
    BY <1>2, <2>2 DEF Replicate, Shared
<1>3. ASSUME NEW s \in Side, LinkUp(s) PROVE Shared' /\ pc' = pc
  BY <1>3 DEF LinkUp, Shared
<1>4. ASSUME NEW s \in Side, Drain(s) PROVE Shared' /\ pc' = pc
  <2>1. [node[s] EXCEPT !.app = "zero"] \in Node
    BY DEF Node
  <2> QED
    BY <1>4, <2>1 DEF Drain, Shared
<1>5. ASSUME NEW s \in Side, PromoteLands(s) PROVE Shared' /\ pc' = pc
  <2>1. node[s].tl + 1 \in Timeline
    BY DEF Node, Timeline
  <2>2. ASSUME NEW n \in Node, NEW k \in Timeline
        PROVE  [n EXCEPT !.pending = FALSE, !.rec = FALSE, !.tl = k] \in Node
    BY DEF Node
  <2> QED
    BY <1>5, <2>1, <2>2 DEF PromoteLands, Shared
<1>6. ASSUME NEW s \in Side, Die(s) \/ Cut(s) PROVE Shared' /\ pc' = pc
  <2>1. \A state \in {"cut", "dead"} : [node[s] EXCEPT !.net = state] \in Node
    BY DEF Node
  <2> QED
    BY <1>6, <2>1, UsedUpdates DEF Die, Cut, Shared
<1>7. ASSUME NEW s \in Side, Return(s) PROVE Shared' /\ pc' = pc
  <2>1. \A n \in Node : [n EXCEPT !.net = "up"] \in Node
    BY DEF Node
  <2>2. Restarted(node[s]) \in Node
    BY NodeUpdates
  <2>3. \E n \in Node : Set(s, [n EXCEPT !.net = "up"])
    BY <1>7, <2>2 DEF Return
  <2> QED
    BY <1>7, <2>1, <2>3 DEF Return, Shared
<1>8. CASE LinkDown
  BY <1>8, UsedUpdates DEF LinkDown, Shared
<1> QED
  BY <1>1, <1>2, <1>3, <1>4, <1>5, <1>6, <1>7, <1>8 DEF World

\* A command is started with its locals well formed; so is a reconcile.
LEMMA OperatorTypes ==
  ASSUME TypeOK, Operator
  PROVE  TypeOK'
<1> USE TypeOKParts, TypeOKPartsNext, SharedFacts
<1>1. \A first : Starts(first) => used' \in UsedType /\ pc' = first
  BY DEF Starts, Goto, Shared, UsedType
<1>2. CASE FailoverStart /\ UNCHANGED <<ab, de>>
  BY <1>1, <1>2 DEF FailoverStart, Shared, Pc, FailoverPc
<1>3. CASE AbortStart /\ UNCHANGED <<fo, de>>
  BY <1>1, <1>3 DEF AbortStart, Shared, Pc, AbortPc
<1>4. CASE DeployStart /\ UNCHANGED <<fo, ab>>
  <2>1. de' \in Deploy
    BY <1>4, NoLocalsTypes DEF DeployStart, Deploy, Shared, Config
  <2> QED
    BY <1>1, <1>4, <2>1 DEF DeployStart, Shared, Pc, DeployPc
<1>5. CASE Reconcile /\ UNCHANGED locals
  BY <1>5, RetireTypes DEF Reconcile, locals, Shared
<1> QED
  BY <1>2, <1>3, <1>4, <1>5 DEF Operator

\* A deployed pair, seeded or degraded, is well formed.
LEMMA InitTypes == Init => TypeOK
<1> SUFFICES ASSUME Init PROVE TypeOK
  OBVIOUS
<1>1. PICK p \in Side, i \in Id, seeded \in BOOLEAN :
        \E j \in (IF seeded THEN {i} ELSE Id \ {i}),
           recorded \in (IF seeded THEN {i, None} ELSE {None}) :
          /\ node = [s \in Side |-> IF s = p THEN Deployed(i) ELSE PilotLight(j, seeded)]
          /\ link = seeded
          /\ dns = p
          /\ cfg = [primary |-> p, journal |-> None, marker |-> None, sysid |-> recorded,
                    degraded |-> ~seeded, swapped |-> FALSE, discard |-> None]
          /\ pc = "idle"
          /\ used = [runs |-> 0, faults |-> 0, crashes |-> 0, behind |-> FALSE]
  BY DEF Init, InitPair
<1>2. \A j \in Id : Deployed(j) \in Node
  BY DEF Deployed, Node, Role, Timeline
<1>3. \A j \in Id : PilotLight(j, seeded) \in Node
  <2> TAKE j \in Id
  <2>1. Deployed(j) \in Node
    BY <1>2
  <2>2. CASE seeded = TRUE
    BY <2>1, <2>2 DEF PilotLight, Node, Role
  <2>3. CASE seeded = FALSE
    BY <2>1, <2>3 DEF PilotLight, Node, Role
  <2> QED
    BY <2>2, <2>3
<1>4. node \in [Side -> Node]
  BY <1>1, <1>2, <1>3
<1>5. cfg \in Config
  BY <1>1 DEF Config
<1>6. Shared
  BY <1>1, <1>4, <1>5 DEF Shared, UsedType
<1> QED
  BY <1>1, <1>6, TypeOKParts, NoLocalsTypes, Pcs DEF Init

\* TypeOK is inductive by itself.
LEMMA NextTypes == TypeOK /\ [Next]_vars => TypeOK'
<1> SUFFICES ASSUME TypeOK, [Next]_vars PROVE TypeOK'
  OBVIOUS
<1> USE TypeOKParts, TypeOKPartsNext
<1>1. CASE World /\ UNCHANGED locals
  BY <1>1, WorldTypes DEF locals
<1>2. CASE Operator
  BY <1>2, OperatorTypes
<1>3. CASE FailoverStep /\ UNCHANGED <<ab, de>>
  BY <1>3, FailoverTypes
<1>4. CASE AbortStep /\ UNCHANGED <<fo, de>>
  BY <1>4, AbortTypes
<1>5. CASE DeployStep /\ UNCHANGED <<fo, ab>>
  BY <1>5, DeployTypes
<1>6. CASE Crash
  BY <1>6, NoLocalsTypes, Pcs DEF Crash, Shared, UsedType
<1>7. CASE UNCHANGED vars
  BY <1>7 DEF vars, Shared
<1> QED
  BY <1>1, <1>2, <1>3, <1>4, <1>5, <1>6, <1>7 DEF Next, Command

\* Type correctness, for any two clusters and any bounds: every record that a
\* step of failover, abort or deploy leaves behind is one the others can read.
THEOREM TypeCorrect == Spec => []TypeOK
  BY InitTypes, NextTypes, PTL DEF Spec

-----------------------------------------------------------------------------
(* Who owns a promote.                                                     *)


\* m, a later state of cluster n, has no new promote and no new recovery.
Kept(n, m) ==
  /\ m.pending => n.pending
  /\ m.pending => m.rec = n.rec
  /\ m.rec => n.rec

Calm ==
  /\ \A s \in Side : Kept(node[s], node'[s])
  /\ cfg'.primary = cfg.primary
  /\ cfg'.journal = cfg.journal

\* What the steps write on a cluster keeps it so.
LEMMA KeptUpdates ==
  ASSUME NEW n \in Node
  PROVE  /\ Kept(n, n)
         /\ \A b \in BOOLEAN, c \in BOOLEAN :
              Kept(n, ScaledDown(n, b, c)) /\ Kept(n, ScaledUp(n, b, c))
         /\ \A r, live : Kept(n, WithRole(n, r, live))
         /\ \A f : Kept(n, [n EXCEPT !.fence = f])
         /\ \A b : Kept(n, [n EXCEPT !.retired = b])
         /\ Kept(n, Unfenced(n)) /\ Kept(n, Stopped(n)) /\ Kept(n, Fencing(n))
         /\ Kept(n, Restarted(n)) /\ Kept(n, [n EXCEPT !.db = "run"])
BY DEF Kept, Node, ScaledDown, ScaledUp, WithRole, Unfenced, Stopped, Fencing, Restarted

\* So do two of them in a row.
LEMMA KeptTransitive ==
  \A n, m, k : Kept(n, m) /\ Kept(m, k) => Kept(n, k)
BY DEF Kept

\* One cluster is written, or none.
LEMMA KeptSet ==
  ASSUME Shared
  PROVE  /\ \A s \in Side : \A n :
              Set(s, n) /\ Kept(node[s], n) => \A t \in Side : Kept(node[t], node'[t])
         /\ node' = node => \A t \in Side : Kept(node[t], node'[t])
BY SharedFacts, KeptUpdates DEF Set, Shared

\* The config saves of a calm step write other fields of the record.
LEMMA RecordKept ==
  ASSUME Shared
  PROVE  /\ \A m : /\ [cfg EXCEPT !.marker = m].primary = cfg.primary
                   /\ [cfg EXCEPT !.marker = m].journal = cfg.journal
         /\ \A d : /\ [cfg EXCEPT !.discard = d].primary = cfg.primary
                   /\ [cfg EXCEPT !.discard = d].journal = cfg.journal
BY DEF Shared, Config

\* Scaling sends no promote and restarts no recovery.
LEMMA ScaleKept ==
  ASSUME Shared, NEW s \in Side, Scale(s, ScaledDown) \/ Scale(s, ScaledUp)
  PROVE  \A t \in Side : Kept(node[t], node'[t])
<1>1. \E tier, addons \in BOOLEAN :
        \/ Set(s, ScaledDown(node[s], tier, addons))
        \/ Set(s, ScaledUp(node[s], tier, addons))
  BY DEF Scale
<1> QED
  BY <1>1, KeptSet, KeptUpdates, SharedFacts

\* Nor does the retirement fence, whichever of its steps fail.
LEMMA RetireKept ==
  ASSUME Shared, NEW s \in Side, Retire(s)
  PROVE  \A t \in Side : Kept(node[t], node'[t])
<1>1. node[s] \in Node /\ Running(s) \in BOOLEAN
  BY SharedFacts
<1>2. \A n \in Node, b \in BOOLEAN :
        [n EXCEPT !.retired = IF b THEN TRUE ELSE @] \in Node
  BY DEF Node
<1>3. \A n \in Node, b \in BOOLEAN :
        /\ [n EXCEPT !.retired = b] \in Node
        /\ Kept(n, [n EXCEPT !.retired = b])
        /\ Kept(n, [n EXCEPT !.retired = IF b THEN TRUE ELSE @])
  BY DEF Node, Kept
<1>4. CASE /\ Succeeded(DbAnswers(s))
           /\ Set(s, [ScaledDown(WithRole(node[s], "standby", TRUE), TRUE, TRUE)
                        EXCEPT !.retired = TRUE])
  <2> DEFINE named == WithRole(node[s], "standby", TRUE)
             down == ScaledDown(named, TRUE, TRUE)
             marked == [down EXCEPT !.retired = TRUE]
  <2>1. named \in Node /\ Kept(node[s], named)
    BY <1>1, NodeUpdates, KeptUpdates DEF Role
  <2>2. down \in Node /\ Kept(named, down)
    <3> HIDE DEF named
    <3> QED BY <2>1, NodeUpdates, KeptUpdates
  <2>3. Kept(down, marked)
    <3> HIDE DEF down
    <3> QED BY <2>2, <1>3
  <2>4. Set(s, marked)
    BY <1>4
  <2> HIDE DEF named, down, marked
  <2> QED
    BY <2>1, <2>2, <2>3, <2>4, KeptTransitive, KeptSet
<1>5. CASE \E markers, workloads, role \in BOOLEAN :
             LET zeroed == ScaledDown(node[s], workloads, workloads)
                 marked == [zeroed EXCEPT !.retired = IF markers THEN TRUE ELSE @]
             IN Set(s, IF role THEN WithRole(marked, "standby", Running(s)) ELSE marked)
  <2>1. PICK markers \in BOOLEAN, workloads \in BOOLEAN, role \in BOOLEAN :
          LET zeroed == ScaledDown(node[s], workloads, workloads)
              marked == [zeroed EXCEPT !.retired = IF markers THEN TRUE ELSE @]
          IN Set(s, IF role THEN WithRole(marked, "standby", Running(s)) ELSE marked)
    BY <1>5
  <2> DEFINE zeroed == ScaledDown(node[s], workloads, workloads)
             marked == [zeroed EXCEPT !.retired = IF markers THEN TRUE ELSE @]
  <2>2. zeroed \in Node /\ Kept(node[s], zeroed)
    BY <1>1, NodeUpdates, KeptUpdates
  <2>3. marked \in Node /\ Kept(zeroed, marked)
    <3> HIDE DEF zeroed
    <3> QED BY <2>2, <1>2, <1>3
  <2>4. Kept(marked, WithRole(marked, "standby", Running(s)))
    <3> HIDE DEF marked
    <3> QED BY <2>3, KeptUpdates
  <2>5. Set(s, marked) \/ Set(s, WithRole(marked, "standby", Running(s)))
    BY <2>1
  <2> HIDE DEF zeroed, marked
  <2> QED
    BY <2>2, <2>3, <2>4, <2>5, KeptTransitive, KeptSet
<1> QED
  BY <1>4, <1>5 DEF Retire

\* A promote that was outstanding stays owned over a calm step, whatever else
\* it does; and neither a promote nor a recovery comes from nowhere.
LEMMA CalmFacts ==
  ASSUME Shared, PromoteOwned, Calm
  PROVE  /\ Primary' = Primary /\ Standby' = Standby
         /\ \A s \in Side :
              node'[s].pending => s = Standby' /\ cfg'.journal # None /\ node'[s].rec
         /\ (cfg'.journal # None) = (cfg.journal # None)
         /\ ~node[Standby].rec => ~node'[Standby'].rec
         /\ ~node[Standby].pending => ~node'[Standby'].pending
BY SharedFacts DEF PromoteOwned, Calm, Kept, Primary, Standby

\* A calm step that ends its command owns what it owned.
LEMMA CalmIdle ==
  ASSUME Shared, PromoteOwned, Calm, pc' = "idle", ~fo'.undo
  PROVE  PromoteOwned'
BY CalmFacts DEF PromoteOwned, BeforeIssue, Fencings, AfterPromote, AbortPc

\* The calm steps of a failover: all but the reseed, the journal writes, the
\* promote and the swap.
LEMMA FailoverCalm ==
  ASSUME Shared, fo \in Failover,
         \/ ProbePrimary \/ LiftStranded \/ Check \/ Quiesce \/ Drained
         \/ Mark \/ Fence \/ Terminate \/ Capture \/ Replayed
         \/ SkipReseed \/ ProbeSource \/ AssertUnfenced \/ Arm \/ Disarm
         \/ ReadBeforePromote \/ Poll \/ Unfence \/ RestartApp \/ Demote
         \/ ScaleUpPromoted \/ ScaleDownOld \/ StartAddons \/ FlipDns \/ RetireOld
  PROVE  Calm
<1> USE KeptSet, KeptUpdates, KeptTransitive, ScaleKept, RetireKept, RecordKept,
         NodeUpdates, SharedFacts DEF Calm, Role
<1>1. CASE ProbePrimary
  BY <1>1 DEF ProbePrimary
<1>2. CASE LiftStranded
  BY <1>2 DEF LiftStranded, Saved, Exit
<1>3. CASE Check
  BY <1>3 DEF Check, Exit
<1>4. CASE Quiesce
  BY <1>4 DEF Quiesce
<1>5. CASE Drained
  BY <1>5 DEF Drained
<1>6. CASE Mark
  BY <1>6 DEF Mark, Saved, SaveFailed
<1>7. CASE Fence
  BY <1>7 DEF Fence
<1>8. CASE Terminate
  BY <1>8 DEF Terminate
<1>9. CASE Capture
  BY <1>9 DEF Capture
<1>10. CASE Replayed
  BY <1>10 DEF Replayed
<1>11. CASE SkipReseed
  BY <1>11 DEF SkipReseed
<1>12. CASE ProbeSource
  BY <1>12 DEF ProbeSource
<1>13. CASE AssertUnfenced
  BY <1>13 DEF AssertUnfenced
<1>14. CASE Arm
  BY <1>14 DEF Arm
<1>15. CASE Disarm
  BY <1>15 DEF Disarm
<1>16. CASE ReadBeforePromote
  BY <1>16 DEF ReadBeforePromote, Exit
<1>17. CASE Poll
  BY <1>17 DEF Poll, Exit
<1>18. CASE Unfence
  BY <1>18 DEF Unfence, Saved, SaveFailed
<1>19. CASE RestartApp
  BY <1>19 DEF RestartApp
<1>20. CASE Demote
  BY <1>20 DEF Demote
<1>21. CASE ScaleUpPromoted
  BY <1>21 DEF ScaleUpPromoted
<1>22. CASE ScaleDownOld
  BY <1>22 DEF ScaleDownOld
<1>23. CASE StartAddons
  BY <1>23 DEF StartAddons
<1>24. CASE FlipDns
  BY <1>24 DEF FlipDns
<1>25. CASE RetireOld
  BY <1>25 DEF RetireOld, Exit
<1> QED
    BY <1>1, <1>2, <1>3, <1>4, <1>5, <1>6, <1>7, <1>8, <1>9, <1>10, <1>11, <1>12,
       <1>13, <1>14, <1>15, <1>16, <1>17, <1>18, <1>19, <1>20, <1>21, <1>22, <1>23,
       <1>24, <1>25

\* The calm steps of an abort: all but its save.
LEMMA AbortCalm ==
  ASSUME Shared, ab \in Abort,
         \/ ReadStandbyLineage \/ StopStandbyDb \/ DisarmStandby \/ RepointDns \/ UnfencePrimary
         \/ ArmPrimary \/ StartPrimaryWriters
  PROVE  Calm
<1> USE KeptSet, KeptUpdates, KeptTransitive, ScaleKept, RetireKept, RecordKept,
         NodeUpdates, SharedFacts DEF Calm, Role
<1>1. CASE ReadStandbyLineage
  BY <1>1 DEF ReadStandbyLineage
<1>2. CASE StopStandbyDb
  BY <1>2 DEF StopStandbyDb
<1>3. CASE DisarmStandby
  BY <1>3 DEF DisarmStandby
<1>4. CASE RepointDns
  BY <1>4 DEF RepointDns
<1>5. CASE UnfencePrimary
  BY <1>5 DEF UnfencePrimary
<1>6. CASE ArmPrimary
  BY <1>6 DEF ArmPrimary
<1>7. CASE StartPrimaryWriters
  BY <1>7 DEF StartPrimaryWriters
<1> QED
  BY <1>1, <1>2, <1>3, <1>4, <1>5, <1>6, <1>7

\* The calm steps of a deploy: all but the reseed.
LEMMA DeployCalm ==
  ASSUME Shared, de \in Deploy,
         \/ LiftAtEntry \/ Refence \/ ConvergeClusters \/ ProbeStreaming \/ GuardReseed
         \/ VerifyStreaming \/ ForgetDiscarded \/ GateStreaming \/ AwaitDns \/ ClearRetired
         \/ AssertWritable \/ FinalSave
  PROVE  Calm
<1> USE KeptSet, KeptUpdates, KeptTransitive, ScaleKept, RetireKept, RecordKept,
         NodeUpdates, SharedFacts DEF Calm, Role
<1>1. CASE LiftAtEntry
  BY <1>1 DEF LiftAtEntry, Saved, SaveFailed
<1>2. CASE Refence
  BY <1>2 DEF Refence
<1>3. CASE ConvergeClusters
  <2>1. \A s \in Side : Kept(node[s], Converged(s))
    <3> TAKE s \in Side
    <3>1. CASE s = Primary
      BY <3>1 DEF Converged
    <3>2. CASE s # Primary
      BY <3>2 DEF Converged
    <3> QED
      BY <3>1, <3>2
  <2>2. \A s \in Side : node'[s] \in {node[s], Converged(s)}
    BY <1>3 DEF ConvergeClusters
  <2> QED
    BY <1>3, <2>1, <2>2 DEF ConvergeClusters
<1>4. CASE ProbeStreaming
  BY <1>4 DEF ProbeStreaming
<1>5. CASE GuardReseed
  BY <1>5 DEF GuardReseed
<1>6. CASE VerifyStreaming
  BY <1>6 DEF VerifyStreaming
<1>7. CASE ForgetDiscarded
  BY <1>7 DEF ForgetDiscarded, Saved, SaveFailed
<1>8. CASE GateStreaming
  BY <1>8 DEF GateStreaming
<1>9. CASE AwaitDns
  BY <1>9 DEF AwaitDns
<1>10. CASE ClearRetired
  BY <1>10 DEF ClearRetired
<1>11. CASE AssertWritable
  BY <1>11 DEF AssertWritable, Saved, SaveFailed
<1>12. CASE FinalSave
  <2>1. cfg'.primary = cfg.primary /\ cfg'.journal = cfg.journal
    BY <1>12 DEF FinalSave, Saved, SaveFailed, Shared, Config, Deploy
  <2> QED
    BY <1>12, <2>1 DEF FinalSave
<1> QED
  BY <1>1, <1>2, <1>3, <1>4, <1>5, <1>6, <1>7, <1>8, <1>9, <1>10, <1>11, <1>12

\* A standby that was reseeded is in recovery, and forgot a promote.
LEMMA ReseededFacts ==
  ASSUME NEW n \in Node, NEW m \in Node
  PROVE  ~Reseeded(n, m).pending /\ Reseeded(n, m).rec
BY DEF Reseeded, Restarted, Node

\* A reseed, of a failover or of a deploy, rewrites the standby alone.
LEMMA ReseedsStandby ==
  ASSUME Shared, node' = node \/ Set(Standby, Reseeded(node[Standby], node[Primary]))
  PROVE  /\ node'[Primary] = node[Primary]
         /\ \/ node'[Standby] = node[Standby]
            \/ ~node'[Standby].pending /\ node'[Standby].rec
<1>1. Primary # Standby /\ Primary \in Side
  BY SharedFacts, Sides DEF Primary, Standby
<1>2. CASE node' = node
  BY <1>2
<1>3. CASE Set(Standby, Reseeded(node[Standby], node[Primary]))
  <2>1. node' = [node EXCEPT ![Standby] = Reseeded(node[Standby], node[Primary])]
    BY <1>3 DEF Set
  <2>2. /\ node'[Primary] = node[Primary]
        /\ node'[Standby] = Reseeded(node[Standby], node[Primary])
    BY <2>1, <1>1, SharedFacts DEF Shared
  <2> QED
    BY <2>2, ReseededFacts, SharedFacts
<1> QED
  BY <1>2, <1>3

\* A promote is sent to the journaled standby, and taken only in recovery.
LEMMA PromoteSent ==
  ASSUME Shared, PromoteOwned, cfg.journal # None, cfg' = cfg,
         node' = node \/ Set(Standby, Promoting(node[Standby])),
         NEW s \in Side, node'[s].pending
  PROVE  s = Standby' /\ cfg'.journal # None /\ node'[s].rec
<1>1. Standby' = Standby
  BY DEF Standby
<1>2. CASE s = Standby
  <2> DEFINE n == node[Standby]
             m == node'[Standby]
  <2>1. n \in Node /\ m \in {n, Promoting(n)}
    BY SharedFacts DEF Set, Shared
  <2>2. n.pending => n.rec
    BY SharedFacts DEF PromoteOwned
  <2> HIDE DEF n, m
  <2>3. m.pending => m.rec
    BY <2>1, <2>2 DEF Promoting, Node
  <2> QED
    BY <1>1, <1>2, <2>3 DEF m
<1>3. CASE s # Standby
  BY <1>3, SharedFacts DEF Set, Shared, PromoteOwned
<1> QED
  BY <1>2, <1>3

\* No command, no undo and no resume.
LEMMA NoLocals == ~NoFailover.undo /\ ~NoFailover.resume
  BY DEF NoFailover

\* Every step of a failover owns the promote it leaves outstanding.
LEMMA FailoverOwned ==
  ASSUME Shared, fo \in Failover, PromoteOwned, FailoverStep
  PROVE  PromoteOwned'
<1> USE CalmFacts, NoLocals DEF PromoteOwned, BeforeIssue, Fencings, AfterPromote, AbortPc
<1>1. CASE ProbePrimary
  BY <1>1, FailoverCalm DEF ProbePrimary
<1>2. CASE LiftStranded
  BY <1>2, FailoverCalm DEF LiftStranded, Exit, Goto
<1>3. CASE Check
  <2>1. Calm
    BY <1>3, FailoverCalm
  <2>2. CASE pc' = "idle"
    BY <1>3, <2>1, <2>2, CalmIdle DEF Check, Exit, Goto
  <2>3. CASE pc' # "idle"
    <3>1. PICK id : fo' = [fo EXCEPT !.journaled = cfg.journal # None,
                                     !.resume = ~node[Standby].rec, !.seen = id]
      BY <1>3, <2>3 DEF Check, Exit, Goto
    <3>2. /\ fo'.journaled <=> cfg.journal # None
          /\ fo'.resume <=> ~node[Standby].rec
          /\ fo'.undo = fo.undo
      BY <3>1 DEF Failover
    <3>3. /\ pc = "check" /\ pc' \in {"quiesce", "demote", "reseed"}
          /\ pc' = "demote" => fo'.resume
      BY <1>3, <2>3 DEF Check, Exit, Goto
    <3>4. ~fo'.journaled => ~node'[Standby'].pending
      <4>1. cfg.journal = None => ~node[Standby].pending
        BY SharedFacts
      <4> QED
        BY <2>1, <3>2, <4>1
    <3>5. fo'.resume => ~node'[Standby'].rec
      BY <2>1, <3>2
    <3>6. ~fo'.undo
      BY <3>2, <3>3
    <3> QED
      BY <2>1, <3>3, <3>4, <3>5, <3>6
  <2> QED
    BY <2>2, <2>3
<1>4. CASE Quiesce
  BY <1>4, FailoverCalm DEF Quiesce
<1>5. CASE Drained
  BY <1>5, FailoverCalm DEF Drained, NotFenced, Aborts, AbortedTo, Goto
<1>6. CASE Mark
  BY <1>6, FailoverCalm DEF Mark, NotFenced, Aborts, AbortedTo, Goto, Failover
<1>7. CASE Fence
  BY <1>7, FailoverCalm DEF Fence, NotFenced, Aborts, AbortedTo, Goto
<1>8. CASE Terminate
  BY <1>8, FailoverCalm DEF Terminate, NotFenced, Aborts, AbortedTo, Goto
<1>9. CASE Capture
  BY <1>9, FailoverCalm DEF Capture, Aborts, AbortedTo, Goto, Failover
<1>10. CASE Replayed
  BY <1>10, FailoverCalm DEF Replayed, Aborts, AbortedTo, Goto, Failover
<1>11. CASE SkipReseed
  BY <1>11, FailoverCalm DEF SkipReseed
<1>12. CASE ProbeSource
  BY <1>12, FailoverCalm DEF ProbeSource, Failover
<1>13. CASE Reseed
  <2>1. /\ Primary' = Primary /\ Standby' = Standby
        /\ cfg'.journal = cfg.journal
    BY <1>13 DEF Reseed, SkipMidProbe, Shared, Config, Primary, Standby
  <2>2. node'[Primary] = node[Primary]
    BY <1>13, ReseedsStandby DEF Reseed, SkipMidProbe
  <2>3. \/ node'[Standby] = node[Standby]
        \/ ~node'[Standby].pending /\ node'[Standby].rec
    BY <1>13, ReseedsStandby DEF Reseed, SkipMidProbe
  <2>4. /\ pc = "copy" /\ pc' \in {"unfenced", "arm", "idle", "unfence", "restart"}
        /\ ~fo'.undo /\ (pc' # "idle" => fo'.journaled = fo.journaled)
    <3>1. SkipMidProbe => pc' = "arm" /\ fo'.undo = fo.undo /\ fo'.journaled = fo.journaled
      BY DEF SkipMidProbe, Failover
    <3> QED
      BY <1>13, <3>1, NoLocals
      DEF Reseed, Aborts, AbortedTo, Goto, Failover, PromoteOwned
  <2> QED
    <3>1. \A s \in Side : s = Primary \/ s = Standby
      BY Sides, SharedFacts DEF Standby, Primary
    <3> QED
      BY <2>1, <2>2, <2>3, <2>4, <3>1
<1>14. CASE AssertUnfenced
  BY <1>14, FailoverCalm DEF AssertUnfenced, Aborts, AbortedTo, Goto
<1>15. CASE Arm
  BY <1>15, FailoverCalm DEF Arm, NotArmed, Aborts, AbortedTo, Goto
<1>16. CASE Disarm
  BY <1>16, FailoverCalm DEF Disarm, Aborts, AbortedTo, Goto
<1>17. CASE WriteJournal
  <2>1. CASE pc' = "send"
    <3>1. [lsn |-> fo.lsn, id |-> fo.seen, proof |-> fo.proof] \in Journal
      BY DEF Failover, Journal
    <3>2. /\ pc = "journal" /\ pc' = "send" /\ UNCHANGED <<node, fo>>
          /\ cfg'.primary = cfg.primary /\ cfg'.journal # None
      BY <1>17, <2>1, <3>1, NoneAssumption
      DEF WriteJournal, NotArmed, Aborts, AbortedTo, Goto, Saved, Shared, Config
    <3> QED
      BY <3>2 DEF Primary, Standby
  <2>2. CASE pc' # "send"
    <3>1. Calm
      BY <1>17, <2>2, KeptSet DEF WriteJournal, SaveFailed, Calm
    <3> QED
      BY <1>17, <2>2, <3>1 DEF WriteJournal, NotArmed, Aborts, AbortedTo, Goto
  <2> QED
    BY <2>1, <2>2
<1>18. CASE ReadBeforePromote
  BY <1>18, FailoverCalm DEF ReadBeforePromote, Exit, Goto, Failover
<1>19. CASE IssuePromote
  <2>1. node' = node \/ Set(Standby, Promoting(node[Standby]))
    BY <1>19 DEF IssuePromote
  <2>2. cfg.journal # None
    BY <1>19 DEF IssuePromote, Goto
  <2>3. pc = "issue" /\ pc' = "poll" /\ UNCHANGED <<cfg, fo>>
    BY <1>19 DEF IssuePromote, Goto
  <2>4. Primary' = Primary /\ Standby' = Standby
    BY <2>3 DEF Primary, Standby
  <2>5. \A s \in Side :
          node'[s].pending => s = Standby' /\ cfg'.journal # None /\ node'[s].rec
    BY <2>1, <2>2, <2>3, PromoteSent
  <2> QED
    BY <2>3, <2>5
<1>20. CASE Poll
  BY <1>20, FailoverCalm DEF Poll, Exit, Goto
<1>21. CASE Unfence
  BY <1>21, FailoverCalm DEF Unfence, AfterUndo, Goto
<1>22. CASE RestartApp
  BY <1>22, FailoverCalm DEF RestartApp, AfterUndo, Goto
<1>23. CASE ClearJournal
  BY <1>23 DEF ClearJournal, Exit, Goto
<1>24. CASE Demote
  BY <1>24, FailoverCalm DEF Demote, Goto
<1>25. CASE ScaleUpPromoted
  BY <1>25, FailoverCalm DEF ScaleUpPromoted, Goto
<1>26. CASE ScaleDownOld
  BY <1>26, FailoverCalm DEF ScaleDownOld, Goto
<1>27. CASE StartAddons
  BY <1>27, FailoverCalm DEF StartAddons, Goto
<1>28. CASE FlipDns
  BY <1>28, FailoverCalm DEF FlipDns, Goto
<1>29. CASE SwapHaRoles
  BY <1>29 DEF SwapHaRoles, Exit, Goto
<1>30. CASE RetireOld
  BY <1>30, FailoverCalm DEF RetireOld, Exit, Goto
<1> QED
    BY <1>1, <1>2, <1>3, <1>4, <1>5, <1>6, <1>7, <1>8, <1>9, <1>10, <1>11, <1>12,
       <1>13, <1>14, <1>15, <1>16, <1>17, <1>18, <1>19, <1>20, <1>21, <1>22, <1>23,
       <1>24, <1>25, <1>26, <1>27, <1>28, <1>29, <1>30
  DEF FailoverStep

\* So does every step of an abort: it drops the journal of none.
LEMMA AbortOwned ==
  ASSUME Shared, ab \in Abort, PromoteOwned, AbortStep, UNCHANGED <<fo, de>>
  PROVE  PromoteOwned'
<1> USE CalmFacts, NoLocals DEF PromoteOwned, BeforeIssue, Fencings, AfterPromote, AbortPc
<1>1. CASE ReadStandbyLineage
  BY <1>1, AbortCalm DEF ReadStandbyLineage, Goto
<1>2. CASE StopStandbyDb
  <2>1. Calm
    BY <1>2, AbortCalm
  <2>2. pc' = "calledOff" => ~node'[Standby].pending
    <3>1. pc' = "calledOff" => node' = [node EXCEPT ![Standby] = Stopped(node[Standby])]
      BY <1>2 DEF StopStandbyDb, Set
    <3>2. Standby \in DOMAIN node /\ ~Stopped(node[Standby]).pending
      BY SharedFacts DEF Shared, Stopped, Node
    <3> QED
      BY <3>1, <3>2
  <2>3. Standby' = Standby
    BY <2>1
  <2> QED
    BY <1>2, <2>1, <2>2, <2>3 DEF StopStandbyDb
<1>3. CASE DisarmStandby
  BY <1>3, AbortCalm DEF DisarmStandby
<1>4. CASE RepointDns
  BY <1>4, AbortCalm DEF RepointDns
<1>5. CASE UnfencePrimary
  BY <1>5, AbortCalm DEF UnfencePrimary
<1>6. CASE ArmPrimary
  BY <1>6, AbortCalm DEF ArmPrimary
<1>7. CASE StartPrimaryWriters
  BY <1>7, AbortCalm DEF StartPrimaryWriters
<1>8. CASE RecordAbort
  BY <1>8 DEF RecordAbort
<1> QED
  BY <1>1, <1>2, <1>3, <1>4, <1>5, <1>6, <1>7, <1>8 DEF AbortStep

\* So does every step of a deploy.
LEMMA DeployOwned ==
  ASSUME Shared, de \in Deploy, PromoteOwned, DeployStep, UNCHANGED <<fo, ab>>
  PROVE  PromoteOwned'
<1> USE CalmFacts, NoLocals DEF PromoteOwned, BeforeIssue, Fencings, AfterPromote, AbortPc
<1>1. CASE LiftAtEntry
  BY <1>1, DeployCalm DEF LiftAtEntry, Goto
<1>2. CASE Refence
  BY <1>2, DeployCalm DEF Refence, Goto
<1>3. CASE ConvergeClusters
  BY <1>3, DeployCalm DEF ConvergeClusters, DeployExit, Goto
<1>4. CASE ProbeStreaming
  BY <1>4, DeployCalm DEF ProbeStreaming
<1>5. CASE GuardReseed
  BY <1>5, DeployCalm DEF GuardReseed, NotStreaming, Goto
<1>6. CASE StageAndSwap
  <2>1. Primary' = Primary /\ Standby' = Standby /\ cfg' = cfg
    BY <1>6 DEF StageAndSwap, Primary, Standby
  <2>2. node'[Primary] = node[Primary]
    BY <1>6, ReseedsStandby DEF StageAndSwap
  <2>3. \/ node'[Standby] = node[Standby]
        \/ ~node'[Standby].pending /\ node'[Standby].rec
    BY <1>6, ReseedsStandby DEF StageAndSwap
  <2>4. pc = "stage" /\ pc' \in {"stream", "gate"} /\ fo' = fo
    BY <1>6 DEF StageAndSwap, NotStreaming, Goto
  <2> QED
    <3>1. \A s \in Side : s = Primary \/ s = Standby
      BY Sides, SharedFacts DEF Standby, Primary
    <3> QED
      BY <2>1, <2>2, <2>3, <2>4, <3>1
<1>7. CASE VerifyStreaming
  BY <1>7, DeployCalm DEF VerifyStreaming
<1>8. CASE ForgetDiscarded
  BY <1>8, DeployCalm DEF ForgetDiscarded, Goto
<1>9. CASE GateStreaming
  BY <1>9, DeployCalm DEF GateStreaming, DeployExit, Goto
<1>10. CASE AwaitDns
  BY <1>10, DeployCalm DEF AwaitDns, DeployExit, Goto
<1>11. CASE ClearRetired
  BY <1>11, DeployCalm DEF ClearRetired, DeployExit, Goto
<1>12. CASE AssertWritable
  BY <1>12, DeployCalm DEF AssertWritable, DeployExit, Goto
<1>13. CASE FinalSave
  BY <1>13, DeployCalm DEF FinalSave, DeployExit, Goto
<1> QED
  BY <1>1, <1>2, <1>3, <1>4, <1>5, <1>6, <1>7, <1>8, <1>9, <1>10, <1>11, <1>12, <1>13
  DEF DeployStep

\* The clusters by themselves: a promote lands, nothing else moves one.
LEMMA WorldCalm ==
  ASSUME Shared, World
  PROVE  Calm /\ pc' = pc
<1> USE SharedFacts
<1>1. \A n \in Node : /\ \A d, t : Kept(n, [n EXCEPT !.data = d, !.tl = t])
                      /\ \A d : Kept(n, [n EXCEPT !.data = d])
                      /\ Kept(n, [n EXCEPT !.app = "zero"])
                      /\ \A t : Kept(n, [n EXCEPT !.pending = FALSE, !.rec = FALSE, !.tl = t])
                      /\ \A x : Kept(n, [n EXCEPT !.net = x])
  BY DEF Kept, Node
<1>2. ASSUME NEW s \in Side, NEW w \in Write, Commit(s, w)
      PROVE  Calm /\ pc' = pc
  BY <1>1, <1>2, KeptSet DEF Commit, Calm
<1>3. ASSUME NEW s \in Side,
             Replicate(s) \/ LinkUp(s) \/ Drain(s) \/ PromoteLands(s) \/ Die(s) \/ Cut(s)
      PROVE  Calm /\ pc' = pc
  <2>1. \A t \in Side : Kept(node[t], node'[t])
    <3>1. CASE Replicate(s)
      BY <1>1, <3>1, KeptSet DEF Replicate
    <3>2. CASE LinkUp(s)
      BY <3>2, KeptSet DEF LinkUp
    <3>3. CASE Drain(s)
      BY <1>1, <3>3, KeptSet DEF Drain
    <3>4. CASE PromoteLands(s)
      BY <1>1, <3>4, KeptSet DEF PromoteLands
    <3>5. CASE Die(s) \/ Cut(s)
      BY <1>1, <3>5, KeptSet DEF Die, Cut
    <3> QED
      BY <1>3, <3>1, <3>2, <3>3, <3>4, <3>5
  <2> QED
    BY <1>3, <2>1 DEF Calm, Replicate, LinkUp, Drain, PromoteLands, Die, Cut
<1>4. ASSUME NEW s \in Side, Return(s)
      PROVE  Calm /\ pc' = pc
  <2>1. PICK n \in {node[s], Restarted(node[s])} : Set(s, [n EXCEPT !.net = "up"])
    BY <1>4 DEF Return
  <2>2. n \in Node /\ Kept(node[s], n)
    BY <2>1, NodeUpdates, KeptUpdates
  <2>3. Kept(node[s], [n EXCEPT !.net = "up"])
    BY <1>1, <2>2, KeptTransitive
  <2> QED
    BY <1>4, <2>1, <2>3, KeptSet DEF Return, Calm
<1>5. CASE LinkDown
  BY <1>5, KeptSet DEF LinkDown, Calm
<1> QED
  BY <1>2, <1>3, <1>4, <1>5 DEF World

\* Starting a command owns what the last one left.
LEMMA OperatorOwned ==
  ASSUME Shared, PromoteOwned, Operator
  PROVE  PromoteOwned'
<1> USE CalmFacts DEF PromoteOwned, BeforeIssue, Fencings, AfterPromote, AbortPc
<1>1. CASE \/ FailoverStart
           \/ AbortStart /\ UNCHANGED <<fo, de>>
           \/ DeployStart /\ UNCHANGED <<fo, ab>>
  <2>1. Calm
    BY <1>1, KeptSet DEF FailoverStart, AbortStart, DeployStart, Calm
  <2>2. pc = "idle" /\ pc' \in {"ready", "lineage", "entry"}
    BY <1>1 DEF FailoverStart, AbortStart, DeployStart, Starts, Goto
  <2>3. ~fo.undo
    BY <2>2
  <2> QED
    BY <1>1, <2>1, <2>2, <2>3 DEF FailoverStart, AbortStart, DeployStart
<1>2. CASE Reconcile /\ UNCHANGED locals
  <2>1. Calm
    BY <1>2, RetireKept, SharedFacts DEF Reconcile, Calm
  <2> QED
    BY <1>2, <2>1 DEF Reconcile, locals
<1> QED
  BY <1>1, <1>2 DEF Operator

\* A deployed pair has no promote outstanding.
LEMMA InitOwned == Init => PromoteOwned
<1> SUFFICES ASSUME Init PROVE PromoteOwned
  OBVIOUS
<1>1. Shared
  BY InitTypes, TypeOKParts
<1>2. pc = "idle" /\ ~fo.undo
  BY NoLocals DEF Init, InitPair
<1>3. \A j, r : ~Deployed(j).pending /\ ~PilotLight(j, r).pending
  BY DEF Deployed, PilotLight
<1>4. \E p \in Side, i, j \in Id, seeded \in BOOLEAN :
        node = [s \in Side |-> IF s = p THEN Deployed(i) ELSE PilotLight(j, seeded)]
  BY DEF Init, InitPair
<1>5. \A s \in Side : ~node[s].pending
  <2> TAKE s \in Side
  <2>1. \E i, j, r : node[s] \in {Deployed(i), PilotLight(j, r)}
    BY <1>4
  <2> QED
    BY <2>1, <1>3
<1> QED
  BY <1>2, <1>5 DEF PromoteOwned, BeforeIssue, Fencings, AfterPromote, AbortPc

\* PromoteOwned is inductive, with the types.
LEMMA NextOwned == TypeOK /\ PromoteOwned /\ [Next]_vars => PromoteOwned'
<1> SUFFICES ASSUME TypeOK, PromoteOwned, [Next]_vars PROVE PromoteOwned'
  OBVIOUS
<1> USE TypeOKParts
<1>1. CASE World /\ UNCHANGED locals
  <2>1. Calm /\ pc' = pc /\ fo' = fo
    BY <1>1, WorldCalm DEF locals
  <2> QED
    BY <2>1, CalmFacts DEF PromoteOwned
<1>2. CASE Operator
  BY <1>2, OperatorOwned
<1>3. CASE FailoverStep /\ UNCHANGED <<ab, de>>
  BY <1>3, FailoverOwned
<1>4. CASE AbortStep /\ UNCHANGED <<fo, de>>
  BY <1>4, AbortOwned
<1>5. CASE DeployStep /\ UNCHANGED <<fo, ab>>
  BY <1>5, DeployOwned
<1>6. CASE Crash
  BY <1>6, CalmIdle, KeptSet, NoLocals DEF Crash, Calm
<1>7. CASE UNCHANGED vars
  BY <1>7 DEF vars, PromoteOwned, Primary, Standby
<1> QED
  BY <1>1, <1>2, <1>3, <1>4, <1>5, <1>6, <1>7 DEF Next, Command

\* The strengthening is an invariant, for any clusters and bounds.
THEOREM PromoteIsOwned == Spec => []PromoteOwned
<1>1. Init => TypeOK /\ PromoteOwned
  BY InitTypes, InitOwned
<1>2. TypeOK /\ PromoteOwned /\ [Next]_vars => (TypeOK /\ PromoteOwned)'
  BY NextTypes, NextOwned
<1> QED
  BY <1>1, <1>2, PTL DEF Spec

\* No promote is ever outstanding without a journal, nor anywhere but on the
\* standby (failover.js, failover-abort.js: whatever fails, crashes or is run
\* again, the next command knows that one may land).
THEOREM JournalAlwaysCovers == Spec => []JournalCoversPromote
<1>1. PromoteOwned => JournalCoversPromote
  BY DEF PromoteOwned, JournalCoversPromote
<1> QED
  BY <1>1, PromoteIsOwned, PTL
=============================================================================
