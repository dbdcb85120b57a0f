---------------------------- MODULE ComposeProofs ----------------------------
(***************************************************************************)
(* Type correctness of ComposeSystem, its StrandedFenceRecorded and        *)
(* HealthyHasReplica, its action property ReseedOnlyGivenUp and its        *)
(* refinement of OneWriter (MovesOneWriter), for any two servers, any      *)
(* transactions and bounds.  The first part is about types alone; the      *)
(* second about the invariant, which says what the roles, the promote, the *)
(* fence and the record owe each other (PairKept), and what a running      *)
(* command has established by the step it is at (FailoverKept, AbortKept,  *)
(* DeployKept); the third about the copies, that is which side is to       *)
(* serve, that it has everything while no server is lost, and what a       *)
(* failover has proven of the data by the step it is at (CopyInv).         *)
(***************************************************************************)
EXTENDS ComposeSystem, TLAPS

\* There are two servers, and Other is the other one.
LEMMA Servers ==
  /\ \A s \in Side : Other(s) \in Side /\ Other(s) # s
  /\ \A s, t \in Side : t = s \/ t = Other(s)
<1>1. PICK s, t \in Side : s # t /\ Side = {s, t}
  BY ServersAssumption
<1>2. \A u \in Side : \E v \in Side : v # u
  BY <1>1
<1>3. \A u \in Side : Other(u) \in Side /\ Other(u) # u
  BY <1>2 DEF Other
<1> QED
  BY <1>1, <1>3

Pc == {"idle"} \cup FailoverPc \cup AbortPc \cup DeployPc
UsedType == [runs : 0..MaxRuns, faults : 0..MaxFaults, crashes : 0..MaxCrashes,
             lost : BOOLEAN]
Shared ==
  /\ node \in [Side -> Node]
  /\ link \in BOOLEAN
  /\ dns \in Side
  /\ cfg \in Config
  /\ used \in UsedType

\* TypeOK in parts: what every command shares, and the locals of the running one.
LEMMA TypeOKParts == TypeOK <=> Shared /\ pc \in Pc /\ run \in Run
  BY DEF TypeOK, Shared, UsedType, Pc

\* The same of the next state.
LEMMA TypeOKPartsNext == Shared' /\ pc' \in Pc /\ run' \in Run => TypeOK'
  BY DEF TypeOK, Shared, UsedType, Pc

-----------------------------------------------------------------------------
(* Types of the helpers.                                                   *)

\* What the types of the shared state say of the two roles and of one write.
LEMMA SharedFacts ==
  ASSUME Shared
  PROVE  /\ Primary \in Side /\ Standby \in Side /\ Primary # Standby
         /\ \A s \in Side : s = Primary \/ s = Standby
         /\ \A s \in Side : node[s] \in Node
         /\ \A s \in Side, n \in Node : Set(s, n) => node' \in [Side -> Node]
         /\ node' = node => node' \in [Side -> Node]
<1>1. cfg.primary \in Side
  BY DEF Shared, Config
<1>2. Primary \in Side /\ Standby \in Side /\ Primary # Standby
  BY <1>1, Servers DEF Primary, Standby
<1>3. \A s \in Side : s = Primary \/ s = Standby
  BY <1>1, Servers DEF Primary, Standby
<1>4. \A s \in Side : node[s] \in Node
  BY DEF Shared
<1>5. \A s \in Side, n \in Node : Set(s, n) => node' \in [Side -> Node]
  BY DEF Set, Shared
<1> QED
  BY <1>2, <1>3, <1>4, <1>5 DEF Shared

\* What the steps write on a server leaves a server.
LEMMA NodeUpdates ==
  ASSUME Shared, NEW s \in Side
  PROVE  /\ \A r \in Role : WithRole(s, r) \in Node
         /\ \A b \in BOOLEAN : WithApp(s, b) \in Node
         /\ Fenced(s) \in Node /\ Unfenced(s) \in Node
         /\ DbStopped(s) \in Node /\ StackUp(s) \in Node /\ DbStarted(s) \in Node
         /\ Reseeded(s) \in Node /\ Retired(s) \in Node /\ Promoting(s) \in Node
         /\ PartsRetired(s) \subseteq Node
         /\ \A n \in Node : MaybeStarted(n) \subseteq Node
<1>1. node[s] \in Node /\ node[Other(s)] \in Node
  BY Servers, SharedFacts
<1>2. /\ \A r \in Role : WithRole(s, r) \in Node
      /\ \A b \in BOOLEAN : WithApp(s, b) \in Node
  BY <1>1 DEF WithRole, WithApp, Node
<1>3. /\ Fenced(s) \in Node /\ Unfenced(s) \in Node
      /\ DbStopped(s) \in Node /\ StackUp(s) \in Node /\ DbStarted(s) \in Node
  BY <1>1 DEF Fenced, Unfenced, DbStopped, StackUp, DbStarted, Node
<1>4. Reseeded(s) \in Node /\ Promoting(s) \in Node
  BY <1>1 DEF Reseeded, Promoting, Node
<1>5. Retired(s) \in Node
  BY <1>1 DEF Retired, Node, Role
<1>6. PartsRetired(s) \subseteq Node
  <2> SUFFICES ASSUME NEW db \in {DbAnswers(s), FALSE}, NEW app \in {Answers(s), FALSE},
                      NEW role \in {Answers(s), FALSE}
               PROVE  [node[s] EXCEPT !.retired = @ \/ db, !.app = @ /\ ~app,
                                      !.role = IF role THEN "standby" ELSE @] \in Node
    BY DEF PartsRetired
  <2>1. (node[s].retired \/ db) \in BOOLEAN /\ (node[s].app /\ ~app) \in BOOLEAN
    OBVIOUS
  <2> QED
    BY <1>1, <2>1 DEF Node, Role
<1>7. \A n \in Node : MaybeStarted(n) \subseteq Node
  BY DEF MaybeStarted, Node
<1> QED
  BY <1>2, <1>3, <1>4, <1>5, <1>6, <1>7

\* The counters of the bounds keep their ranges, whichever way a call ends.
LEMMA UsedUpdates ==
  ASSUME used \in UsedType
  PROVE  /\ used' = used => used' \in UsedType
         /\ MayFault /\ Spent => used' \in UsedType
         /\ \A b : Succeeded(b) => used' \in UsedType
         /\ \A b : Failed(b) => used' \in UsedType
         /\ [used EXCEPT !.lost = TRUE] \in UsedType
<1>1. used.faults \in 0..MaxFaults /\ MaxFaults \in Nat
  BY LimitAssumption DEF UsedType
<1>2. used.faults < MaxFaults => used.faults + 1 \in 0..MaxFaults
  BY <1>1
<1>3. MayFault /\ Spent => used' \in UsedType
  BY <1>2 DEF UsedType, MayFault, Spent
<1>4. [used EXCEPT !.lost = TRUE] \in UsedType
  BY DEF UsedType
<1> QED
  BY <1>3, <1>4 DEF Succeeded, Failed

\* A call on a server, and the retirement fence.
LEMMA CallTypes ==
  ASSUME Shared, NEW s \in Side
  PROVE  /\ \A r, n : n \in Node /\ Call(r, s, n) => node' \in [Side -> Node] /\ used' \in UsedType
         /\ Retire(s) => node' \in [Side -> Node] /\ used' \in UsedType
  BY SharedFacts, NodeUpdates, UsedUpdates DEF Call, Retire, Shared

\* What a command does to the standby's database directory, done or failed.
ReseedCall ==
  \/ StopForReseed \/ StopFails \/ SwapDirs \/ SwapFails \/ StartReseeded \/ StartFails

\* The standby's database was stopped or started, and that is all.
Cycled ==
  LET n == node[Standby]
      m == node'[Standby]
  IN /\ m.net = n.net /\ m.rec = n.rec /\ m.fence = n.fence /\ m.retired = n.retired
     /\ m.app = n.app /\ m.tl = n.tl /\ m.data = n.data /\ (m.pending => n.pending)
\* The standby became a copy of the primary, without the fence.
Copied ==
  LET n == node[Standby]
      m == node'[Standby]
  IN /\ m.net = n.net /\ m.rec /\ ~m.fence /\ (m.pending => n.pending)
     /\ m.tl = node[Primary].tl /\ m.data = node[Primary].data

\* It does one or the other, the primary stays as it is, and what streams again is
\* a replica.
LEMMA ReseedFacts ==
  ASSUME Shared, ReseedCall
  PROVE  /\ node' \in [Side -> Node] /\ link' \in BOOLEAN /\ used' \in UsedType
         /\ node'[Primary] = node[Primary]
         /\ StopForReseed \/ StopFails \/ StartReseeded \/ StartFails => Cycled
         /\ SwapDirs \/ SwapFails => Cycled \/ Copied
         /\ SwapDirs => Copied
         /\ StartReseeded => Cycled /\ node'[Standby].db
         /\ link' => link \/ node[Standby].rec
<1> USE SharedFacts
<1>1. Standby \in Side /\ node[Standby] \in Node /\ node[Primary] \in Node
  OBVIOUS
<1>2. Other(Standby) = Primary
  BY Servers
<1>3. ASSUME NEW n \in Node, Set(Standby, n)
      PROVE  /\ node' \in [Side -> Node]
             /\ node'[Primary] = node[Primary] /\ node'[Standby] = n
  BY <1>3 DEF Set, Shared
<1>4. used' \in UsedType
  BY UsedUpdates
     DEF ReseedCall, StopForReseed, StopFails, SwapDirs, SwapFails, StartReseeded, StartFails, Shared
<1>5. link' \in BOOLEAN /\ (link' => link \/ node[Standby].rec)
  <2>1. \/ link' = FALSE \/ link' = link
        \/ link' = Running(Primary) /\ ReadsReplica
    BY Zenon DEF ReseedCall, StopForReseed, StopFails, SwapDirs, SwapFails, StartReseeded,
                 StartFails, Succeeded
  <2>2. Running(Primary) \in BOOLEAN
    BY DEF Running, Node
  <2>3. ReadsReplica => node[Standby].rec
    BY DEF ReadsReplica
  <2>4. link \in BOOLEAN
    BY DEF Shared
  <2>5. link' = FALSE => link' \in BOOLEAN /\ ~link'
    OBVIOUS
  <2>6. link' = Running(Primary) => link' \in BOOLEAN
    BY <2>2
  <2> QED
    BY <2>1, <2>3, <2>4, <2>5, <2>6
<1> DEFINE Same(n) ==
      /\ n.net = node[Standby].net /\ n.rec = node[Standby].rec
      /\ n.fence = node[Standby].fence /\ n.retired = node[Standby].retired
      /\ n.app = node[Standby].app /\ n.tl = node[Standby].tl
      /\ n.data = node[Standby].data /\ (n.pending => node[Standby].pending)
    New(n) ==
      /\ n.net = node[Standby].net /\ n.rec /\ ~n.fence
      /\ (n.pending => node[Standby].pending)
      /\ n.tl = node[Primary].tl /\ n.data = node[Primary].data
<1>6. /\ Same(node[Standby]) /\ Same(DbStopped(Standby)) /\ Same(DbStarted(Standby))
      /\ DbStarted(Standby).db
  BY <1>1 DEF DbStopped, DbStarted, Node
<1>7. New(Reseeded(Standby))
  BY <1>1, <1>2 DEF Reseeded, Node
<1>8. ASSUME NEW n \in Node, NEW m \in MaybeStarted(n)
      PROVE  (Same(n) => Same(m)) /\ (New(n) => New(m))
  BY <1>8 DEF MaybeStarted, Node
<1>9. /\ DbStopped(Standby) \in Node /\ Reseeded(Standby) \in Node
      /\ DbStarted(Standby) \in Node /\ \A n \in Node : MaybeStarted(n) \subseteq Node
  BY <1>1, NodeUpdates
<1>10. ASSUME NEW n \in Node, Set(Standby, n)
       PROVE  (Same(n) => Cycled) /\ (New(n) => Copied)
  BY <1>3, <1>10 DEF Cycled, Copied
<1>11. ASSUME node' = node
       PROVE  Cycled /\ node'[Primary] = node[Primary] /\ node' \in [Side -> Node]
  BY <1>11 DEF Cycled, Shared
<1> HIDE DEF Same, New
<1>12. ASSUME StopForReseed \/ StartReseeded
       PROVE  Cycled
  <2>1. Set(Standby, DbStopped(Standby)) \/ Set(Standby, DbStarted(Standby))
    BY <1>12 DEF StopForReseed, StartReseeded
  <2> QED
    BY <1>6, <1>9, <1>10, <2>1
<1>13. ASSUME StopFails \/ StartFails
       PROVE  Cycled
  <2>1. \/ node' = node
        \/ \E n \in {node[Standby]} \cup MaybeStarted(DbStopped(Standby))
                                    \cup MaybeStarted(node[Standby]) : Set(Standby, n)
    BY <1>13 DEF StopFails, StartFails
  <2>2. \A n \in {node[Standby]} \cup MaybeStarted(DbStopped(Standby))
                                 \cup MaybeStarted(node[Standby]) : n \in Node /\ Same(n)
    BY <1>1, <1>6, <1>8, <1>9
  <2> QED
    BY <1>10, <1>11, <2>1, <2>2
<1>14. ASSUME SwapDirs \/ SwapFails
       PROVE  Cycled \/ Copied
  <2>1. \E n \in {node[Standby], Reseeded(Standby)} \cup MaybeStarted(node[Standby])
                   \cup MaybeStarted(Reseeded(Standby)) : Set(Standby, n)
    BY <1>14 DEF SwapDirs, SwapFails
  <2>2. \A n \in {node[Standby]} \cup MaybeStarted(node[Standby]) : n \in Node /\ Same(n)
    BY <1>1, <1>6, <1>8, <1>9
  <2>3. \A n \in {Reseeded(Standby)} \cup MaybeStarted(Reseeded(Standby)) : n \in Node /\ New(n)
    BY <1>1, <1>7, <1>8, <1>9
  <2> QED
    BY <1>10, <2>1, <2>2, <2>3
<1>15. node' = node \/ \E n \in Node : Set(Standby, n)
  <2>1. \/ node' = node
        \/ \E n \in {node[Standby], DbStopped(Standby), DbStarted(Standby), Reseeded(Standby)}
                     \cup MaybeStarted(DbStopped(Standby)) \cup MaybeStarted(node[Standby])
                     \cup MaybeStarted(Reseeded(Standby)) : Set(Standby, n)
    BY DEF ReseedCall, StopForReseed, StopFails, SwapDirs, SwapFails, StartReseeded, StartFails
  <2> QED
    BY <1>1, <1>9, <2>1
<1>16. node' \in [Side -> Node] /\ node'[Primary] = node[Primary]
  BY <1>3, <1>11, <1>15
<1>17. /\ SwapDirs => Copied
       /\ StartReseeded => Cycled /\ node'[Standby].db
  BY <1>3, <1>6, <1>7, <1>9, <1>10 DEF SwapDirs, StartReseeded
<1> QED
  BY <1>4, <1>5, <1>12, <1>13, <1>14, <1>16, <1>17

\* A save is of a record, or of none.
LEMMA SaveTypes ==
  ASSUME Shared
  PROVE  /\ \A c \in Config : Save(c) \/ Saved(c) => cfg' \in Config /\ used' \in UsedType
         /\ SaveFailed => cfg' \in Config /\ used' \in UsedType
  BY UsedUpdates DEF Save, Saved, SaveFailed, Shared

\* A command that ends or begins has well-formed locals.
LEMMA NoRunTypes == NoRun \in Run
  BY DEF NoRun, Run, Journal, Proof

\* The steps of the three commands.
LEMMA Pcs == FailoverPc \subseteq Pc /\ AbortPc \subseteq Pc /\ DeployPc \subseteq Pc /\ "idle" \in Pc
  BY DEF Pc

\* What a probe answers is true or false, and the app tier runs or it does not.
LEMMA ProbeTypes ==
  ASSUME Shared, NEW s \in Side
  PROVE  Answers(s) \in BOOLEAN /\ DbAnswers(s) \in BOOLEAN /\ node[s].app \in BOOLEAN
  BY SharedFacts DEF Answers, DbAnswers, Running, Node

\* The journal a failover prepares, filled in as the standby's data is proven.
LEMMA JournalTypes ==
  ASSUME run \in Run
  PROVE  /\ [run EXCEPT !.journal.lsn = TRUE] \in Run
         /\ [run EXCEPT !.journal.proof = "caughtUp"] \in Run
         /\ [run EXCEPT !.journal.named = TRUE, !.journal.proof = "reseeded"] \in Run
         /\ \A a, b, c \in BOOLEAN :
              [run EXCEPT !.journaled = a, !.resume = b, !.journal.named = c] \in Run
<1>1. /\ run.journal \in Journal
      /\ [run.journal EXCEPT !.lsn = TRUE] \in Journal
      /\ [run.journal EXCEPT !.proof = "caughtUp"] \in Journal
      /\ [run.journal EXCEPT !.named = TRUE, !.proof = "reseeded"] \in Journal
      /\ \A c \in BOOLEAN : [run.journal EXCEPT !.named = c] \in Journal
  BY DEF Run, Journal, Proof
<1>2. \A j \in Journal : [run EXCEPT !.journal = j] \in Run
  BY DEF Run
<1>3. \A j \in Journal, a, b \in BOOLEAN :
        [run EXCEPT !.journaled = a, !.resume = b, !.journal = j] \in Run
  BY DEF Run
<1>4. /\ [run EXCEPT !.journal.lsn = TRUE] \in Run
      /\ [run EXCEPT !.journal.proof = "caughtUp"] \in Run
      /\ [run EXCEPT !.journal.named = TRUE, !.journal.proof = "reseeded"] \in Run
  BY <1>1, <1>2 DEF Run
<1>5. ASSUME NEW a \in BOOLEAN, NEW b \in BOOLEAN, NEW c \in BOOLEAN
      PROVE  [run EXCEPT !.journaled = a, !.resume = b, !.journal.named = c] \in Run
  <2>1. [run.journal EXCEPT !.named = c] \in Journal
    BY <1>1
  <2>2. [run EXCEPT !.journaled = a, !.resume = b, !.journal.named = c]
          = [run EXCEPT !.journaled = a, !.resume = b,
                        !.journal = [run.journal EXCEPT !.named = c]]
    BY DEF Run
  <2> QED
    BY <2>1, <2>2, <1>3
<1> QED
  BY <1>4, <1>5

\* A step that keeps everything but the locals keeps the types of the rest.
LEMMA KeptTypes ==
  ASSUME Shared, Kept, used' \in UsedType
  PROVE  Shared'
  BY DEF Shared, Kept

-----------------------------------------------------------------------------
(* Types, step by step.                                                    *)

\* The lift of a stranded fence, at either command.
LEMMA LiftTypes ==
  ASSUME Shared, run \in Run, NEW from, NEW to \in Pc, NEW refused \in Pc,
         LiftStranded(from, to, refused)
  PROVE  Shared' /\ pc' \in Pc /\ run' \in Run
<1>1. pc' \in Pc /\ run' \in Run
  BY NoRunTypes DEF LiftStranded, Goto
<1>2. used' \in UsedType
  BY UsedUpdates DEF LiftStranded, Saved, SaveFailed, Shared
<1>3. node' \in [Side -> Node]
  BY SharedFacts, NodeUpdates DEF LiftStranded, Set
<1>4. cfg' \in Config
  BY DEF LiftStranded, Saved, SaveFailed, Shared, Config
<1> QED
  BY <1>1, <1>2, <1>3, <1>4 DEF Shared, LiftStranded

\* The steps of a failover.
LEMMA FailoverTypes ==
  ASSUME Shared, pc \in Pc, run \in Run, FailoverStep
  PROVE  Shared' /\ pc' \in Pc /\ run' \in Run
<1> USE SharedFacts, NoRunTypes
<1>1. CASE ProbePrimary
  <2>1. pc' \in Pc /\ run' \in Run
    BY <1>1, ProbeTypes DEF ProbePrimary, Goto, Pc, FailoverPc, Run
  <2> QED
    BY <1>1, <2>1, KeptTypes DEF ProbePrimary, Shared
<1>2. CASE LiftAtFailover
  BY <1>2, LiftTypes DEF LiftAtFailover, Pc, FailoverPc
<1>3. CASE Check
  <2>1. used' \in UsedType
    BY <1>3, UsedUpdates DEF Check, Shared
  <2>2. (~node[Standby].rec) \in BOOLEAN /\ (cfg.journal # None) \in BOOLEAN
    OBVIOUS
  <2>3. \A standby \in StandbyReadings : standby.named \in BOOLEAN
    <3> SUFFICES ASSUME NEW standby \in StandbyReadings
                 PROVE  standby.named = TRUE \/ standby.named = FALSE
      OBVIOUS
    <3>1. CASE standby = [streams |-> Streaming, named |-> TRUE]
      BY <3>1
    <3>2. CASE standby = [streams |-> FALSE, named |-> FALSE]
      BY <3>2
    <3> QED
      BY <3>1, <3>2 DEF StandbyReadings
  <2>4. run' \in Run
    BY <1>3, <2>2, <2>3, JournalTypes DEF Check, Exit
  <2>5. pc' \in Pc
    BY <1>3 DEF Check, Exit, Goto, Pc, FailoverPc
  <2> QED
    BY <1>3, <2>1, <2>4, <2>5, KeptTypes DEF Check
<1>4. CASE StopWriters
  <2>1. node' \in [Side -> Node]
    BY <1>4, NodeUpdates DEF StopWriters
  <2>2. used' \in UsedType
    BY <1>4, UsedUpdates DEF StopWriters, Shared
  <2>3. pc' \in Pc /\ run' \in Run
    BY <1>4, ProbeTypes DEF StopWriters, NotFenced, Pc, FailoverPc, Run
  <2> QED
    BY <1>4, <2>1, <2>2, <2>3 DEF StopWriters, Shared
<1>5. CASE Mark
  <2>1. pc' \in Pc /\ run' \in Run
    BY <1>5 DEF Mark, NotFenced, Pc, FailoverPc, Run
  <2>2. cfg' \in Config /\ used' \in UsedType
    BY <1>5, UsedUpdates DEF Mark, Saved, SaveFailed, Shared, Config
  <2> QED
    BY <1>5, <2>1, <2>2 DEF Mark, Shared
<1>6. CASE Fence
  <2>1. node' \in [Side -> Node]
    BY <1>6, NodeUpdates DEF Fence
  <2>2. used' \in UsedType
    BY <1>6, UsedUpdates DEF Fence, Shared
  <2>3. pc' \in Pc /\ run' \in Run
    BY <1>6 DEF Fence, NotFenced, Pc, FailoverPc, Run
  <2> QED
    BY <1>6, <2>1, <2>2, <2>3 DEF Fence, Shared
<1>7. CASE Capture
  <2>1. pc' \in Pc /\ run' \in Run
    BY <1>7, JournalTypes DEF Capture, Undo, UndoTo, Goto, Pc, FailoverPc
  <2> QED
    BY <1>7, <2>1, KeptTypes, UsedUpdates DEF Capture, Shared
<1>8. CASE Replayed
  <2>1. pc' \in Pc /\ run' \in Run
    BY <1>8, JournalTypes DEF Replayed, Undo, UndoTo, Goto, Pc, FailoverPc
  <2> QED
    BY <1>8, <2>1, KeptTypes, UsedUpdates DEF Replayed, Shared
<1>9. CASE Reseed \/ SwapReseed \/ ProveReseed
  <2>1. pc' \in Pc /\ run' \in Run
    BY <1>9, JournalTypes
       DEF Reseed, SwapReseed, ProveReseed, Step, Undo, UndoTo, Goto, Pc, FailoverPc
  <2>2. ReseedCall
    BY <1>9 DEF Reseed, SwapReseed, ProveReseed, ReseedCall
  <2>3. cfg' \in Config
    BY <1>9 DEF Reseed, SwapReseed, ProveReseed, Shared, Config
  <2>4. dns' = dns
    BY <1>9 DEF Reseed, SwapReseed, ProveReseed
  <2> QED
    BY <2>1, <2>2, <2>3, <2>4, ReseedFacts DEF Shared
<1>10. CASE Arm
  <2>1. pc' \in Pc /\ run' \in Run
    BY <1>10 DEF Arm, NotArmed, Undo, UndoTo, Step, Goto, Pc, FailoverPc
  <2>2. node' \in [Side -> Node]
    BY <1>10, NodeUpdates DEF Arm, Role
  <2>3. used' \in UsedType
    BY <1>10, UsedUpdates DEF Arm, Shared
  <2> QED
    BY <1>10, <2>1, <2>2, <2>3 DEF Arm, Shared
<1>11. CASE Disarm
  <2>1. pc' \in Pc /\ run' \in Run
    BY <1>11 DEF Disarm, Undo, UndoTo, Goto, Pc, FailoverPc
  <2> QED
    BY <1>11, <2>1, CallTypes, NodeUpdates DEF Disarm, Shared, Role
<1>12. CASE WriteJournal
  <2>1. pc' \in Pc /\ run' \in Run
    BY <1>12 DEF WriteJournal, NotArmed, Undo, UndoTo, Step, Goto, Pc, FailoverPc
  <2>2. cfg' \in Config /\ used' \in UsedType
    BY <1>12, UsedUpdates DEF WriteJournal, Saved, SaveFailed, Shared, Config, Run
  <2> QED
    BY <1>12, <2>1, <2>2 DEF WriteJournal, Shared
<1>13. CASE ReadBeforePromote
  BY <1>13, KeptTypes, UsedUpdates
     DEF ReadBeforePromote, Exit, Step, Goto, Pc, FailoverPc, Run, Shared
<1>14. CASE IssuePromote
  BY <1>14, CallTypes, NodeUpdates DEF IssuePromote, Step, Goto, Pc, FailoverPc, Shared
<1>15. CASE Poll
  BY <1>15, KeptTypes, UsedUpdates DEF Poll, Exit, Step, Goto, Pc, FailoverPc, Shared
<1>16. CASE HoldOld
  BY <1>16, CallTypes, NodeUpdates DEF HoldOld, Exit, Goto, Pc, FailoverPc, Shared
<1>17. CASE Unfence
  <2>1. pc' \in Pc /\ run' \in Run
    BY <1>17 DEF Unfence, AfterUndo, Step, Goto, Pc, FailoverPc
  <2>2. node' \in [Side -> Node]
    BY <1>17, NodeUpdates DEF Unfence
  <2>3. cfg' \in Config /\ used' \in UsedType
    BY <1>17, UsedUpdates DEF Unfence, Saved, SaveFailed, Shared, Config
  <2> QED
    BY <1>17, <2>1, <2>2, <2>3 DEF Unfence, Shared
<1>18. CASE StartApp
  <2>1. pc' \in Pc /\ run' \in Run
    BY <1>18 DEF StartApp, AfterUndo, Goto, Pc, FailoverPc
  <2> QED
    BY <1>18, <2>1, CallTypes, NodeUpdates DEF StartApp, Shared
<1>19. CASE ClearJournal
  <2>1. [cfg EXCEPT !.journal = None] \in Config
    BY DEF Shared, Config
  <2> QED
    BY <1>19, <2>1, SaveTypes DEF ClearJournal, Exit, Goto, Pc, Shared
<1>20. CASE RestartApp
  BY <1>20, CallTypes, NodeUpdates DEF RestartApp, Step, Goto, Pc, FailoverPc, Shared
<1>21. CASE StopOld
  BY <1>21, CallTypes, NodeUpdates DEF StopOld, Step, Goto, Pc, FailoverPc, Shared
<1>22. CASE Demote
  BY <1>22, CallTypes, NodeUpdates DEF Demote, Step, Goto, Pc, FailoverPc, Shared, Role
<1>23. CASE FlipDns
  BY <1>23, UsedUpdates DEF FlipDns, Step, Goto, Pc, FailoverPc, Shared
<1>24. CASE SwapRoles
  <2>1. cfg' \in Config /\ used' \in UsedType
    BY <1>24, UsedUpdates DEF SwapRoles, Saved, SaveFailed, Shared, Config
  <2> QED
    BY <1>24, <2>1 DEF SwapRoles, Exit, Goto, Pc, FailoverPc, Shared
<1>25. CASE RetireOld
  BY <1>25, CallTypes DEF RetireOld, Exit, Goto, Pc, Shared
<1> QED
  BY <1>1, <1>2, <1>3, <1>4, <1>5, <1>6, <1>7, <1>8, <1>9, <1>10, <1>11, <1>12, <1>13,
     <1>14, <1>15, <1>16, <1>17, <1>18, <1>19, <1>20, <1>21, <1>22, <1>23, <1>24, <1>25
     DEF FailoverStep

\* What a reading of a copy gives.
LEMMA CopyTypes ==
  ASSUME Shared, NEW s \in Side
  PROVE  CopyOf(s) \in Copy
  BY SharedFacts DEF CopyOf, Copy, Node

\* The steps of an abort.
LEMMA AbortTypes ==
  ASSUME Shared, pc \in Pc, run \in Run, AbortStep
  PROVE  Shared' /\ pc' \in Pc /\ run' \in Run
<1> USE SharedFacts, NoRunTypes
<1>1. CASE ReadLineage
  <2>1. pc' \in Pc /\ run' \in Run
    BY <1>1, CopyTypes DEF ReadLineage, Goto, Pc, AbortPc, Run
  <2> QED
    BY <1>1, <2>1, KeptTypes, UsedUpdates DEF ReadLineage, Shared
<1>2. CASE StopStandbyDb
  <2>1. used' \in UsedType
    BY <1>2, UsedUpdates DEF StopStandbyDb, GivesUp, Shared
  <2>2. node' \in [Side -> Node] /\ link' \in BOOLEAN
    BY <1>2, NodeUpdates DEF StopStandbyDb, Shared
  <2>3. pc' \in Pc /\ run' \in Run
    BY <1>2 DEF StopStandbyDb, Exit, Goto, Pc, AbortPc
  <2> QED
    BY <1>2, <2>1, <2>2, <2>3 DEF StopStandbyDb, Shared
<1>3. CASE DisarmStandby
  <2>1. [WithRole(Standby, "standby") EXCEPT !.app = FALSE] \in Node
    BY DEF WithRole, Node, Role
  <2>2. node' \in [Side -> Node] /\ used' \in UsedType
    BY <1>3, <2>1, NodeUpdates, UsedUpdates DEF DisarmStandby, Shared, Role
  <2> QED
    BY <1>3, <2>2 DEF DisarmStandby, Step, Goto, Pc, AbortPc, Shared
<1>4. CASE RepointDns
  BY <1>4, UsedUpdates DEF RepointDns, Step, Goto, Pc, AbortPc, Shared
<1>5. CASE UnfencePrimary
  <2>1. node' \in [Side -> Node] /\ used' \in UsedType
    BY <1>5, NodeUpdates, UsedUpdates DEF UnfencePrimary, Shared
  <2>2. pc' \in Pc /\ run' \in Run
    BY <1>5 DEF UnfencePrimary, Step, Goto, Pc, AbortPc, Run
  <2> QED
    BY <1>5, <2>1, <2>2 DEF UnfencePrimary, Shared
<1>6. CASE ArmPrimary
  BY <1>6, CallTypes, NodeUpdates DEF ArmPrimary, Step, Goto, Pc, AbortPc, Shared, Role
<1>7. CASE StartPrimaryWriters
  BY <1>7, CallTypes, NodeUpdates DEF StartPrimaryWriters, Step, Goto, Pc, AbortPc, Shared
<1>8. CASE RecordAbort
  <2>1. KeptMarker \in Side \cup {None} /\ run.reading \in Copy \cup {None}
    BY DEF KeptMarker, Shared, Config, Run
  <2>2. cfg' \in Config /\ used' \in UsedType
    BY <1>8, <2>1, UsedUpdates DEF RecordAbort, Save, Saved, SaveFailed, Shared, Config
  <2> QED
    BY <1>8, <2>2 DEF RecordAbort, Exit, Goto, Pc, Shared
<1> QED
  BY <1>1, <1>2, <1>3, <1>4, <1>5, <1>6, <1>7, <1>8 DEF AbortStep

\* The steps of a deploy.
LEMMA DeployTypes ==
  ASSUME Shared, pc \in Pc, run \in Run, DeployStep
  PROVE  Shared' /\ pc' \in Pc /\ run' \in Run
<1> USE SharedFacts, NoRunTypes
<1>1. CASE LiftAtDeploy
  <2>1. AfterLift \in Pc /\ "entry" \in Pc
    BY DEF AfterLift, Pc, DeployPc
  <2> QED
    BY <1>1, <2>1, LiftTypes DEF LiftAtDeploy
<1>2. CASE Refence
  BY <1>2, CallTypes DEF Refence, Step, Goto, Pc, DeployPc, Shared
<1>3. CASE AssertReady
  BY <1>3, UsedUpdates DEF AssertReady, Exit, Step, Goto, Pc, DeployPc, Shared
<1>4. CASE WriteRoles
  <2>1. \A s \in Side : Roled(s) \in Node
    BY NodeUpdates DEF Roled, Role
  <2>2. node' \in [Side -> Node] /\ used' \in UsedType /\ dns' \in Side
    BY <1>4, <2>1, UsedUpdates DEF WriteRoles, Shared
  <2> QED
    BY <1>4, <2>2 DEF WriteRoles, Exit, Step, Goto, Pc, DeployPc, Shared
<1>5. CASE StartStacks
  <2>1. node' \in [Side -> Node] /\ used' \in UsedType
    BY <1>5, NodeUpdates, UsedUpdates DEF StartStacks, Shared
  <2> QED
    BY <1>5, <2>1 DEF StartStacks, Exit, Step, Goto, Pc, DeployPc, Shared
<1>6. CASE ReconvergeStacks
  <2>1. used' \in UsedType
    BY <1>6, UsedUpdates DEF ReconvergeStacks, Shared
  <2>2. \A n \in Node : [s \in Side |-> IF s = Primary THEN StackUp(s) ELSE n] \in [Side -> Node]
    BY NodeUpdates
  <2>3. /\ StackUp(Standby) \in Node /\ Retired(Standby) \in Node
        /\ node[Standby] \in Node /\ PartsRetired(Standby) \subseteq Node
    BY NodeUpdates
  <2>4. node' \in [Side -> Node]
    BY <1>6, <2>2, <2>3 DEF ReconvergeStacks
  <2>5. node[Standby].rec \in BOOLEAN
    BY DEF Node
  <2>6. pc' \in Pc /\ run' \in Run
    BY <1>6, <2>5 DEF ReconvergeStacks, Exit, Step, Goto, Pc, DeployPc, Run
  <2> QED
    BY <1>6, <2>1, <2>4, <2>6 DEF ReconvergeStacks, Shared
<1>7. CASE ProbeStreaming
  BY <1>7, KeptTypes, UsedUpdates DEF ProbeStreaming, Exit, Step, Goto, Pc, DeployPc, Shared
<1>8. CASE ForgetDiscarded("forget") \/ ForgetDiscarded("forgetSeed")
  <2>1. [cfg EXCEPT !.discard = None] \in Config
    BY DEF Shared, Config
  <2>2. cfg' \in Config /\ used' \in UsedType
    BY <1>8, <2>1, SaveTypes DEF ForgetDiscarded
  <2> QED
    BY <1>8, <2>2 DEF ForgetDiscarded, Exit, Step, Goto, Pc, DeployPc, Shared
<1>9. CASE GuardReseed
  BY <1>9, KeptTypes, UsedUpdates DEF GuardReseed, Exit, Step, Goto, Pc, DeployPc, Shared
<1>10. CASE \/ SeedStandby \/ SwapSeed \/ StartSeeded
            \/ ReseedRetired \/ SwapRetired \/ StartReplaced
  <2>1. ReseedCall /\ cfg' = cfg /\ dns' = dns
    BY <1>10 DEF SeedStandby, SwapSeed, StartSeeded, ReseedRetired, SwapRetired, StartReplaced,
                 ReseedCall
  <2>2. pc' \in Pc /\ run' = run
    BY <1>10 DEF SeedStandby, SwapSeed, StartSeeded, ReseedRetired, SwapRetired, StartReplaced,
                 Step, Goto, Pc, DeployPc
  <2> QED
    BY <2>1, <2>2, ReseedFacts DEF Shared
<1>11. CASE PlanRebuild
  BY <1>11, KeptTypes, UsedUpdates DEF PlanRebuild, Exit, Step, Goto, Pc, DeployPc, Shared
<1>13. CASE StartRebuilt
  <2>1. node' \in [Side -> Node] /\ used' \in UsedType
    BY <1>13, NodeUpdates, UsedUpdates DEF StartRebuilt, Shared
  <2>2. pc' \in Pc /\ run' \in Run
    BY <1>13 DEF StartRebuilt, Goto, Pc, DeployPc, Run
  <2> QED
    BY <1>13, <2>1, <2>2 DEF StartRebuilt, Shared
<1>14. CASE VerifyStreaming
  <2>1. pc' \in Pc /\ run' \in Run
    BY <1>14 DEF VerifyStreaming, Exit, Step, Goto, Pc, DeployPc, Run
  <2> QED
    BY <1>14, <2>1, KeptTypes, UsedUpdates DEF VerifyStreaming, Shared
<1>15. CASE ReadIdentifier
  <2>1. pc' \in Pc /\ run' \in Run
    BY <1>15 DEF ReadIdentifier, Step, Goto, Pc, DeployPc, Run
  <2> QED
    BY <1>15, <2>1, KeptTypes, UsedUpdates DEF ReadIdentifier, Shared
<1>16. CASE ClearRetired
  <2>1. [node[Standby] EXCEPT !.retired = FALSE] \in Node
    BY DEF Node
  <2>2. node' \in [Side -> Node] /\ used' \in UsedType
    BY <1>16, <2>1, UsedUpdates DEF ClearRetired, Shared
  <2>3. pc' \in Pc /\ run' \in Run
    BY <1>16 DEF ClearRetired, Goto, Pc, DeployPc, Run
  <2> QED
    BY <1>16, <2>2, <2>3 DEF ClearRetired, Shared
<1>17. CASE FinalizeConfig
  <2>1. /\ Degrades \in BOOLEAN /\ (cfg.swapped /\ ~Done) \in BOOLEAN
        /\ (cfg.known \/ run.complete) \in BOOLEAN
    BY DEF Degrades, Done
  <2>2. cfg' \in Config /\ used' \in UsedType
    BY <1>17, <2>1, UsedUpdates DEF FinalizeConfig, Saved, SaveFailed, Shared, Config
  <2> QED
    BY <1>17, <2>2 DEF FinalizeConfig, Exit, Step, Goto, Pc, DeployPc, Shared
<1>18. CASE AssertWritable
  <2>1. cfg' \in Config /\ used' \in UsedType
    BY <1>18, UsedUpdates DEF AssertWritable, Saved, SaveFailed, Shared, Config
  <2>2. node' \in [Side -> Node]
    BY <1>18, NodeUpdates DEF AssertWritable
  <2> QED
    BY <1>18, <2>1, <2>2 DEF AssertWritable, Exit, Step, Goto, Pc, DeployPc, Shared
<1>19. CASE FinalSave
  <2>1. /\ Degrades \in BOOLEAN /\ (cfg.swapped /\ ~Done) \in BOOLEAN
        /\ (run.named /\ ~Degrades) \in BOOLEAN
    BY DEF Degrades, Done
  <2>2. cfg' \in Config /\ used' \in UsedType
    BY <1>19, <2>1, UsedUpdates DEF FinalSave, Save, Saved, SaveFailed, Shared, Config
  <2> QED
    BY <1>19, <2>2 DEF FinalSave, Exit, Goto, Pc, DeployPc, Shared
<1> QED
  BY <1>1, <1>2, <1>3, <1>4, <1>5, <1>6, <1>7, <1>8, <1>9, <1>10, <1>11, <1>13,
     <1>14, <1>15, <1>16, <1>17, <1>18, <1>19 DEF DeployStep

\* What the servers do by themselves.
LEMMA WorldTypes ==
  ASSUME Shared, World
  PROVE  Shared' /\ pc' = pc /\ run' = run
<1> USE SharedFacts
<1>1. CASE \E s \in Side, w \in Write : Commit(s, w)
  <2>1. PICK s \in Side, w \in Write : Commit(s, w)
    BY <1>1
  <2>2. [node[s] EXCEPT !.data = @ \cup {w}] \in Node
    BY DEF Node
  <2> QED
    BY <2>1, <2>2 DEF Commit, Shared
<1>2. ASSUME NEW s \in Side, Replicate(s)
      PROVE  Shared' /\ pc' = pc /\ run' = run
  <2>1. [node[s] EXCEPT !.data = node[Other(s)].data, !.tl = node[Other(s)].tl] \in Node
    <3>1. Other(s) \in Side
      BY Servers
    <3>2. node[s] \in Node /\ node[Other(s)] \in Node
      BY <3>1
    <3> QED
      BY <3>2 DEF Node
  <2> QED
    BY <1>2, <2>1 DEF Replicate, Shared
<1>3. ASSUME NEW s \in Side, LinkUp(s)
      PROVE  Shared' /\ pc' = pc /\ run' = run
  BY <1>3 DEF LinkUp, Shared
<1>4. ASSUME NEW s \in Side, PromoteLands(s)
      PROVE  Shared' /\ pc' = pc /\ run' = run
  <2>1. node[s].tl + 1 \in Timeline
    BY DEF Node, Timeline
  <2>2. [node[s] EXCEPT !.pending = FALSE, !.rec = FALSE, !.tl = @ + 1] \in Node
    BY <2>1 DEF Node
  <2> QED
    BY <1>4, <2>2 DEF PromoteLands, Shared
<1>5. ASSUME NEW s \in Side, Die(s) \/ Cut(s)
      PROVE  Shared' /\ pc' = pc /\ run' = run
  <2>1. /\ [node[s] EXCEPT !.net = "dead"] \in Node
        /\ [node[s] EXCEPT !.net = "cut"] \in Node
    BY DEF Node
  <2>2. MayFault => [used EXCEPT !.faults = @ + 1, !.lost = TRUE] \in UsedType
    <3>1. used.faults \in 0..MaxFaults /\ MaxFaults \in Nat
      BY LimitAssumption DEF UsedType, Shared
    <3>2. MayFault => used.faults + 1 \in 0..MaxFaults
      BY <3>1 DEF MayFault
    <3> QED
      BY <3>2 DEF UsedType, Shared
  <2> QED
    BY <1>5, <2>1, <2>2 DEF Die, Cut, Shared
<1>6. ASSUME NEW s \in Side, Return(s)
      PROVE  Shared' /\ pc' = pc /\ run' = run
  <2>1. /\ [StackUp(s) EXCEPT !.net = "up", !.pending = FALSE] \in Node
        /\ [node[s] EXCEPT !.net = "up"] \in Node
    BY DEF StackUp, Node
  <2> QED
    BY <1>6, <2>1 DEF Return, Shared
<1>7. CASE LinkDown
  BY <1>7, UsedUpdates DEF LinkDown, Shared
<1> QED
  BY <1>1, <1>2, <1>3, <1>4, <1>5, <1>6, <1>7 DEF World

\* The three commands begin with well-formed locals, and within the bound.
LEMMA StartTypes ==
  ASSUME Shared, FailoverStart \/ AbortStart \/ DeployStart
  PROVE  Shared' /\ pc' \in Pc /\ run' \in Run
<1>1. CASE FailoverStart
  <2>1. used.runs \in 0..MaxRuns /\ MaxRuns \in Nat
    BY LimitAssumption DEF UsedType, Shared
  <2>2. used' \in UsedType
    BY <1>1, <2>1 DEF FailoverStart, UsedType, Shared
  <2> QED
    BY <1>1, <2>2, NoRunTypes, KeptTypes DEF FailoverStart, Begin, Goto, Pc, FailoverPc
<1>2. CASE AbortStart
  BY <1>2, NoRunTypes, KeptTypes DEF AbortStart, Begin, Goto, Pc, AbortPc, Shared
<1>3. CASE DeployStart
  <2>1. (Inverted \/ cfg.swapped) \in BOOLEAN
    OBVIOUS
  <2>2. run' \in Run
    BY <1>3, <2>1, NoRunTypes DEF DeployStart, Run
  <2> QED
    BY <1>3, <2>2, KeptTypes DEF DeployStart, Goto, Pc, DeployPc, Shared
<1> QED
  BY <1>1, <1>2, <1>3

\* A command that dies leaves everything but itself.
LEMMA CrashTypes ==
  ASSUME Shared, Crash
  PROVE  Shared' /\ pc' \in Pc /\ run' \in Run
<1>1. used.crashes \in 0..MaxCrashes /\ MaxCrashes \in Nat
  BY LimitAssumption DEF UsedType, Shared
<1>2. used' \in UsedType
  BY <1>1 DEF Crash, UsedType, Shared
<1> QED
  BY <1>2, NoRunTypes, KeptTypes DEF Crash, Pc

\* Type correctness: every variable keeps its shape, and no bound is passed.
THEOREM ComposeTypeCorrect == Spec => []TypeOK
<1>1. Init => TypeOK
  <2> SUFFICES ASSUME Init
               PROVE  Shared /\ pc \in Pc /\ run \in Run
    BY TypeOKParts
  <2>1. PICK p \in Side, b \in Births :
          /\ node = [s \in Side |-> IF s = p THEN Deployed(p)
                                    ELSE [Deployed(p) EXCEPT !.rec = TRUE, !.role = "standby"]]
          /\ link = TRUE /\ dns = p
          /\ cfg = [primary |-> p, birth |-> IF b = "born" THEN p ELSE Other(p),
                    journal |-> None, marker |-> None, known |-> TRUE,
                    degraded |-> FALSE, swapped |-> FALSE, discard |-> None]
          /\ pc = "idle" /\ run = NoRun
          /\ used = [runs |-> 0, faults |-> 0, crashes |-> 0, lost |-> FALSE]
    BY DEF Init, InitPair
  <2>2. /\ Deployed(p) \in Node
        /\ [Deployed(p) EXCEPT !.rec = TRUE, !.role = "standby"] \in Node
    <3>1. 1 \in Timeline /\ {} \in SUBSET Write
      BY DEF Timeline
    <3>2. Deployed(p) \in Node
      BY <3>1 DEF Deployed, Node, Role
    <3> QED
      BY <3>2 DEF Node, Role
  <2>3. cfg \in Config
    BY <2>1, Servers DEF Config
  <2>4. used \in UsedType
    BY <2>1, LimitAssumption DEF UsedType
  <2> QED
    BY <2>1, <2>2, <2>3, <2>4, NoRunTypes DEF Shared, Pc
<1>2. TypeOK /\ [Next]_vars => TypeOK'
  <2> SUFFICES ASSUME TypeOK, [Next]_vars
               PROVE  Shared' /\ pc' \in Pc /\ run' \in Run
    BY TypeOKPartsNext
  <2> USE TypeOKParts
  <2>1. CASE World
    BY <2>1, WorldTypes
  <2>2. CASE Crash
    BY <2>2, CrashTypes
  <2>3. CASE Reconcile
    BY <2>3, SharedFacts, CallTypes DEF Reconcile, Shared
  <2>4. CASE FailoverStart \/ AbortStart \/ DeployStart
    BY <2>4, StartTypes
  <2>5. CASE Command
    BY <2>5, FailoverTypes, AbortTypes, DeployTypes DEF Command
  <2>6. CASE UNCHANGED vars
    BY <2>6 DEF vars, Shared
  <2> QED
    BY <2>1, <2>2, <2>3, <2>4, <2>5, <2>6 DEF Next
<1> QED
  BY <1>1, <1>2, PTL DEF Spec

-----------------------------------------------------------------------------
(* The inductive invariant.                                                *)

\* What the world and the commands keep, whatever step a command is at.
PairKept ==
  /\ ~node[Primary].rec
  /\ \A s \in Side : /\ node[s].rec => ~node[s].fence
                     /\ node[s].pending => node[s].rec
  /\ node[Standby].pending => cfg.journal # None
  /\ link => node[Standby].rec
  /\ node[Primary].fence => cfg.marker = Primary
  /\ ~cfg.swapped => ~node[Standby].fence
  /\ cfg.swapped => cfg.degraded

\* The steps of a failover up to its promote and of its undo, and those from
\* the answer of the promote to the save of the swap.
BeforeIssue ==
  {"stop", "mark", "fence", "capture", "replayed", "reseed", "reseedSwap", "reseedUp",
   "arm", "disarm", "journal", "send", "issue", "unfence", "startApp", "clear"}
AfterPromote == {"restart", "stopOld", "demote", "flip", "swap"}

\* What a failover has established by the step it is at.
FailoverKept ==
  /\ pc \in FailoverPc \ {"ready", "lift", "check", "retire"} => ~cfg.swapped
  /\ pc = "fence" => cfg.marker = Primary
  /\ pc \in {"send", "issue"} => cfg.journal # None
  /\ pc \in FailoverPc /\ run.resume => ~node[Standby].rec
  /\ pc \in {"capture", "replayed", "reseed", "reseedSwap", "reseedUp"} => ~run.resume
  /\ run.unsent => pc \in {"unfence", "startApp", "clear"}
  /\ pc = "clear" \/ run.unsent => ~run.journaled
  /\ pc \in BeforeIssue /\ ~run.journaled => node[Standby].rec /\ ~node[Standby].pending
  /\ pc \in AfterPromote => ~node[Standby].rec

\* An abort has a standby no promote can land on, and knows a lifted fence.
AbortKept ==
  /\ pc \in AbortPc \ {"lineage", "stopDb"} => ~node[Standby].pending
  /\ run.lifted => pc \in {"rearm", "writers", "record"} /\ ~node[Primary].fence

\* A deploy runs with no journal, and its verdicts are about a replica.
DeployKept ==
  /\ pc \in DeployPc => cfg.journal = None /\ (run.reconverge \/ ~cfg.swapped)
  /\ run.complete => pc \in DeployPc /\ ~node[Standby].fence
  /\ run.streams => pc \in DeployPc /\ node[Standby].rec

LocalsKept == FailoverKept /\ AbortKept /\ DeployKept
Inv == PairKept /\ HealthyHasReplica /\ LocalsKept

-----------------------------------------------------------------------------
(* Calm steps: those that leave what PairKept reads, or only lift a fence, *)
(* forget a promote or break the link.                                     *)

CalmNode(s, n) ==
  /\ n.rec = node[s].rec
  /\ n.fence => node[s].fence
  /\ n.pending => node[s].pending
CalmNodes == \A s \in Side : CalmNode(s, node'[s])
CalmConfig ==
  /\ cfg'.primary = cfg.primary /\ cfg'.journal = cfg.journal
  /\ cfg'.degraded = cfg.degraded /\ cfg'.swapped = cfg.swapped
  /\ node'[Primary].fence => cfg'.marker = cfg.marker
Calm == CalmNodes /\ CalmConfig /\ (link' => link)

\* The roles stay where the record keeps its primary.
LEMMA RolesStay ==
  ASSUME cfg'.primary = cfg.primary
  PROVE  Primary' = Primary /\ Standby' = Standby
  BY DEF Primary, Standby

\* The writes of a server that are calm.
LEMMA CalmWrites ==
  ASSUME Shared, NEW s \in Side
  PROVE  /\ CalmNode(s, node[s])
         /\ \A r : CalmNode(s, WithRole(s, r))
         /\ \A b : CalmNode(s, WithApp(s, b))
         /\ CalmNode(s, Unfenced(s)) /\ CalmNode(s, DbStopped(s))
         /\ CalmNode(s, StackUp(s)) /\ CalmNode(s, Retired(s))
         /\ \A n \in PartsRetired(s) : CalmNode(s, n)
<1>1. node[s] \in Node
  BY SharedFacts
<1>2. /\ CalmNode(s, node[s])
      /\ \A r : CalmNode(s, WithRole(s, r))
      /\ \A b : CalmNode(s, WithApp(s, b))
      /\ CalmNode(s, Unfenced(s)) /\ CalmNode(s, DbStopped(s))
      /\ CalmNode(s, StackUp(s)) /\ CalmNode(s, Retired(s))
  BY <1>1 DEF CalmNode, WithRole, WithApp, Unfenced, DbStopped, StackUp, Retired, Node
<1>3. ASSUME NEW n \in PartsRetired(s)
      PROVE  CalmNode(s, n)
  <2>1. PICK db \in {DbAnswers(s), FALSE}, app \in {Answers(s), FALSE},
             role \in {Answers(s), FALSE} :
          n = [node[s] EXCEPT !.retired = @ \/ db, !.app = @ /\ ~app,
                              !.role = IF role THEN "standby" ELSE @]
    BY DEF PartsRetired
  <2>2. n.rec = node[s].rec /\ n.fence = node[s].fence /\ n.pending = node[s].pending
    BY <1>1, <2>1 DEF Node
  <2> QED
    BY <2>2 DEF CalmNode
<1> QED
  BY <1>2, <1>3

\* A calm write of one server is a calm step, done or failed; so is retiring.
LEMMA CalmSets ==
  ASSUME Shared, NEW s \in Side
  PROVE  /\ node' = node => CalmNodes
         /\ \A n : CalmNode(s, n) /\ Set(s, n) => CalmNodes
         /\ \A r, n : CalmNode(s, n) /\ Call(r, s, n) => CalmNodes
         /\ Retire(s) => CalmNodes
<1>1. node' = node => CalmNodes
  BY CalmWrites DEF CalmNodes
<1>2. ASSUME NEW n, CalmNode(s, n), Set(s, n)
      PROVE  CalmNodes
  <2>1. \A t \in Side : node'[t] = IF t = s THEN n ELSE node[t]
    BY <1>2 DEF Set, Shared
  <2> QED
    BY <1>2, <2>1, CalmWrites DEF CalmNodes
<1>3. ASSUME NEW r, NEW n, CalmNode(s, n), Call(r, s, n)
      PROVE  CalmNodes
  BY <1>1, <1>2, <1>3 DEF Call
<1>4. Retire(s) => CalmNodes
  BY <1>1, <1>2, CalmWrites DEF Retire
<1> QED
  BY <1>1, <1>2, <1>3, <1>4

\* A save that changes nothing PairKept reads, or no save.
LEMMA CalmSaves ==
  ASSUME cfg' = cfg
  PROVE  CalmConfig
  BY DEF CalmConfig

\* What a calm step leaves of the two roles.
LEMMA CalmRoles ==
  ASSUME Shared, Calm
  PROVE  /\ Primary' = Primary /\ Standby' = Standby
         /\ CalmNode(Primary, node'[Primary]) /\ CalmNode(Standby, node'[Standby])
  BY SharedFacts, RolesStay DEF Calm, CalmNodes, CalmConfig

\* A calm step keeps what does not depend on the commands.
LEMMA CalmKept ==
  ASSUME Shared, Inv, Calm
  PROVE  PairKept' /\ HealthyHasReplica'
<1>1. /\ Primary' = Primary /\ Standby' = Standby
      /\ CalmNode(Primary, node'[Primary]) /\ CalmNode(Standby, node'[Standby])
  BY CalmRoles
<1>2. PairKept'
  BY <1>1 DEF Inv, PairKept, Calm, CalmNodes, CalmNode, CalmConfig
<1>3. HealthyHasReplica'
  BY <1>1 DEF Inv, HealthyHasReplica, Calm, CalmNode, CalmConfig
<1> QED
  BY <1>2, <1>3

\* With no command running there are no locals to speak of.
LEMMA IdleKept ==
  ASSUME pc' = "idle", run' = NoRun
  PROVE  LocalsKept'
  BY DEF LocalsKept, FailoverKept, AbortKept, DeployKept, FailoverPc, AbortPc, DeployPc,
         BeforeIssue, AfterPromote, NoRun

\* A calm step beside the command keeps its locals true.
LEMMA BesideKept ==
  ASSUME Shared, Inv, Calm, cfg' = cfg, pc' = pc, run' = run
  PROVE  Inv'
<1>1. PairKept' /\ HealthyHasReplica'
  BY CalmKept
<1>2. /\ Primary' = Primary /\ Standby' = Standby
      /\ CalmNode(Primary, node'[Primary]) /\ CalmNode(Standby, node'[Standby])
  BY CalmRoles
<1> QED
  BY <1>1, <1>2
     DEF Inv, LocalsKept, FailoverKept, AbortKept, DeployKept, CalmNode, Calm, CalmConfig

-----------------------------------------------------------------------------
(* The world, a crash, status, and the start of a command.                 *)

\* Whatever the servers do, the invariant stays: a promote that lands finds a
\* journal, and a replica only follows.
LEMMA WorldKept ==
  ASSUME Shared, Inv, World
  PROVE  Inv'
<1> USE SharedFacts
<1>1. CASE \E s \in Side, w \in Write : Commit(s, w)
  <2>1. PICK s \in Side, w \in Write : Commit(s, w)
    BY <1>1
  <2>2. CalmNode(s, [node[s] EXCEPT !.data = @ \cup {w}])
    BY DEF CalmNode, Node
  <2> QED
    BY <2>1, <2>2, CalmSets, CalmSaves, BesideKept DEF Commit, Calm
<1>2. ASSUME NEW s \in Side, Replicate(s)
      PROVE  Inv'
  <2>1. CalmNode(s, [node[s] EXCEPT !.data = node[Other(s)].data, !.tl = node[Other(s)].tl])
    BY DEF CalmNode, Node
  <2> QED
    BY <1>2, <2>1, CalmSets, CalmSaves, BesideKept DEF Replicate, Calm
<1>3. ASSUME NEW s \in Side, LinkUp(s)
      PROVE  Inv'
  <2>1. s = Standby
    BY <1>3 DEF LinkUp, Inv, PairKept
  <2>2. Primary' = Primary /\ Standby' = Standby
    BY <1>3, RolesStay DEF LinkUp
  <2> QED
    BY <1>3, <2>1, <2>2
       DEF LinkUp, Inv, PairKept, HealthyHasReplica, LocalsKept, FailoverKept, AbortKept, DeployKept
<1>4. ASSUME NEW s \in Side, PromoteLands(s)
      PROVE  Inv'
  <2>1. s = Standby /\ node[Standby].rec /\ ~node[Standby].fence /\ cfg.journal # None
    BY <1>4 DEF PromoteLands, Inv, PairKept
  <2>2. Primary' = Primary /\ Standby' = Standby
    BY <1>4, RolesStay DEF PromoteLands
  <2>3. /\ node'[Primary] = node[Primary]
        /\ ~node'[Standby].rec /\ ~node'[Standby].pending /\ ~node'[Standby].fence
    BY <1>4, <2>1 DEF PromoteLands, Set, Node, Shared
  <2>4. PairKept' /\ HealthyHasReplica'
    BY <1>4, <2>1, <2>2, <2>3 DEF PromoteLands, Inv, PairKept, HealthyHasReplica
  <2>5. LocalsKept'
    BY <1>4, <2>1, <2>2, <2>3
       DEF PromoteLands, Inv, PairKept, LocalsKept, FailoverKept, AbortKept, DeployKept
  <2> QED
    BY <2>4, <2>5 DEF Inv
<1>5. ASSUME NEW s \in Side, Die(s) \/ Cut(s)
      PROVE  Inv'
  <2>1. /\ CalmNode(s, [node[s] EXCEPT !.net = "dead"])
        /\ CalmNode(s, [node[s] EXCEPT !.net = "cut"])
    BY DEF CalmNode, Node
  <2> QED
    BY <1>5, <2>1, CalmSets, CalmSaves, BesideKept DEF Die, Cut, Calm
<1>6. ASSUME NEW s \in Side, Return(s)
      PROVE  Inv'
  <2>1. /\ CalmNode(s, [StackUp(s) EXCEPT !.net = "up", !.pending = FALSE])
        /\ CalmNode(s, [node[s] EXCEPT !.net = "up"])
    BY DEF CalmNode, StackUp, Node
  <2> QED
    BY <1>6, <2>1, CalmSets, CalmSaves, BesideKept DEF Return, Calm
<1>7. CASE LinkDown
  BY <1>7, CalmSets, CalmSaves, BesideKept DEF LinkDown, Calm
<1> QED
  BY <1>1, <1>2, <1>3, <1>4, <1>5, <1>6, <1>7 DEF World

\* A step that keeps servers, link and record is calm.
LEMMA KeptCalm ==
  ASSUME Shared, Kept
  PROVE  Calm
  BY SharedFacts, CalmSets, CalmSaves DEF Kept, Calm

\* A command that dies, a status, and a command that starts.
LEMMA AroundKept ==
  ASSUME Shared, Inv, Crash \/ Reconcile \/ FailoverStart \/ AbortStart \/ DeployStart
  PROVE  Inv'
<1>1. CASE Crash
  BY <1>1, KeptCalm, CalmKept, IdleKept DEF Crash, Inv
<1>2. CASE Reconcile
  BY <1>2, SharedFacts, CalmSets, CalmSaves, BesideKept DEF Reconcile, Calm
<1>3. CASE FailoverStart
  <2>1. PairKept' /\ HealthyHasReplica'
    BY <1>3, KeptCalm, CalmKept DEF FailoverStart
  <2>2. LocalsKept'
    BY <1>3 DEF FailoverStart, Begin, Goto, Kept, LocalsKept, FailoverKept, AbortKept, DeployKept,
       FailoverPc, AbortPc, DeployPc, BeforeIssue, AfterPromote, NoRun
  <2> QED
    BY <2>1, <2>2 DEF Inv
<1>4. CASE AbortStart
  <2>1. PairKept' /\ HealthyHasReplica'
    BY <1>4, KeptCalm, CalmKept DEF AbortStart
  <2>2. LocalsKept'
    BY <1>4 DEF AbortStart, Begin, Goto, Kept, LocalsKept, FailoverKept, AbortKept, DeployKept,
       FailoverPc, AbortPc, DeployPc, BeforeIssue, AfterPromote, NoRun
  <2> QED
    BY <2>1, <2>2 DEF Inv
<1>5. CASE DeployStart
  <2>1. PairKept' /\ HealthyHasReplica'
    BY <1>5, KeptCalm, CalmKept DEF DeployStart
  <2>2. LocalsKept'
    BY <1>5 DEF DeployStart, Goto, Kept, LocalsKept, FailoverKept, AbortKept, DeployKept,
       FailoverPc, AbortPc, DeployPc, BeforeIssue, AfterPromote, NoRun
  <2> QED
    BY <2>1, <2>2 DEF Inv
<1> QED
  BY <1>1, <1>2, <1>3, <1>4, <1>5

\* The lift of a stranded fence is calm: it takes the marker off a primary only
\* with the fence, and a marker on the other side is of no fence.
LEMMA LiftCalm ==
  ASSUME Shared, Inv, NEW from, NEW to, NEW refused, LiftStranded(from, to, refused)
  PROVE  Calm
<1> USE SharedFacts
<1>1. CalmNodes
  <2>1. ASSUME node' = [node EXCEPT ![Primary] = Unfenced(Primary)]
        PROVE  CalmNodes
    BY <2>1, CalmSets, CalmWrites DEF Set
  <2> QED
    BY <2>1, CalmSets DEF LiftStranded, Set
<1>2. CalmConfig
  <2>1. CASE UNCHANGED cfg
    BY <2>1, CalmSaves
  <2>2. CASE /\ cfg.marker = Primary => DbAnswers(Primary)
             /\ node' = IF cfg.marker = Primary
                        THEN [node EXCEPT ![Primary] = Unfenced(Primary)] ELSE node
             /\ cfg' = [cfg EXCEPT !.marker = None]
    <3>1. ~node'[Primary].fence
      BY <2>2 DEF Inv, PairKept, Unfenced, Node, Shared
    <3> QED
      BY <2>2, <3>1 DEF CalmConfig, Shared, Config
  <2> QED
    BY <2>1, <2>2 DEF LiftStranded, Saved, SaveFailed
<1> QED
  BY <1>1, <1>2 DEF LiftStranded, Calm

-----------------------------------------------------------------------------
(* The commands, step by step.                                             *)

\* What a calm step of a command has to show: its own locals.
LEMMA CommandCalm ==
  ASSUME Shared, Inv, Calm
  PROVE  /\ LocalsKept' => Inv'
         /\ pc' = "idle" /\ run' = NoRun => Inv'
         /\ Primary' = Primary /\ Standby' = Standby
         /\ CalmNode(Primary, node'[Primary]) /\ CalmNode(Standby, node'[Standby])
         /\ cfg'.journal = cfg.journal /\ cfg'.swapped = cfg.swapped
  BY CalmKept, CalmRoles, IdleKept DEF Inv, Calm, CalmConfig

\* A reseed keeps what PairKept and HealthyHasReplica say: the standby stays what it
\* is, or is a replica without a fence.
LEMMA ReseedKept ==
  ASSUME Shared, Inv, ReseedCall,
         cfg' = cfg \/ cfg' = [cfg EXCEPT !.known = TRUE]
  PROVE  /\ PairKept' /\ HealthyHasReplica'
         /\ Primary' = Primary /\ Standby' = Standby
         /\ cfg'.journal = cfg.journal /\ cfg'.swapped = cfg.swapped
         /\ node'[Primary] = node[Primary]
         /\ node[Standby].rec => node'[Standby].rec
         /\ node'[Standby].fence => node[Standby].fence
         /\ node'[Standby].pending => node[Standby].pending
<1>1. /\ cfg'.primary = cfg.primary /\ cfg'.journal = cfg.journal
      /\ cfg'.marker = cfg.marker
      /\ cfg'.degraded = cfg.degraded /\ cfg'.swapped = cfg.swapped
  BY DEF Shared, Config
<1>2. Primary' = Primary /\ Standby' = Standby
  BY <1>1, RolesStay
<1>3. /\ node'[Primary] = node[Primary]
      /\ node[Standby].rec => node'[Standby].rec
      /\ node'[Standby].rec => node[Standby].rec \/ ~node'[Standby].fence
      /\ node'[Standby].fence => node[Standby].fence
      /\ node'[Standby].pending => node[Standby].pending
      /\ link' => link \/ node[Standby].rec
  <2>1. Cycled \/ Copied
    BY ReseedFacts DEF ReseedCall
  <2> QED
    BY <2>1, ReseedFacts DEF Cycled, Copied
<1>4. PairKept' /\ HealthyHasReplica'
  BY <1>1, <1>2, <1>3, SharedFacts DEF Inv, PairKept, HealthyHasReplica
<1> QED
  BY <1>1, <1>2, <1>3, <1>4

\* The gates and the fence of a failover.
LEMMA FailoverFenceKept ==
  ASSUME Shared, Inv, run \in Run,
         \/ ProbePrimary \/ LiftAtFailover \/ Check \/ StopWriters \/ Mark \/ Fence
  PROVE  Inv'
<1> USE SharedFacts
<1> USE DEF LocalsKept, FailoverKept, AbortKept, DeployKept, FailoverPc, AbortPc, DeployPc,
            BeforeIssue, AfterPromote
<1>1. CASE ProbePrimary
  <2>1. Calm
    BY <1>1, KeptCalm DEF ProbePrimary
  <2>2. LocalsKept'
    BY <1>1, <2>1, CommandCalm DEF ProbePrimary, Goto, Kept, Inv, Run
  <2> QED
    BY <2>1, <2>2, CommandCalm
<1>2. CASE LiftAtFailover
  <2>1. Calm
    BY <1>2, LiftCalm DEF LiftAtFailover
  <2>2. pc = "lift" /\ ((pc' = "check" /\ run' = run) \/ (pc' = "idle" /\ run' = NoRun))
    <3>1. pc = "lift" /\ pc' \in {"check", "idle"}
      BY <1>2 DEF LiftAtFailover, LiftStranded, Goto
    <3>2. run' = IF pc' = "idle" THEN NoRun ELSE run
      BY <1>2 DEF LiftAtFailover, LiftStranded
    <3> QED
      BY <3>1, <3>2
  <2>3. pc' = "check" /\ run' = run => LocalsKept'
    BY <2>1, <2>2, CommandCalm DEF Inv, CalmNode
  <2> QED
    BY <2>1, <2>2, <2>3, CommandCalm
<1>3. CASE Check
  <2>1. Calm
    BY <1>3, KeptCalm DEF Check
  <2>2. CASE Exit("check")
    BY <2>1, <2>2, CommandCalm DEF Exit, Goto
  <2>3. CASE ~Exit("check")
    <3>1. PICK f \in Forced, standby \in StandbyReadings, named \in BOOLEAN :
            LET answers == run.planned /\ DbAnswers(Primary)
            IN /\ named => answers
               /\ IF ~standby.named \/ (answers /\ ~named)
                  THEN MayFault /\ Spent ELSE used' = used
               /\ IF Gate(f, standby, named)
                  THEN /\ run' = [run EXCEPT !.journaled = cfg.journal # None,
                                             !.resume = ~node[Standby].rec,
                                             !.journal.named = standby.named]
                       /\ pc' = IF run.planned THEN "stop"
                                ELSE IF run'.resume THEN "restart" ELSE "arm"
                  ELSE Exit("check")
      BY <1>3, <2>3, Zenon DEF Check
    <3>2. /\ Gate(f, standby, named)
          /\ run' = [run EXCEPT !.journaled = cfg.journal # None,
                                !.resume = ~node[Standby].rec,
                                !.journal.named = standby.named]
          /\ pc' = IF run.planned THEN "stop" ELSE IF run'.resume THEN "restart" ELSE "arm"
      BY <3>1, <2>3, Zenon
    <3>3. /\ run'.journaled = (cfg.journal # None) /\ run'.resume = ~node[Standby].rec
          /\ run'.unsent = run.unsent /\ run'.lifted = run.lifted
          /\ run'.complete = run.complete /\ run'.streams = run.streams
      BY <3>2 DEF Run
    <3>4. /\ ~cfg.swapped
          /\ cfg.journal = None => node[Standby].rec /\ ~node[Standby].pending
      BY <3>2 DEF Gate, ResumeAllowed, PromoteAllowed, Inv, PairKept
    <3>5. pc = "check" /\ node' = node /\ cfg' = cfg
      BY <1>3 DEF Check, Kept
    <3>6. LocalsKept'
      BY <2>1, <3>2, <3>3, <3>4, <3>5, CommandCalm DEF Inv
    <3> QED
      BY <2>1, <3>6, CommandCalm
  <2> QED
    BY <2>2, <2>3
<1>4. ASSUME NEW stopped \in BOOLEAN, pc \in {"stop", "mark", "fence"}, Calm, NotFenced(stopped)
      PROVE  Inv'
  <2>1. CASE pc' = "idle"
    BY <1>4, <2>1, CommandCalm DEF NotFenced
  <2>2. CASE pc' # "idle"
    <3>1. \/ pc' = "restart" /\ run.resume
          \/ pc' \in {"unfence", "startApp"} /\ ~run.resume /\ ~run.journaled
      BY <1>4, <2>2 DEF NotFenced
    <3>2. run' = [run EXCEPT !.stopped = stopped]
      BY <1>4, <2>2 DEF NotFenced
    <3>3. LocalsKept'
      BY <1>4, <3>1, <3>2, CommandCalm DEF Inv, CalmNode, Run
    <3> QED
      BY <1>4, <3>3, CommandCalm
  <2> QED
    BY <2>1, <2>2
<1>5. CASE StopWriters
  <2>1. Calm
    BY <1>5, CalmSets, CalmWrites, CalmSaves DEF StopWriters, Calm
  <2>2. CASE NotFenced(FALSE)
    BY <1>5, <1>4, <2>1, <2>2 DEF StopWriters
  <2>3. CASE pc' = "mark" /\ run' = [run EXCEPT !.stopped = node[Primary].app]
    <3>1. LocalsKept'
      BY <1>5, <2>1, <2>3, CommandCalm DEF StopWriters, Inv, CalmNode, Run
    <3> QED
      BY <2>1, <3>1, CommandCalm
  <2> QED
    BY <1>5, <2>2, <2>3 DEF StopWriters
<1>6. CASE Mark
  <2>1. CalmConfig
    BY <1>6, CalmSaves DEF Mark, Saved, SaveFailed, CalmConfig, Inv, PairKept, Shared, Config
  <2>2. Calm
    BY <1>6, <2>1, CalmSets DEF Mark, Calm
  <2>3. CASE NotFenced(run.stopped)
    BY <1>6, <1>4, <2>2, <2>3 DEF Mark, Run
  <2>4. CASE /\ cfg' = [cfg EXCEPT !.marker = Primary]
             /\ pc' = "fence" /\ run' = [run EXCEPT !.tried = TRUE]
    <3>1. cfg'.marker = Primary /\ pc = "mark"
      BY <1>6, <2>4 DEF Mark, Shared, Config
    <3>2. LocalsKept'
      BY <2>2, <2>4, <3>1, CommandCalm DEF Inv, CalmNode, Run
    <3> QED
      BY <2>2, <3>2, CommandCalm
  <2> QED
    BY <1>6, <2>3, <2>4 DEF Mark, Saved
<1>7. CASE Fence
  <2>1. /\ pc = "fence" /\ cfg' = cfg /\ link' = link /\ cfg.marker = Primary
        /\ Primary' = Primary /\ Standby' = Standby
    BY <1>7, RolesStay DEF Fence, Inv
  <2>2. CASE node' = node
    <3>1. Calm
      BY <2>1, <2>2, CalmSets, CalmSaves DEF Calm
    <3>2. CASE NotFenced(run.stopped)
      BY <1>4, <2>1, <3>1, <3>2 DEF Run
    <3>3. CASE ~NotFenced(run.stopped)
      <4>1. /\ pc' = IF run.resume THEN "restart" ELSE "capture"
            /\ run' = [run EXCEPT !.fenced = TRUE]
        BY <1>7, <3>3 DEF Fence
      <4>2. LocalsKept'
        BY <2>1, <2>2, <4>1 DEF Inv, Run
      <4> QED
        BY <3>1, <4>2, CommandCalm
    <3> QED
      BY <3>2, <3>3
  <2>3. CASE node' = [node EXCEPT ![Primary] = Fenced(Primary)]
    <3>1. /\ node'[Standby] = node[Standby]
          /\ ~node'[Primary].rec /\ node'[Primary].pending = node[Primary].pending
      BY <2>3 DEF Fenced, Node, Shared, Inv, PairKept
    <3>2. PairKept' /\ HealthyHasReplica'
      BY <2>1, <3>1 DEF Inv, PairKept, HealthyHasReplica
    <3>3. \/ pc' = "idle" /\ run' = NoRun
          \/ /\ pc' = "capture" => ~run.resume
             /\ pc' = "restart" => run.resume
             /\ pc' \in {"unfence", "startApp"} => ~run.journaled
             /\ pc' \in {"capture", "restart", "unfence", "startApp"}
             /\ \/ run' = [run EXCEPT !.fenced = TRUE]
                \/ run' = [run EXCEPT !.stopped = run.stopped]
      BY <1>7 DEF Fence, NotFenced
    <3>4. LocalsKept'
      <4>1. CASE pc' = "idle" /\ run' = NoRun
        BY <4>1, IdleKept
      <4>2. CASE ~(pc' = "idle" /\ run' = NoRun)
        <5>1. /\ run'.resume = run.resume /\ run'.journaled = run.journaled
              /\ run'.unsent = run.unsent /\ run'.lifted = run.lifted
              /\ run'.complete = run.complete /\ run'.streams = run.streams
          BY <3>3, <4>2 DEF Run
        <5> QED
          BY <2>1, <3>1, <3>3, <4>2, <5>1 DEF Inv
      <4> QED
        BY <4>1, <4>2
    <3> QED
      BY <3>2, <3>4 DEF Inv
  <2> QED
    BY <1>7, <2>2, <2>3 DEF Fence, Set
<1> QED
  BY <1>1, <1>2, <1>3, <1>5, <1>6, <1>7

\* A failover that gives up before the promote is sent: what it undoes.
LEMMA UndoKept ==
  ASSUME Shared, Inv, run \in Run, Calm,
         NEW from \in {"capture", "replayed", "disarm", "arm", "journal"},
         Undo(from)
  PROVE  Inv'
<1> USE DEF LocalsKept, FailoverKept, AbortKept, DeployKept, FailoverPc, AbortPc, DeployPc,
            BeforeIssue, AfterPromote
<1>1. ~run.unsent /\ pc = from
  BY DEF Inv, Undo, Goto
<1>2. \/ pc' = "idle" /\ run' = NoRun
      \/ pc' \in {"unfence", "startApp"} /\ run' = run /\ ~run.journaled
  BY <1>1 DEF Undo, UndoTo, Goto
<1>3. CASE pc' = "idle" /\ run' = NoRun
  BY <1>3, CommandCalm
<1>4. CASE pc' \in {"unfence", "startApp"} /\ run' = run /\ ~run.journaled
  <2>1. LocalsKept'
    BY <1>1, <1>4, CommandCalm DEF Inv, CalmNode
  <2> QED
    BY <2>1, CommandCalm
<1> QED
  BY <1>2, <1>3, <1>4

\* The proof of the standby's data, the arm and its undo.
LEMMA FailoverProveKept ==
  ASSUME Shared, Inv, run \in Run,
         \/ Capture \/ Replayed \/ Reseed \/ SwapReseed \/ ProveReseed \/ Arm \/ Disarm
  PROVE  Inv'
<1> USE SharedFacts
<1> USE DEF LocalsKept, FailoverKept, AbortKept, DeployKept, FailoverPc, AbortPc, DeployPc,
            BeforeIssue, AfterPromote
<1>1. CASE Capture
  <2>1. Calm
    BY <1>1, KeptCalm DEF Capture
  <2>2. CASE Undo("capture")
    BY <2>1, <2>2, UndoKept
  <2>3. CASE ~Undo("capture")
    <3>1. pc = "capture" /\ pc' \in {"replayed", "reseed"} /\ run' = [run EXCEPT !.journal.lsn = TRUE]
      BY <1>1, <2>3 DEF Capture
    <3>2. LocalsKept'
      BY <2>1, <3>1, CommandCalm DEF Inv, CalmNode, Run
    <3> QED
      BY <2>1, <3>2, CommandCalm
  <2> QED
    BY <2>2, <2>3
<1>2. CASE Replayed
  <2>1. Calm
    BY <1>2, KeptCalm DEF Replayed
  <2>2. CASE Undo("replayed")
    BY <2>1, <2>2, UndoKept
  <2>3. CASE ~Undo("replayed")
    <3>1. pc = "replayed" /\ pc' = "arm" /\ run' = [run EXCEPT !.journal.proof = "caughtUp"]
      BY <1>2, <2>3 DEF Replayed
    <3>2. LocalsKept'
      BY <2>1, <3>1, CommandCalm DEF Inv, CalmNode, Run
    <3> QED
      BY <2>1, <3>2, CommandCalm
  <2> QED
    BY <2>2, <2>3
<1>3. CASE Reseed \/ SwapReseed \/ ProveReseed
  <2>1. ReseedCall /\ (cfg' = cfg \/ cfg' = [cfg EXCEPT !.known = TRUE])
    BY <1>3 DEF Reseed, SwapReseed, ProveReseed, ReseedCall
  <2>2. pc \in {"reseed", "reseedSwap", "reseedUp"}
    BY <1>3 DEF Reseed, SwapReseed, ProveReseed, Step, Undo, Goto
  <2>3. ~run.unsent /\ ~run.resume /\ ~run.lifted /\ ~run.complete /\ ~run.streams
    BY <2>2 DEF Inv
  <2>4. \/ pc' = "idle" /\ run' = NoRun
        \/ pc' \in {"unfence", "startApp"} /\ run' = run /\ ~run.journaled
        \/ pc' \in {"reseedSwap", "reseedUp"} /\ run' = run
        \/ /\ pc' = "arm"
           /\ run' = [run EXCEPT !.journal.named = TRUE, !.journal.proof = "reseeded"]
    BY <1>3, <2>3 DEF Reseed, SwapReseed, ProveReseed, Step, Undo, UndoTo, Goto
  <2>5. /\ PairKept' /\ HealthyHasReplica'
        /\ Primary' = Primary /\ Standby' = Standby
        /\ cfg'.journal = cfg.journal /\ cfg'.swapped = cfg.swapped
        /\ node[Standby].rec => node'[Standby].rec
        /\ node'[Standby].pending => node[Standby].pending
    BY <2>1, ReseedKept
  <2>6. CASE pc' = "idle" /\ run' = NoRun
    BY <2>5, <2>6, IdleKept DEF Inv
  <2>7. CASE ~(pc' = "idle" /\ run' = NoRun)
    <3>1. /\ run'.resume = run.resume /\ run'.journaled = run.journaled
          /\ run'.unsent = run.unsent /\ run'.lifted = run.lifted
          /\ run'.complete = run.complete /\ run'.streams = run.streams
      BY <2>4, <2>7 DEF Run
    <3>2. pc' \in {"reseedSwap", "reseedUp", "arm", "unfence", "startApp"}
      BY <2>4, <2>7
    <3>3. LocalsKept'
      BY <2>2, <2>3, <2>5, <3>1, <3>2 DEF Inv
    <3> QED
      BY <2>5, <3>3 DEF Inv
  <2> QED
    BY <2>6, <2>7
<1>4. CASE Arm
  <2>1. Calm
    BY <1>4, CalmSets, CalmWrites, CalmSaves DEF Arm, Calm
  <2>2. CASE Undo("arm")
    BY <2>1, <2>2, UndoKept
  <2>3. CASE pc = "arm" /\ pc' \in {"journal", "disarm"} /\ run' = run
    <3>1. LocalsKept'
      BY <2>1, <2>3, CommandCalm DEF Inv, CalmNode
    <3> QED
      BY <2>1, <3>1, CommandCalm
  <2> QED
    BY <1>4, <2>2, <2>3 DEF Arm, NotArmed, Step, Goto
<1>5. CASE Disarm
  <2>1. Calm
    BY <1>5, CalmSets, CalmWrites, CalmSaves DEF Disarm, Calm
  <2> QED
    BY <1>5, <2>1, UndoKept DEF Disarm
<1> QED
  BY <1>1, <1>2, <1>3, <1>4, <1>5

\* The journal, the promote and what a promote that was not sent undoes.
LEMMA FailoverPromoteKept ==
  ASSUME Shared, Inv, run \in Run,
         \/ WriteJournal \/ ReadBeforePromote \/ IssuePromote \/ Poll \/ HoldOld
         \/ Unfence \/ StartApp \/ ClearJournal
  PROVE  Inv'
<1> USE SharedFacts
<1> USE DEF LocalsKept, FailoverKept, AbortKept, DeployKept, FailoverPc, AbortPc, DeployPc,
            BeforeIssue, AfterPromote
<1>1. CASE WriteJournal
  <2>1. CASE cfg' = [cfg EXCEPT !.journal = run.journal] /\ Step("journal", "send")
    <3>1. run.journal # None
      BY NoneAssumption DEF Run
    <3>2. /\ cfg'.primary = cfg.primary /\ cfg'.journal # None /\ cfg'.marker = cfg.marker
          /\ cfg'.degraded = cfg.degraded /\ cfg'.swapped = cfg.swapped
      BY <2>1, <3>1 DEF Shared, Config
    <3>3. Primary' = Primary /\ Standby' = Standby
      BY <3>2, RolesStay
    <3>4. node' = node /\ link' = link
      BY <1>1 DEF WriteJournal
    <3>5. PairKept' /\ HealthyHasReplica'
      BY <3>2, <3>3, <3>4 DEF Inv, PairKept, HealthyHasReplica
    <3>6. LocalsKept'
      BY <2>1, <3>2, <3>3, <3>4 DEF Step, Goto, Inv
    <3> QED
      BY <3>5, <3>6 DEF Inv
  <2>2. CASE cfg' = cfg /\ NotArmed("journal")
    <3>1. Calm
      BY <1>1, <2>2, CalmSets, CalmSaves DEF WriteJournal, Calm
    <3>2. CASE Undo("journal")
      BY <3>1, <3>2, UndoKept
    <3>3. CASE Step("journal", "disarm")
      <4>1. LocalsKept'
        BY <3>1, <3>3, CommandCalm DEF Step, Goto, Inv, CalmNode
      <4> QED
        BY <3>1, <4>1, CommandCalm
    <3> QED
      BY <2>2, <3>2, <3>3 DEF NotArmed
  <2> QED
    BY <1>1, <2>1, <2>2 DEF WriteJournal, Saved, SaveFailed
<1>2. CASE ReadBeforePromote
  <2>1. Calm /\ node' = node /\ cfg' = cfg
    BY <1>2, KeptCalm DEF ReadBeforePromote, Kept
  <2>2. pc = "send" /\ ~run.unsent /\ ~run.lifted /\ ~run.complete /\ ~run.streams
    BY <1>2 DEF ReadBeforePromote, Inv
  <2>3. CASE pc' = "issue" /\ run' = run
    <3>1. LocalsKept'
      BY <2>1, <2>2, <2>3, CommandCalm DEF Inv
    <3> QED
      BY <2>1, <3>1, CommandCalm
  <2>4. CASE ~run.journaled /\ run' = [run EXCEPT !.unsent = TRUE] /\ pc' \in {"unfence", "clear"}
    <3>1. /\ run'.resume = run.resume /\ run'.journaled = run.journaled
          /\ run'.lifted = run.lifted
          /\ run'.complete = run.complete /\ run'.streams = run.streams
      BY <2>4 DEF Run
    <3>2. LocalsKept'
      BY <2>1, <2>2, <2>4, <3>1, CommandCalm DEF Inv
    <3> QED
      BY <2>1, <3>2, CommandCalm
  <2>5. CASE Exit("send")
    BY <2>1, <2>5, CommandCalm DEF Exit, Goto
  <2>6. CASE Step("send", "holdOld")
    <3>1. LocalsKept'
      BY <2>1, <2>2, <2>6, CommandCalm DEF Step, Goto, Inv
    <3> QED
      BY <2>1, <3>1, CommandCalm
  <2> QED
    BY <1>2, <2>3, <2>4, <2>5, <2>6 DEF ReadBeforePromote
<1>3. CASE IssuePromote
  <2>1. /\ pc = "issue" /\ pc' = "poll" /\ run' = run /\ cfg' = cfg /\ link' = link
        /\ cfg.journal # None
    BY <1>3 DEF IssuePromote, Step, Goto, Inv
  <2>2. Primary' = Primary /\ Standby' = Standby
    BY <2>1, RolesStay
  <2>3. node' = node \/ Set(Standby, Promoting(Standby))
    BY <1>3 DEF IssuePromote, Call
  <2>4. /\ node'[Primary] = node[Primary]
        /\ node'[Standby].rec = node[Standby].rec /\ node'[Standby].fence = node[Standby].fence
        /\ node'[Standby].pending => node[Standby].rec
    BY <2>3 DEF Set, Promoting, Shared, Node, Inv, PairKept
  <2>5. PairKept' /\ HealthyHasReplica'
    BY <2>1, <2>2, <2>4 DEF Inv, PairKept, HealthyHasReplica
  <2>6. LocalsKept'
    BY <2>1, <2>2, <2>4 DEF Inv
  <2> QED
    BY <2>5, <2>6 DEF Inv
<1>4. CASE Poll
  <2>1. Calm
    BY <1>4, KeptCalm DEF Poll
  <2>2. CASE Exit("poll")
    BY <2>1, <2>2, CommandCalm DEF Exit, Goto
  <2>3. CASE ~Exit("poll")
    <3>1. /\ pc = "poll" /\ run' = run /\ node' = node /\ cfg' = cfg
          /\ pc' \in {"restart", "holdOld"} /\ (pc' = "restart" => ~node[Standby].rec)
      BY <1>4, <2>3 DEF Poll, Step, Goto, Kept
    <3>2. LocalsKept'
      BY <2>1, <3>1, CommandCalm DEF Inv
    <3> QED
      BY <2>1, <3>2, CommandCalm
  <2> QED
    BY <2>2, <2>3
<1>5. CASE HoldOld
  <2>1. Calm
    BY <1>5, CalmSets, CalmWrites, CalmSaves DEF HoldOld, Calm
  <2> QED
    BY <1>5, <2>1, CommandCalm DEF HoldOld, Exit, Goto
<1>6. CASE Unfence
  <2>1. node' = node \/ Set(Primary, Unfenced(Primary))
    BY <1>6 DEF Unfence
  <2>2. CalmNodes
    BY <2>1, CalmSets, CalmWrites
  <2>3. CalmConfig
    <3>1. CASE cfg' = cfg
      BY <3>1, CalmSaves
    <3>2. CASE Set(Primary, Unfenced(Primary)) /\ cfg' = [cfg EXCEPT !.marker = None]
      <4>1. ~node'[Primary].fence
        BY <3>2 DEF Set, Unfenced, Node, Shared
      <4> QED
        BY <3>2, <4>1 DEF CalmConfig, Shared, Config
    <3> QED
      BY <1>6, <3>1, <3>2 DEF Unfence, Saved, SaveFailed
  <2>4. Calm
    BY <1>6, <2>2, <2>3 DEF Unfence, Calm
  <2>5. /\ pc = "unfence"
        /\ \/ pc' = "idle" /\ run' = NoRun
           \/ pc' = "startApp" /\ run' = run
           \/ pc' = "clear" /\ run' = run /\ run.unsent
    BY <1>6 DEF Unfence, AfterUndo, Step, Goto
  <2>6. LocalsKept'
    BY <2>4, <2>5, CommandCalm, IdleKept DEF Inv, CalmNode
  <2> QED
    BY <2>4, <2>6, CommandCalm
<1>7. CASE StartApp
  <2>1. Calm
    BY <1>7, CalmSets, CalmWrites, CalmSaves DEF StartApp, Calm
  <2>2. /\ pc = "startApp"
        /\ \/ pc' = "idle" /\ run' = NoRun
           \/ pc' = "clear" /\ run' = run /\ run.unsent
    BY <1>7 DEF StartApp, AfterUndo, Goto
  <2>3. LocalsKept'
    BY <2>1, <2>2, CommandCalm, IdleKept DEF Inv, CalmNode
  <2> QED
    BY <2>1, <2>3, CommandCalm
<1>8. CASE ClearJournal
  <2>1. pc = "clear" /\ pc' = "idle" /\ run' = NoRun /\ node' = node /\ link' = link
    BY <1>8 DEF ClearJournal, Exit, Goto
  <2>2. node[Standby].rec /\ ~node[Standby].pending /\ ~node[Standby].fence
    BY <2>1 DEF Inv, PairKept
  <2>3. /\ cfg'.primary = cfg.primary /\ cfg'.marker = cfg.marker
        /\ cfg'.degraded = cfg.degraded /\ cfg'.swapped = cfg.swapped
    BY <1>8 DEF ClearJournal, Save, Saved, SaveFailed, Shared, Config
  <2>4. PairKept' /\ HealthyHasReplica'
    BY <2>1, <2>2, <2>3, RolesStay DEF Inv, PairKept, HealthyHasReplica
  <2> QED
    BY <2>1, <2>4, IdleKept DEF Inv
<1> QED
  BY <1>1, <1>2, <1>3, <1>4, <1>5, <1>6, <1>7, <1>8

\* The swap and the best effort around it.
LEMMA FailoverSwapKept ==
  ASSUME Shared, Inv, run \in Run,
         RestartApp \/ StopOld \/ Demote \/ FlipDns \/ SwapRoles \/ RetireOld
  PROVE  Inv'
<1> USE SharedFacts
<1> USE DEF LocalsKept, FailoverKept, AbortKept, DeployKept, FailoverPc, AbortPc, DeployPc,
            BeforeIssue, AfterPromote
<1>1. CASE RestartApp \/ StopOld \/ Demote \/ FlipDns
  <2>1. Calm
    <3>1. CASE RestartApp
      BY <3>1, CalmSets, CalmWrites, CalmSaves DEF RestartApp, Calm
    <3>2. CASE StopOld
      BY <3>2, CalmSets, CalmWrites, CalmSaves DEF StopOld, Calm
    <3>3. CASE Demote
      BY <3>3, CalmSets, CalmWrites, CalmSaves DEF Demote, Calm
    <3>4. CASE FlipDns
      BY <3>4, CalmSets, CalmSaves DEF FlipDns, Calm
    <3> QED
      BY <1>1, <3>1, <3>2, <3>3, <3>4
  <2>2. /\ pc \in {"restart", "stopOld", "demote", "flip"} /\ run' = run
        /\ pc' \in {"stopOld", "demote", "flip", "swap"}
    BY <1>1 DEF RestartApp, StopOld, Demote, FlipDns, Step, Goto
  <2>3. LocalsKept'
    BY <2>1, <2>2, CommandCalm DEF Inv, CalmNode
  <2> QED
    BY <2>1, <2>3, CommandCalm
<1>2. CASE SwapRoles
  <2>1. pc = "swap" /\ node' = node /\ link' = link
    BY <1>2 DEF SwapRoles
  <2>2. CASE cfg' = cfg /\ Exit("swap")
    <3>1. Calm
      BY <2>1, <2>2, CalmSets, CalmSaves DEF Calm
    <3> QED
      BY <2>2, <3>1, CommandCalm DEF Exit, Goto
  <2>3. CASE /\ cfg' = [cfg EXCEPT !.primary = Standby, !.degraded = TRUE, !.swapped = TRUE,
                                   !.journal = None, !.marker = None, !.discard = None]
             /\ pc' = "retire" /\ run' = run
    <3>1. cfg'.primary = Standby /\ cfg'.degraded /\ cfg'.swapped
      BY <2>3 DEF Shared, Config
    <3>2. Primary' = Standby /\ Standby' = Primary
      BY <3>1, Servers DEF Primary, Standby, Shared, Config
    <3>3. ~node[Standby].rec /\ ~node[Standby].fence /\ ~node[Primary].rec
      BY <2>1 DEF Inv, PairKept
    <3>4. PairKept' /\ HealthyHasReplica'
      BY <2>1, <3>1, <3>2, <3>3 DEF Inv, PairKept, HealthyHasReplica
    <3>5. LocalsKept'
      BY <2>1, <2>3, <3>1, <3>2, <3>3 DEF Inv
    <3> QED
      BY <3>4, <3>5 DEF Inv
  <2> QED
    BY <1>2, <2>2, <2>3 DEF SwapRoles, Saved, SaveFailed
<1>3. CASE RetireOld
  <2>1. Calm
    BY <1>3, CalmSets, CalmSaves DEF RetireOld, Calm
  <2> QED
    BY <1>3, <2>1, CommandCalm DEF RetireOld, Exit, Goto
<1> QED
  BY <1>1, <1>2, <1>3

\* An abort: the standby's database is down before anything else.
LEMMA AbortStepKept ==
  ASSUME Shared, Inv, run \in Run, AbortStep
  PROVE  Inv'
<1> USE SharedFacts
<1> USE DEF LocalsKept, FailoverKept, AbortKept, DeployKept, FailoverPc, AbortPc, DeployPc,
            BeforeIssue, AfterPromote
<1>1. CASE ReadLineage
  <2>1. Calm
    BY <1>1, KeptCalm DEF ReadLineage
  <2>2. pc = "lineage" /\ pc' = "stopDb"
    BY <1>1 DEF ReadLineage, Goto
  <2>3. /\ run'.unsent = run.unsent /\ run'.lifted = run.lifted
        /\ run'.complete = run.complete /\ run'.streams = run.streams
    BY <1>1 DEF ReadLineage, Run
  <2>4. LocalsKept'
    BY <2>1, <2>2, <2>3, CommandCalm DEF Inv, CalmNode
  <2> QED
    BY <2>1, <2>4, CommandCalm
<1>2. CASE StopStandbyDb
  <2>1. node' = node \/ Set(Standby, DbStopped(Standby))
    BY <1>2 DEF StopStandbyDb
  <2>2. Calm
    <3>1. CalmNodes
      BY <2>1, CalmSets, CalmWrites
    <3>2. cfg' = cfg /\ (link' => link)
      BY <1>2 DEF StopStandbyDb
    <3> QED
      BY <3>1, <3>2, CalmSaves DEF Calm
  <2>3. CASE Exit("stopDb")
    BY <2>2, <2>3, CommandCalm DEF Exit, Goto
  <2>4. CASE ~Exit("stopDb")
    <3>1. /\ pc = "stopDb" /\ pc' = "calledOff" /\ run' = run
          /\ Set(Standby, DbStopped(Standby))
      BY <1>2, <2>4 DEF StopStandbyDb
    <3>2. ~node'[Standby].pending
      BY <3>1 DEF Set, DbStopped, Shared, Node
    <3>3. LocalsKept'
      BY <2>2, <3>1, <3>2, CommandCalm DEF Inv, CalmNode
    <3> QED
      BY <2>2, <3>3, CommandCalm
  <2> QED
    BY <2>3, <2>4
<1>3. CASE DisarmStandby
  <2>1. CalmNode(Standby, [WithRole(Standby, "standby") EXCEPT !.app = FALSE])
    BY DEF CalmNode, WithRole, Node
  <2>2. Calm
    BY <1>3, <2>1, CalmSets, CalmWrites, CalmSaves DEF DisarmStandby, Calm
  <2>3. pc = "calledOff" /\ pc' = "repoint" /\ run' = run
    BY <1>3 DEF DisarmStandby, Step, Goto
  <2>4. LocalsKept'
    BY <2>2, <2>3, CommandCalm DEF Inv, CalmNode
  <2> QED
    BY <2>2, <2>4, CommandCalm
<1>4. CASE RepointDns
  <2>1. Calm
    BY <1>4, CalmSets, CalmSaves DEF RepointDns, Calm
  <2>2. pc = "repoint" /\ pc' = "reach" /\ run' = run
    BY <1>4 DEF RepointDns, Step, Goto
  <2>3. LocalsKept'
    BY <2>1, <2>2, CommandCalm DEF Inv, CalmNode
  <2> QED
    BY <2>1, <2>3, CommandCalm
<1>5. CASE UnfencePrimary
  <2>1. Calm
    BY <1>5, CalmSets, CalmWrites, CalmSaves DEF UnfencePrimary, Calm
  <2>2. pc = "reach" /\ ~run.unsent /\ ~run.complete /\ ~run.streams
    BY <1>5 DEF UnfencePrimary, Inv
  <2>3. CASE Set(Primary, Unfenced(Primary)) /\ pc' = "rearm" /\ run' = [run EXCEPT !.lifted = TRUE]
    <3>1. ~node'[Primary].fence
      BY <2>3 DEF Set, Unfenced, Shared, Node
    <3>2. /\ run'.unsent = run.unsent
          /\ run'.complete = run.complete /\ run'.streams = run.streams
      BY <2>3 DEF Run
    <3>3. LocalsKept'
      BY <2>1, <2>2, <2>3, <3>1, <3>2, CommandCalm DEF Inv, CalmNode
    <3> QED
      BY <2>1, <3>3, CommandCalm
  <2>4. CASE pc' \in {"rearm", "record"} /\ run' = run
    <3>1. LocalsKept'
      BY <2>1, <2>2, <2>4, CommandCalm DEF Inv, CalmNode
    <3> QED
      BY <2>1, <3>1, CommandCalm
  <2> QED
    BY <1>5, <2>3, <2>4 DEF UnfencePrimary, Step, Goto
<1>6. CASE ArmPrimary
  <2>1. Calm
    BY <1>6, CalmSets, CalmWrites, CalmSaves DEF ArmPrimary, Calm
  <2>2. pc = "rearm" /\ pc' = "writers" /\ run' = run
    BY <1>6 DEF ArmPrimary, Step, Goto
  <2>3. LocalsKept'
    BY <2>1, <2>2, CommandCalm DEF Inv, CalmNode
  <2> QED
    BY <2>1, <2>3, CommandCalm
<1>7. CASE StartPrimaryWriters
  <2>1. Calm
    BY <1>7, CalmSets, CalmWrites, CalmSaves DEF StartPrimaryWriters, Calm
  <2>2. pc = "writers" /\ pc' = "record" /\ run' = run
    BY <1>7 DEF StartPrimaryWriters, Step, Goto
  <2>3. LocalsKept'
    BY <2>1, <2>2, CommandCalm DEF Inv, CalmNode
  <2> QED
    BY <2>1, <2>3, CommandCalm
<1>8. CASE RecordAbort
  <2>1. pc = "record" /\ pc' = "idle" /\ run' = NoRun /\ node' = node /\ link' = link
    BY <1>8 DEF RecordAbort, Exit, Goto
  <2>2. CASE cfg' = cfg
    <3>1. Calm
      BY <2>1, <2>2, CalmSets, CalmSaves DEF Calm
    <3> QED
      BY <2>1, <3>1, CommandCalm
  <2>3. CASE cfg' = [cfg EXCEPT !.journal = None, !.known = FALSE, !.degraded = TRUE,
                                !.marker = KeptMarker, !.discard = run.reading]
    <3>1. /\ cfg'.primary = cfg.primary /\ cfg'.degraded /\ cfg'.swapped = cfg.swapped
          /\ cfg'.marker = KeptMarker
      BY <2>3 DEF Shared, Config
    <3>2. Primary' = Primary /\ Standby' = Standby
      BY <3>1, RolesStay
    <3>3. ~node[Standby].pending
      BY <2>1 DEF Inv
    <3>4. node[Primary].fence => cfg'.marker = Primary
      BY <3>1 DEF KeptMarker, Inv, PairKept
    <3>5. PairKept' /\ HealthyHasReplica'
      BY <2>1, <3>1, <3>2, <3>3, <3>4 DEF Inv, PairKept, HealthyHasReplica
    <3> QED
      BY <2>1, <3>5, IdleKept DEF Inv
  <2> QED
    BY <1>8, <2>2, <2>3 DEF RecordAbort, Save, Saved, SaveFailed
<1> QED
  BY <1>1, <1>2, <1>3, <1>4, <1>5, <1>6, <1>7, <1>8 DEF AbortStep

\* A calm step from one step of a deploy to another.
LEMMA DeployCalm ==
  ASSUME Shared, Inv, Calm, pc \in DeployPc, pc' \in DeployPc, run' = run
  PROVE  Inv'
<1>1. LocalsKept'
  BY CommandCalm
     DEF Inv, CalmNode, LocalsKept, FailoverKept, AbortKept, DeployKept, FailoverPc, AbortPc,
         DeployPc, BeforeIssue, AfterPromote
<1> QED
  BY <1>1, CommandCalm

\* A deploy up to its stacks.
LEMMA DeployStacksKept ==
  ASSUME Shared, Inv, run \in Run,
         LiftAtDeploy \/ Refence \/ AssertReady \/ WriteRoles \/ StartStacks \/ ReconvergeStacks
  PROVE  Inv'
<1> USE SharedFacts
<1> USE DEF LocalsKept, FailoverKept, AbortKept, DeployKept, FailoverPc, AbortPc, DeployPc,
            BeforeIssue, AfterPromote
<1>1. Calm /\ pc \in DeployPc /\ pc' \in DeployPc /\ run' = run => Inv'
  BY DeployCalm
<1>2. CASE LiftAtDeploy
  <2>1. Calm
    BY <1>2, LiftCalm DEF LiftAtDeploy
  <2>2. AfterLift \in DeployPc /\ AfterLift # "idle"
    BY DEF AfterLift
  <2>3. pc = "entry" /\ pc' = AfterLift
    BY <1>2 DEF LiftAtDeploy, LiftStranded, Goto
  <2>4. run' = IF pc' = "idle" THEN NoRun ELSE run
    BY <1>2 DEF LiftAtDeploy, LiftStranded
  <2> QED
    BY <1>1, <2>1, <2>2, <2>3, <2>4
<1>3. CASE Refence
  <2>1. Calm
    BY <1>3, CalmSets, CalmSaves DEF Refence, Calm
  <2> QED
    BY <1>1, <1>3, <2>1 DEF Refence, Step, Goto
<1>4. CASE AssertReady
  <2>1. Calm
    BY <1>4, CalmSets, CalmSaves DEF AssertReady, Calm
  <2>2. CASE Exit("promoted")
    BY <2>1, <2>2, CommandCalm DEF Exit, Goto
  <2>3. CASE Step("promoted", "roles")
    BY <1>1, <2>1, <2>3 DEF Step, Goto
  <2> QED
    BY <1>4, <2>2, <2>3 DEF AssertReady
<1>5. CASE WriteRoles
  <2>1. Calm
    <3>1. \A s \in Side : CalmNode(s, Roled(s)) /\ CalmNode(s, node[s])
      BY CalmWrites DEF Roled
    <3>2. \A s \in Side : node'[s] = Roled(s) \/ node'[s] = node[s]
      BY <1>5 DEF WriteRoles
    <3>3. CalmNodes
      BY <3>1, <3>2 DEF CalmNodes
    <3> QED
      BY <1>5, <3>3, CalmSaves DEF WriteRoles, Calm
  <2>2. CASE Exit("roles")
    BY <2>1, <2>2, CommandCalm DEF Exit, Goto
  <2>3. CASE Step("roles", "stacks")
    BY <1>1, <2>1, <2>3 DEF Step, Goto
  <2> QED
    BY <1>5, <2>2, <2>3 DEF WriteRoles
<1>6. CASE StartStacks
  <2>1. Calm
    <3>1. \A s \in Side : CalmNode(s, StackUp(s)) /\ CalmNode(s, node[s])
      BY CalmWrites
    <3>2. \A s \in Side : node'[s] = StackUp(s) \/ node'[s] = node[s]
      BY <1>6 DEF StartStacks
    <3>3. CalmNodes
      BY <3>1, <3>2 DEF CalmNodes
    <3> QED
      BY <1>6, <3>3, CalmSaves DEF StartStacks, Calm
  <2>2. CASE Exit("stacks")
    BY <2>1, <2>2, CommandCalm DEF Exit, Goto
  <2>3. CASE Step("stacks", "probe")
    BY <1>1, <2>1, <2>3 DEF Step, Goto
  <2> QED
    BY <1>6, <2>2, <2>3 DEF StartStacks
<1>7. CASE ReconvergeStacks
  <2>1. ASSUME NEW n, CalmNode(Standby, n),
               \/ node' = [s \in Side |-> IF s = Primary THEN StackUp(s) ELSE n]
               \/ Set(Standby, n)
        PROVE  CalmNodes
    <3>1. CASE node' = [s \in Side |-> IF s = Primary THEN StackUp(s) ELSE n]
      <4>1. \A s \in Side : CalmNode(s, node'[s])
        BY <2>1, <3>1, CalmWrites
      <4> QED
        BY <4>1 DEF CalmNodes
    <3>2. CASE Set(Standby, n)
      BY <2>1, <3>2, CalmSets
    <3> QED
      BY <2>1, <3>1, <3>2
  <2>2. /\ CalmNode(Standby, StackUp(Standby)) /\ CalmNode(Standby, Retired(Standby))
        /\ CalmNode(Standby, node[Standby])
        /\ \A n \in PartsRetired(Standby) : CalmNode(Standby, n)
    BY CalmWrites
  <2>3. \E n \in {node[Standby], StackUp(Standby), Retired(Standby)} \cup PartsRetired(Standby) :
          \/ node' = [s \in Side |-> IF s = Primary THEN StackUp(s) ELSE n]
          \/ Set(Standby, n)
    BY <1>7 DEF ReconvergeStacks
  <2>4. CalmNodes
    BY <2>1, <2>2, <2>3
  <2>5. Calm
    BY <1>7, <2>4, CalmSaves DEF ReconvergeStacks, Calm
  <2>6. CASE Exit("stacks")
    BY <2>5, <2>6, CommandCalm DEF Exit, Goto
  <2>7. CASE Step("stacks", "rebuild")
    BY <1>1, <2>5, <2>7 DEF Step, Goto
  <2>8. CASE Goto("stacks", "rebuild") /\ run' = [run EXCEPT !.stackUp = node[Standby].rec]
    <3>1. pc = "stacks" /\ pc' = "rebuild"
      BY <2>8 DEF Goto
    <3>2. /\ run'.unsent = run.unsent /\ run'.lifted = run.lifted
          /\ run'.reconverge = run.reconverge
          /\ run'.complete = run.complete /\ run'.streams = run.streams
      BY <2>8 DEF Run
    <3>3. LocalsKept'
      BY <2>5, <3>1, <3>2, CommandCalm DEF Inv, CalmNode
    <3> QED
      BY <2>5, <3>3, CommandCalm
  <2> QED
    BY <1>7, <2>6, <2>7, <2>8 DEF ReconvergeStacks
<1> QED
  BY <1>2, <1>3, <1>4, <1>5, <1>6, <1>7

\* A deploy's reseed of the standby.
DeployReseed ==
  \/ SeedStandby \/ SwapSeed \/ StartSeeded
  \/ ReseedRetired \/ SwapRetired \/ StartReplaced

LEMMA DeployReseedKept ==
  ASSUME Shared, Inv, run \in Run, DeployReseed
  PROVE  Inv'
<1>1. ReseedCall /\ cfg' = cfg
  BY DEF DeployReseed, SeedStandby, SwapSeed, StartSeeded, ReseedRetired, SwapRetired,
         StartReplaced, ReseedCall
<1>2. pc \in DeployPc /\ pc' \in DeployPc /\ run' = run
  BY DEF DeployReseed, SeedStandby, SwapSeed, StartSeeded, ReseedRetired, SwapRetired,
         StartReplaced, Step, Goto, DeployPc
<1>3. /\ PairKept' /\ HealthyHasReplica'
      /\ Primary' = Primary /\ Standby' = Standby
      /\ cfg'.journal = cfg.journal /\ cfg'.swapped = cfg.swapped
      /\ node'[Primary] = node[Primary]
      /\ node[Standby].rec => node'[Standby].rec
      /\ node'[Standby].fence => node[Standby].fence
      /\ node'[Standby].pending => node[Standby].pending
  BY <1>1, ReseedKept
<1>4. LocalsKept'
  BY <1>2, <1>3
     DEF Inv, LocalsKept, FailoverKept, AbortKept, DeployKept, FailoverPc, AbortPc, DeployPc,
         BeforeIssue, AfterPromote
<1> QED
  BY <1>3, <1>4 DEF Inv

\* A deploy's replication, on either kind of pair.
LEMMA DeployReplicationKept ==
  ASSUME Shared, Inv, run \in Run,
         \/ ProbeStreaming \/ ForgetDiscarded("forget") \/ GuardReseed
         \/ DeployReseed \/ ForgetDiscarded("forgetSeed")
         \/ PlanRebuild \/ StartRebuilt
  PROVE  Inv'
<1> USE SharedFacts
<1> USE DEF DeployPc
<1>1. CASE ProbeStreaming \/ GuardReseed \/ PlanRebuild
  <2>1. Calm
    BY <1>1, KeptCalm DEF ProbeStreaming, GuardReseed, PlanRebuild
  <2>2. CASE pc' = "idle" /\ run' = NoRun
    BY <2>1, <2>2, CommandCalm
  <2>3. CASE pc \in DeployPc /\ pc' \in DeployPc /\ run' = run
    BY <2>1, <2>3, DeployCalm
  <2> QED
    BY <1>1, <2>2, <2>3 DEF ProbeStreaming, GuardReseed, PlanRebuild, Exit, Step, Goto
<1>2. CASE ForgetDiscarded("forget") \/ ForgetDiscarded("forgetSeed")
  <2>1. node' = node /\ link' = link /\ (cfg' = cfg \/ cfg' = [cfg EXCEPT !.discard = None])
    BY <1>2 DEF ForgetDiscarded, Saved, SaveFailed
  <2>2. CalmConfig
    BY <2>1 DEF CalmConfig, Shared, Config
  <2>3. Calm
    BY <2>1, <2>2, CalmSets DEF Calm
  <2>4. CASE pc' = "idle" /\ run' = NoRun
    BY <2>3, <2>4, CommandCalm
  <2>5. CASE pc \in DeployPc /\ pc' \in DeployPc /\ run' = run
    BY <2>3, <2>5, DeployCalm
  <2> QED
    BY <1>2, <2>4, <2>5 DEF ForgetDiscarded, Exit, Step, Goto
<1>3. CASE DeployReseed
  BY <1>3, DeployReseedKept
<1>5. CASE StartRebuilt
  <2>1. Calm
    BY <1>5, CalmSets, CalmWrites, CalmSaves DEF StartRebuilt, Calm
  <2>2. pc = "rebuilt" /\ pc' = "verify"
    BY <1>5 DEF StartRebuilt, Goto
  <2>3. /\ run'.unsent = run.unsent /\ run'.lifted = run.lifted
        /\ run'.reconverge = run.reconverge
        /\ run'.complete = run.complete /\ run'.streams = run.streams
    BY <1>5 DEF StartRebuilt, Run
  <2>4. LocalsKept'
    BY <2>1, <2>2, <2>3, CommandCalm
       DEF Inv, CalmNode, LocalsKept, FailoverKept, AbortKept, DeployKept, FailoverPc, AbortPc,
           BeforeIssue, AfterPromote
  <2> QED
    BY <2>1, <2>4, CommandCalm
<1> QED
  BY <1>1, <1>2, <1>3, <1>5

\* A deploy's record: the posture it saves follows what it has seen, and a pair
\* recorded streaming, or no longer swapped, has an unfenced standby.
LEMMA RecordKept ==
  ASSUME Shared, Inv, run \in Run, pc \in DeployPc, node' = node, link' = link,
         NEW known,
         cfg' = [cfg EXCEPT !.degraded = Degrades, !.swapped = @ /\ ~Done, !.known = known]
  PROVE  /\ PairKept' /\ HealthyHasReplica'
         /\ Primary' = Primary /\ Standby' = Standby
         /\ cfg'.journal = cfg.journal /\ (cfg'.swapped => cfg.swapped)
<1>1. /\ cfg'.primary = cfg.primary /\ cfg'.journal = cfg.journal /\ cfg'.marker = cfg.marker
      /\ cfg'.degraded = Degrades /\ cfg'.swapped = (cfg.swapped /\ ~Done)
  BY DEF Shared, Config
<1>2. Primary' = Primary /\ Standby' = Standby
  BY <1>1, RolesStay
<1>3. /\ run.reconverge \/ ~cfg.swapped
      /\ run.complete => ~node[Standby].fence
      /\ run.streams => node[Standby].rec
  BY DEF Inv, LocalsKept, DeployKept
<1>4. /\ ~cfg'.degraded => node[Standby].rec /\ ~node[Standby].fence
      /\ ~cfg'.swapped => ~node[Standby].fence
      /\ cfg'.swapped => cfg'.degraded
  BY <1>1, <1>3, SharedFacts DEF Degrades, Done, Inv, PairKept
<1>5. PairKept' /\ HealthyHasReplica'
  BY <1>1, <1>2, <1>4 DEF Inv, PairKept, HealthyHasReplica
<1> QED
  BY <1>1, <1>2, <1>5

\* A deploy's verdicts and saves.
LEMMA DeployVerdictKept ==
  ASSUME Shared, Inv, run \in Run,
         \/ VerifyStreaming \/ ReadIdentifier \/ ClearRetired
         \/ FinalizeConfig \/ AssertWritable \/ FinalSave
  PROVE  Inv'
<1> USE SharedFacts
<1> USE DEF LocalsKept, FailoverKept, AbortKept, DeployKept, FailoverPc, AbortPc, DeployPc,
            BeforeIssue, AfterPromote
<1>1. CASE VerifyStreaming
  <2>1. Calm
    BY <1>1, KeptCalm DEF VerifyStreaming
  <2>2. CASE Exit("verify")
    BY <2>1, <2>2, CommandCalm DEF Exit, Goto
  <2>3. CASE Step("verify", "finalize")
    BY <2>1, <2>3, DeployCalm DEF Step, Goto
  <2>4. CASE Streaming /\ Goto("verify", "name") /\ run' = [run EXCEPT !.streams = TRUE]
    <3>1. pc = "verify" /\ pc' = "name" /\ node[Standby].rec
      BY <2>4 DEF Streaming, Goto, Inv, PairKept
    <3>2. /\ run'.unsent = run.unsent /\ run'.lifted = run.lifted
          /\ run'.reconverge = run.reconverge /\ run'.complete = run.complete
      BY <2>4 DEF Run
    <3>3. LocalsKept'
      BY <2>1, <3>1, <3>2, CommandCalm DEF Inv, CalmNode
    <3> QED
      BY <2>1, <3>3, CommandCalm
  <2> QED
    BY <1>1, <2>2, <2>3, <2>4 DEF VerifyStreaming, Succeeded
<1>2. CASE ReadIdentifier
  <2>1. Calm
    BY <1>2, KeptCalm DEF ReadIdentifier
  <2>2. CASE Step("name", "finalize")
    BY <2>1, <2>2, DeployCalm DEF Step, Goto
  <2>3. CASE /\ node[Standby].rec
             /\ pc = "name" /\ pc' \in {"unretire", "finalize"}
             /\ run' = [run EXCEPT !.named = TRUE, !.complete = ~run.reconverge]
    <3>1. ~node[Standby].fence
      BY <2>3 DEF Inv, PairKept
    <3>2. /\ run'.unsent = run.unsent /\ run'.lifted = run.lifted
          /\ run'.reconverge = run.reconverge /\ run'.streams = run.streams
      BY <2>3 DEF Run
    <3>3. LocalsKept'
      BY <2>1, <2>3, <3>1, <3>2, CommandCalm DEF Inv, CalmNode
    <3> QED
      BY <2>1, <3>3, CommandCalm
  <2> QED
    BY <1>2, <2>2, <2>3 DEF ReadIdentifier, Succeeded, Goto
<1>3. CASE ClearRetired
  <2>1. CalmNode(Standby, [node[Standby] EXCEPT !.retired = FALSE])
    BY DEF CalmNode, Node
  <2>2. Calm
    BY <1>3, <2>1, CalmSets, CalmSaves DEF ClearRetired, Calm
  <2>3. pc = "unretire" /\ pc' = "finalize"
    BY <1>3 DEF ClearRetired, Goto
  <2>4. CASE run' = run
    BY <2>2, <2>3, <2>4, DeployCalm
  <2>5. CASE node[Standby].rec /\ run' = [run EXCEPT !.complete = TRUE]
    <3>1. ~node[Standby].fence
      BY <2>5 DEF Inv, PairKept
    <3>2. /\ run'.unsent = run.unsent /\ run'.lifted = run.lifted
          /\ run'.reconverge = run.reconverge /\ run'.streams = run.streams
      BY <2>5 DEF Run
    <3>3. LocalsKept'
      BY <2>2, <2>3, <3>1, <3>2, CommandCalm DEF Inv, CalmNode
    <3> QED
      BY <2>2, <3>3, CommandCalm
  <2> QED
    BY <1>3, <2>4, <2>5 DEF ClearRetired, Succeeded
<1>4. CASE FinalizeConfig
  <2>1. pc = "finalize" /\ node' = node /\ link' = link
    BY <1>4 DEF FinalizeConfig, Exit, Step, Goto
  <2>2. CASE cfg' = cfg /\ Exit("finalize")
    <3>1. Calm
      BY <2>1, <2>2, CalmSets, CalmSaves DEF Calm
    <3> QED
      BY <2>2, <3>1, CommandCalm DEF Exit, Goto
  <2>3. CASE /\ cfg' = [cfg EXCEPT !.degraded = Degrades, !.swapped = @ /\ ~Done,
                                   !.known = @ \/ run.complete]
             /\ Step("finalize", "writable")
    <3>1. cfg' = [cfg EXCEPT !.degraded = Degrades, !.swapped = @ /\ ~Done,
                             !.known = cfg.known \/ run.complete]
      BY <2>3
    <3>2. /\ PairKept' /\ HealthyHasReplica'
          /\ Primary' = Primary /\ Standby' = Standby
          /\ cfg'.journal = cfg.journal /\ (cfg'.swapped => cfg.swapped)
      BY <2>1, <3>1, RecordKept
    <3>3. LocalsKept'
      BY <2>1, <2>3, <3>2 DEF Step, Goto, Inv
    <3> QED
      BY <3>2, <3>3 DEF Inv
  <2> QED
    BY <1>4, <2>2, <2>3 DEF FinalizeConfig, Saved, SaveFailed
<1>5. CASE AssertWritable
  <2>1. node' = node \/ Set(Primary, Unfenced(Primary))
    BY <1>5 DEF AssertWritable
  <2>2. CalmNodes
    BY <2>1, CalmSets, CalmWrites
  <2>3. CalmConfig
    <3>1. CASE cfg' = cfg
      BY <3>1, CalmSaves
    <3>2. CASE Set(Primary, Unfenced(Primary)) /\ cfg' = [cfg EXCEPT !.marker = None]
      <4>1. ~node'[Primary].fence
        BY <3>2 DEF Set, Unfenced, Node, Shared
      <4> QED
        BY <3>2, <4>1 DEF CalmConfig, Shared, Config
    <3> QED
      BY <1>5, <3>1, <3>2 DEF AssertWritable, Saved, SaveFailed
  <2>4. Calm
    BY <1>5, <2>2, <2>3 DEF AssertWritable, Calm
  <2>5. CASE Exit("writable")
    BY <2>4, <2>5, CommandCalm DEF Exit, Goto
  <2>6. CASE Step("writable", "save")
    BY <2>4, <2>6, DeployCalm DEF Step, Goto
  <2> QED
    BY <1>5, <2>5, <2>6 DEF AssertWritable
<1>6. CASE FinalSave
  <2>1. pc = "save" /\ pc' = "idle" /\ run' = NoRun /\ node' = node /\ link' = link
    BY <1>6 DEF FinalSave, Exit, Goto
  <2>2. CASE cfg' = cfg
    <3>1. Calm
      BY <2>1, <2>2, CalmSets, CalmSaves DEF Calm
    <3> QED
      BY <2>1, <3>1, CommandCalm
  <2>3. CASE cfg' = [cfg EXCEPT !.degraded = Degrades, !.swapped = @ /\ ~Done,
                                !.known = run.named /\ ~Degrades]
    BY <2>1, <2>3, RecordKept, IdleKept DEF Inv
  <2> QED
    BY <1>6, <2>2, <2>3 DEF FinalSave, Save, Saved, SaveFailed
<1> QED
  BY <1>1, <1>2, <1>3, <1>4, <1>5, <1>6

-----------------------------------------------------------------------------
(* The theorems.                                                           *)

\* The invariant is true of a deployed pair.
LEMMA InitKept == Init => Inv
<1> SUFFICES ASSUME Init
             PROVE  Inv
  OBVIOUS
<1>1. PICK p \in Side, b \in Births :
        /\ node = [s \in Side |-> IF s = p THEN Deployed(p)
                                  ELSE [Deployed(p) EXCEPT !.rec = TRUE, !.role = "standby"]]
        /\ link = TRUE /\ dns = p
        /\ cfg = [primary |-> p, birth |-> IF b = "born" THEN p ELSE Other(p),
                  journal |-> None, marker |-> None, known |-> TRUE,
                  degraded |-> FALSE, swapped |-> FALSE, discard |-> None]
        /\ pc = "idle" /\ run = NoRun
        /\ used = [runs |-> 0, faults |-> 0, crashes |-> 0, lost |-> FALSE]
  BY DEF Init, InitPair
<1>2. Primary = p /\ Standby \in Side /\ Standby # p
  BY <1>1, Servers DEF Primary, Standby
<1>3. /\ ~node[Primary].rec /\ node[Standby].rec
      /\ \A s \in Side : ~node[s].fence /\ ~node[s].pending
  BY <1>1, <1>2 DEF Deployed
<1>4. PairKept /\ HealthyHasReplica
  BY <1>1, <1>2, <1>3 DEF PairKept, HealthyHasReplica
<1>5. LocalsKept
  BY <1>1 DEF LocalsKept, FailoverKept, AbortKept, DeployKept, FailoverPc, AbortPc, DeployPc,
     BeforeIssue, AfterPromote, NoRun
<1> QED
  BY <1>4, <1>5 DEF Inv

\* The invariant is inductive.
LEMMA NextKept ==
  ASSUME TypeOK, Inv, [Next]_vars
  PROVE  Inv'
<1> USE TypeOKParts
<1>1. CASE World
  BY <1>1, WorldKept
<1>2. CASE Crash \/ Reconcile \/ FailoverStart \/ AbortStart \/ DeployStart
  BY <1>2, AroundKept
<1>3. CASE FailoverStep
  BY <1>3, FailoverFenceKept, FailoverProveKept, FailoverPromoteKept, FailoverSwapKept
     DEF FailoverStep
<1>4. CASE AbortStep
  BY <1>4, AbortStepKept
<1>5. CASE DeployStep
  BY <1>5, DeployStacksKept, DeployReplicationKept, DeployVerdictKept
     DEF DeployStep, DeployReseed
<1>6. CASE UNCHANGED vars
  <2>1. Calm
    BY <1>6, SharedFacts, CalmSets, CalmSaves DEF vars, Calm
  <2> QED
    BY <1>6, <2>1, BesideKept DEF vars
<1> QED
  BY <1>1, <1>2, <1>3, <1>4, <1>5, <1>6 DEF Next, Command

\* The invariant holds of every behaviour.
THEOREM ComposeInvariant == Spec => []Inv
<1>1. Init => Inv
  BY InitKept
<1>2. TypeOK /\ Inv /\ [Next]_vars => Inv'
  BY NextKept
<1> QED
  BY <1>1, <1>2, ComposeTypeCorrect, PTL DEF Spec

\* A primary that refuses writes is on record, so that the next failover or
\* deploy finds it, whatever died, failed or was called off before.
THEOREM ComposeFenceRecorded == Spec => []StrandedFenceRecorded
<1>1. Inv => StrandedFenceRecorded
  BY DEF Inv, PairKept, StrandedFenceRecorded
<1> QED
  BY <1>1, ComposeInvariant, PTL

\* A pair recorded healthy, and with no failover in flight, has a replica that
\* would come up writable.
THEOREM ComposeHealthyHasReplica == Spec => []HealthyHasReplica
<1>1. Inv => HealthyHasReplica
  BY DEF Inv
<1> QED
  BY <1>1, ComposeInvariant, PTL
-----------------------------------------------------------------------------
(* What no reseed overwrites and no command forks: the copies.             *)

\* A replica is on no newer timeline than its primary, and what a deploy is about
\* to overwrite is no newer either, or it was given up.
SeedPc == {"seed", "seedSwap"}
TimelinesKept ==
  /\ node[Standby].rec => node[Standby].tl <= node[Primary].tl
  /\ pc \in SeedPc => node[Standby].tl <= node[Primary].tl \/ cfg.discard = CopyOf(Standby)

\* A failover in flight has promoted the standby: it is the one to serve.
Served == ~node[Standby].rec /\ cfg.journal # None
Server == IF Served THEN Standby ELSE Primary

\* While nothing was lost: the one to serve has everything, and the other is fenced
\* as soon as it is no replica, or its promote may land.
CopiesKept ==
  /\ \A s \in Side : node[s].net = "up"
  /\ node[Primary].db
  /\ ~Served => node[Standby].data \subseteq node[Primary].data
  /\ node[Standby].pending \/ Served =>
       node[Primary].fence /\ node[Primary].data \subseteq node[Standby].data
  /\ ~node[Standby].rec /\ cfg.journal = None => node[Standby].fence

\* The steps from the fence on, and those at which the data is proven.
FencedAt ==
  {"capture", "replayed", "reseed", "reseedSwap", "reseedUp", "arm", "journal", "send", "issue"}
ProvenAt == {"reseedUp", "arm", "journal", "send", "issue"}
\* The steps of a failover at which the standby's database runs.
RunsAt ==
  FailoverPc \ {"ready", "lift", "check", "reseedSwap", "reseedUp", "unfence", "startApp", "clear"}

\* What a command has established of the copies by the step it is at.
ProofKept ==
  /\ pc \in FailoverPc \ {"ready"} => run.planned
  /\ pc \in FencedAt => node[Primary].fence
  /\ pc \in ProvenAt => node[Primary].data \subseteq node[Standby].data
  /\ pc \in {"unfence", "startApp"} => ~run.journaled
  /\ pc \in RunsAt => node[Standby].db
  /\ pc \in AfterPromote \cup {"poll"} => cfg.journal # None
  /\ run.resume /\ pc \in {"stop", "mark", "fence"} => cfg.journal # None
  /\ pc \in AbortPc \ {"lineage", "stopDb"} => node[Standby].rec

CopyInv == TimelinesKept /\ (~used.lost => CopiesKept /\ ProofKept)

\* What a step is to show beside: it moves the one writer, or is excepted.
MovesWriter == used'.lost \/ LateReseed \/ Moved!Step

\* What OneWriter calls writer and has.
Writers == {s \in Side : Writes(s)}
Holdings == [s \in Side |-> node[s].data]

-----------------------------------------------------------------------------
(* Tame steps: they leave every copy, and lift a fence from an idle primary *)
(* only.                                                                    *)

SameCopy(s, n) ==
  /\ n.net = node[s].net /\ n.rec = node[s].rec /\ n.data = node[s].data /\ n.tl = node[s].tl
  /\ n.pending => node[s].pending
  /\ node[s].db => n.db
Idle == ~node[Standby].pending /\ ~Served
TameNode(s, n) ==
  /\ SameCopy(s, n)
  /\ node[s].fence => n.fence \/ (s = Primary /\ Idle)
Tame ==
  /\ \A s \in Side : TameNode(s, node'[s])
  /\ cfg'.primary = cfg.primary /\ cfg'.journal = cfg.journal
  /\ used'.lost = used.lost

\* The writes of a server that are tame.
LEMMA TameWrites ==
  ASSUME Shared, NEW s \in Side
  PROVE  /\ TameNode(s, node[s])
         /\ \A r : TameNode(s, WithRole(s, r))
         /\ \A b : TameNode(s, WithApp(s, b))
         /\ TameNode(s, [WithRole(s, "standby") EXCEPT !.app = FALSE])
         /\ TameNode(s, [node[s] EXCEPT !.retired = FALSE])
         /\ TameNode(s, Fenced(s)) /\ TameNode(s, StackUp(s)) /\ TameNode(s, Retired(s))
         /\ \A n \in PartsRetired(s) : TameNode(s, n)
         /\ Idle => TameNode(Primary, Unfenced(Primary))
<1>1. node[s] \in Node /\ node[Primary] \in Node
  BY SharedFacts
<1>2. /\ TameNode(s, node[s])
      /\ \A r : TameNode(s, WithRole(s, r))
      /\ \A b : TameNode(s, WithApp(s, b))
      /\ TameNode(s, [WithRole(s, "standby") EXCEPT !.app = FALSE])
      /\ TameNode(s, [node[s] EXCEPT !.retired = FALSE])
      /\ TameNode(s, Fenced(s)) /\ TameNode(s, StackUp(s)) /\ TameNode(s, Retired(s))
  BY <1>1 DEF TameNode, SameCopy, WithRole, WithApp, Fenced, StackUp, Retired, Node
<1>3. ASSUME NEW n \in PartsRetired(s)
      PROVE  TameNode(s, n)
  <2>1. PICK db \in {DbAnswers(s), FALSE}, app \in {Answers(s), FALSE},
             role \in {Answers(s), FALSE} :
          n = [node[s] EXCEPT !.retired = @ \/ db, !.app = @ /\ ~app,
                              !.role = IF role THEN "standby" ELSE @]
    BY DEF PartsRetired
  <2>2. /\ n.net = node[s].net /\ n.rec = node[s].rec /\ n.data = node[s].data
        /\ n.tl = node[s].tl /\ n.pending = node[s].pending /\ n.db = node[s].db
        /\ n.fence = node[s].fence
    BY <1>1, <2>1 DEF Node
  <2> QED
    BY <2>2 DEF TameNode, SameCopy
<1>4. Idle => TameNode(Primary, Unfenced(Primary))
  BY <1>1 DEF TameNode, SameCopy, Unfenced, Node
<1> QED
  BY <1>2, <1>3, <1>4

TameNodes == \A s \in Side : TameNode(s, node'[s])

\* A tame write of one server, done or failed; so is retiring.
LEMMA TameSets ==
  ASSUME Shared, NEW s \in Side
  PROVE  /\ node' = node => TameNodes
         /\ \A n : TameNode(s, n) /\ Set(s, n) => TameNodes
         /\ \A r, n : TameNode(s, n) /\ Call(r, s, n) => TameNodes
         /\ Retire(s) => TameNodes
<1>1. node' = node => TameNodes
  BY TameWrites DEF TameNodes
<1>2. ASSUME NEW n, TameNode(s, n), Set(s, n)
      PROVE  TameNodes
  <2>1. \A t \in Side : node'[t] = IF t = s THEN n ELSE node[t]
    BY <1>2 DEF Set, Shared
  <2> QED
    BY <1>2, <2>1, TameWrites DEF TameNodes
<1>3. ASSUME NEW r, NEW n, TameNode(s, n), Call(r, s, n)
      PROVE  TameNodes
  BY <1>1, <1>2, <1>3 DEF Call
<1>4. Retire(s) => TameNodes
  BY <1>1, <1>2, TameWrites DEF Retire
<1> QED
  BY <1>1, <1>2, <1>3, <1>4

\* A call or a save that fails loses nothing.
LEMMA NothingLost ==
  ASSUME Shared
  PROVE  /\ \A b : Succeeded(b) \/ Failed(b) => used'.lost = used.lost
         /\ \A r, s, n : Call(r, s, n) => used'.lost = used.lost
         /\ \A s : Retire(s) => used'.lost = used.lost
         /\ \A c : Saved(c) \/ Save(c) => used'.lost = used.lost
         /\ SaveFailed \/ (MayFault /\ Spent) \/ used' = used => used'.lost = used.lost
<1>1. MayFault /\ Spent => used'.lost = used.lost
  BY DEF Spent, Shared, UsedType
<1> QED
  BY <1>1 DEF Succeeded, Failed, Call, Retire, Saved, Save, SaveFailed

\* A tame step keeps the copies, and who is to serve.
LEMMA TameCopies ==
  ASSUME Shared, Tame
  PROVE  /\ Primary' = Primary /\ Standby' = Standby
         /\ \A s \in Side : SameCopy(s, node'[s])
         /\ SameCopy(Primary, node'[Primary]) /\ SameCopy(Standby, node'[Standby])
         /\ cfg'.journal = cfg.journal /\ used'.lost = used.lost
         /\ Served' = Served /\ Server' = Server
         /\ node[Standby].fence => node'[Standby].fence
         /\ CopiesKept => CopiesKept'
         /\ TimelinesKept => (node'[Standby].rec => node'[Standby].tl <= node'[Primary].tl)
<1> USE SharedFacts
<1>1. Primary' = Primary /\ Standby' = Standby
  BY RolesStay DEF Tame
<1>2. /\ \A s \in Side : SameCopy(s, node'[s])
      /\ SameCopy(Primary, node'[Primary]) /\ SameCopy(Standby, node'[Standby])
      /\ node[Standby].fence => node'[Standby].fence
      /\ node[Primary].fence => node'[Primary].fence \/ Idle
      /\ cfg'.journal = cfg.journal /\ used'.lost = used.lost
  BY DEF Tame, TameNode
<1>3. Served' = Served /\ Server' = Server
  BY <1>1, <1>2 DEF Served, Server, SameCopy
<1>4. CopiesKept => CopiesKept'
  BY <1>1, <1>2, <1>3 DEF CopiesKept, SameCopy, Idle
<1>5. TimelinesKept => (node'[Standby].rec => node'[Standby].tl <= node'[Primary].tl)
  BY <1>2 DEF TimelinesKept, SameCopy
<1> QED
  BY <1>1, <1>2, <1>3, <1>4, <1>5

-----------------------------------------------------------------------------
(* One writer.                                                             *)

\* Only the one to serve takes writes, and it has everything.
LEMMA OneServes ==
  ASSUME Shared, CopiesKept
  PROVE  Writers \subseteq {Server} /\ \A t \in Side : node[t].data \subseteq node[Server].data
<1> USE SharedFacts
<1>1. CASE Served
  <2>1. ~Writes(Primary)
    BY <1>1 DEF CopiesKept, Writes, TakesWrites
  <2> QED
    BY <1>1, <2>1 DEF Writers, Server, CopiesKept
<1>2. CASE ~Served
  <2>1. ~Writes(Standby)
    BY <1>2 DEF CopiesKept, Served, Writes, TakesWrites
  <2> QED
    BY <1>2, <2>1 DEF Writers, Server, CopiesKept
<1> QED
  BY <1>1, <1>2

\* The same of the next state.
LEMMA OneServesNext ==
  ASSUME Shared', CopiesKept'
  PROVE  Writers' \subseteq {Server'}
<1>1. cfg'.primary \in Side
  BY DEF Shared, Config
<1>2. Primary' \in Side /\ Standby' \in Side /\ \A s \in Side : s = Primary' \/ s = Standby'
  BY <1>1, Servers DEF Primary, Standby
<1>3. CASE Served'
  <2>1. ~Writes(Primary)'
    BY <1>3 DEF CopiesKept, Writes, TakesWrites
  <2> QED
    BY <1>2, <1>3, <2>1 DEF Writers, Server
<1>4. CASE ~Served'
  <2>1. ~Writes(Standby)'
    BY <1>4 DEF CopiesKept, Served, Writes, TakesWrites
  <2> QED
    BY <1>2, <1>4, <2>1 DEF Writers, Server
<1> QED
  BY <1>3, <1>4

\* A step that leaves the data: the writer stays, stops, or starts alone.
LEMMA WriterStep ==
  ASSUME Holdings' = Holdings, NEW s \in Side, Writers' \subseteq {s}, Writers \subseteq {s},
         \A t \in Side : Holdings[t] \subseteq Holdings[s]
  PROVE  Moved!Step
<1>1. CASE Writers' = {}
  BY <1>1 DEF Moved!Step, Moved!Next, Moved!Stop, Writers, Holdings
<1>2. CASE Writers' = Writers
  BY <1>2 DEF Moved!Step, Writers, Holdings
<1>3. CASE Writers' = {s} /\ Writers = {}
  <2>1. Moved!Serve(s)
    BY <1>3 DEF Moved!Serve, Writers, Holdings
  <2> QED
    BY <2>1 DEF Moved!Step, Moved!Next
<1> QED
  BY <1>1, <1>2, <1>3

\* So whatever a tame step does to fences, apps and databases.
LEMMA TameMoves ==
  ASSUME Shared, Shared', CopiesKept, Tame
  PROVE  Moved!Step
<1>1. /\ CopiesKept' /\ Server' = Server /\ Server \in Side
      /\ \A s \in Side : node'[s].data = node[s].data
  BY TameCopies, SharedFacts DEF Server, SameCopy
<1>2. Writers \subseteq {Server} /\ \A t \in Side : node[t].data \subseteq node[Server].data
  BY OneServes
<1>3. Writers' \subseteq {Server'}
  BY <1>1, OneServesNext
<1>4. Holdings' = Holdings /\ \A t \in Side : Holdings[t] \subseteq Holdings[Server]
  BY <1>1, <1>2 DEF Holdings
<1> QED
  BY <1>1, <1>2, <1>3, <1>4, WriterStep

\* A tame step is left to show what its command relies on.
LEMMA TameKept ==
  ASSUME Shared, Shared', CopyInv, Tame,
         pc' \in SeedPc =>
           node'[Standby].tl <= node'[Primary].tl \/ cfg'.discard = CopyOf(Standby)',
         ~used.lost => ProofKept'
  PROVE  CopyInv' /\ MovesWriter
<1>1. TimelinesKept'
  BY TameCopies DEF TimelinesKept, CopyInv
<1>2. ~used'.lost => CopiesKept'
  BY TameCopies DEF CopyInv
<1>3. MovesWriter
  BY TameMoves, TameCopies DEF CopyInv, MovesWriter
<1> QED
  BY <1>1, <1>2, <1>3, TameCopies DEF CopyInv

\* A tame step beside the command lowers no fence and keeps its locals true.
LEMMA BesideTame ==
  ASSUME Shared, Shared', CopyInv, Tame, cfg' = cfg, pc' = pc, run' = run,
         node[Primary].fence => node'[Primary].fence
  PROVE  CopyInv' /\ MovesWriter
<1>1. /\ Primary' = Primary /\ Standby' = Standby
      /\ SameCopy(Primary, node'[Primary]) /\ SameCopy(Standby, node'[Standby])
  BY TameCopies
<1>2. pc' \in SeedPc =>
        node'[Standby].tl <= node'[Primary].tl \/ cfg'.discard = CopyOf(Standby)'
  BY <1>1 DEF CopyInv, TimelinesKept, SameCopy, CopyOf
<1>3. ~used.lost => ProofKept'
  BY <1>1 DEF CopyInv, ProofKept, SameCopy
<1> QED
  BY <1>2, <1>3, TameKept

\* With no command running there is nothing to rely on.
LEMMA IdleTame ==
  ASSUME Shared, Shared', CopyInv, Tame,
         pc' \in {"idle", "ready", "lineage", "stopDb"} \cup (DeployPc \ SeedPc)
  PROVE  CopyInv' /\ MovesWriter
<1>1. ProofKept'
  BY DEF ProofKept, FailoverPc, AbortPc, DeployPc, FencedAt, ProvenAt, RunsAt, AfterPromote
<1> QED
  BY <1>1, TameKept DEF DeployPc, SeedPc

\* A new transaction is the one writer's, who had them all.
LEMMA CommitCopies ==
  ASSUME Shared, Shared', Inv, CopyInv, NEW s \in Side, NEW w \in Write, Commit(s, w)
  PROVE  CopyInv' /\ MovesWriter
<1> USE SharedFacts
<1> DEFINE n == [node[s] EXCEPT !.data = @ \cup {w}]
<1>1. node'[s] = n /\ \A t \in Side \ {s} : node'[t] = node[t]
  BY DEF Commit, Set, Shared
<1>2. /\ n.net = node[s].net /\ n.db = node[s].db /\ n.rec = node[s].rec
      /\ n.fence = node[s].fence /\ n.app = node[s].app /\ n.tl = node[s].tl
      /\ n.retired = node[s].retired /\ n.pending = node[s].pending
      /\ n.data = node[s].data \cup {w}
  BY DEF Node
<1> HIDE DEF n
<1>3. /\ Primary' = Primary /\ Standby' = Standby /\ cfg' = cfg /\ pc' = pc /\ run' = run
      /\ used' = used
  BY RolesStay DEF Commit
<1>4. \A t \in Side : /\ node'[t].net = node[t].net /\ node'[t].db = node[t].db
                      /\ node'[t].rec = node[t].rec /\ node'[t].fence = node[t].fence
                      /\ node'[t].tl = node[t].tl /\ node'[t].pending = node[t].pending
                      /\ node'[t].app = node[t].app /\ node'[t].retired = node[t].retired
                      /\ node'[t].data = IF t = s THEN node[t].data \cup {w} ELSE node[t].data
  BY <1>1, <1>2
<1>5. TimelinesKept'
  BY <1>3, <1>4 DEF TimelinesKept, CopyInv, CopyOf
<1>6. CASE used.lost
  BY <1>3, <1>5, <1>6 DEF CopyInv, MovesWriter
<1>7. CASE ~used.lost
  <2>1. CopiesKept /\ ProofKept /\ Writes(s)
    BY <1>7 DEF CopyInv, Commit
  <2>2. s \in Writers /\ Writers \subseteq {Server} /\ \A t \in Side : node[t].data \subseteq node[s].data
    BY <2>1, OneServes DEF Writers
  <2>3. s = Server /\ ~node[s].fence
    BY <2>1, <2>2 DEF Writes, TakesWrites
  <2>4. Served' = Served
    BY <1>3, <1>4 DEF Served
  <2>5. CopiesKept'
    BY <1>3, <1>4, <2>1, <2>3, <2>4 DEF CopiesKept, Server
  <2>6. ProofKept'
    <3>1. s = Primary => ~(pc \in FencedAt)
      BY <2>1, <2>3 DEF ProofKept
    <3>2. ProvenAt \subseteq FencedAt
      BY DEF ProvenAt, FencedAt
    <3>3. pc \in ProvenAt => node'[Primary].data \subseteq node'[Standby].data
      BY <1>4, <2>1, <3>1, <3>2 DEF ProofKept
    <3> QED
      BY <1>3, <1>4, <2>1, <3>3 DEF ProofKept
  <2>7. Moved!Step
    <3>1. \A t \in Side : Writes(t)' <=> Writes(t)
      BY <1>4 DEF Writes, TakesWrites, Running
    <3>2. Writers' = Writers /\ Writers = {s}
      BY <2>2, <2>3, <3>1 DEF Writers
    <3>3. Holdings' = [Holdings EXCEPT ![s] = @ \cup {w}]
      BY <1>4 DEF Holdings
    <3>4. \A t \in Side : w \notin Holdings[t]
      BY <2>2, Servers DEF Commit, Holdings
    <3>5. Moved!Commit(s, w)
      BY <3>2, <3>3, <3>4 DEF Moved!Commit, Writers, Holdings
    <3> QED
      BY <3>5 DEF Moved!Step, Moved!Next
  <2> QED
    BY <1>3, <1>5, <2>5, <2>6, <2>7 DEF CopyInv, MovesWriter
<1> QED
  BY <1>6, <1>7

\* A standby that is no writer becomes what the primary is.
LEMMA CopyMoves ==
  ASSUME Shared, node'[Primary] = node[Primary], ~Writes(Standby),
         node'[Standby].rec, node'[Standby].data = node[Primary].data,
         node[Standby].data \subseteq node[Primary].data
  PROVE  Moved!Step
<1> USE SharedFacts
<1> SUFFICES ASSUME NEW p \in Side, NEW s \in Side, p = Primary, s = Standby
             PROVE  Moved!Step
  OBVIOUS
<1>1. ~Writes(s)' /\ (Writes(p)' <=> Writes(p)) /\ ~Writes(s)
  BY DEF Writes, TakesWrites, Running
<1>2. Writers' = Writers /\ Writers # {s}
  BY <1>1 DEF Writers
<1>3. Holdings' = [Holdings EXCEPT ![s] = Holdings[p]] /\ Holdings[s] \subseteq Holdings[p]
  BY DEF Holdings
<1>4. Moved!Copy(p, s)
  BY <1>2, <1>3 DEF Moved!Copy, Writers, Holdings
<1> QED
  BY <1>4 DEF Moved!Step, Moved!Next

LEMMA ReplicateCopies ==
  ASSUME Shared, Shared', Inv, CopyInv, NEW s \in Side, Replicate(s)
  PROVE  CopyInv' /\ MovesWriter
<1> USE SharedFacts
<1>1. s = Standby /\ node[Standby].rec /\ Other(s) = Primary
  BY Servers DEF Replicate, Inv, PairKept
<1>2. /\ Primary' = Primary /\ Standby' = Standby /\ cfg' = cfg /\ pc' = pc /\ run' = run
      /\ used' = used
  BY RolesStay DEF Replicate
<1>3. node'[Primary] = node[Primary]
  BY <1>1 DEF Replicate, Set, Shared
<1>4. /\ node'[Standby].net = node[Standby].net /\ node'[Standby].db = node[Standby].db
      /\ node'[Standby].rec /\ node'[Standby].pending = node[Standby].pending
      /\ node'[Standby].tl = node[Primary].tl /\ node'[Standby].data = node[Primary].data
  <2>1. node'[Standby] = [node[Standby] EXCEPT !.data = node[Primary].data,
                                               !.tl = node[Primary].tl]
    BY <1>1 DEF Replicate, Set, Shared
  <2> QED
    BY <1>1, <2>1 DEF Node
<1>5. node'[Standby].tl <= node'[Primary].tl
  BY <1>3, <1>4 DEF Node, Timeline
<1>6. TimelinesKept'
  BY <1>2, <1>5 DEF TimelinesKept
<1>7. CASE used.lost
  BY <1>2, <1>6, <1>7 DEF CopyInv, MovesWriter
<1>8. CASE ~used.lost
  <2>1. CopiesKept /\ ProofKept /\ ~Served
    BY <1>1, <1>8 DEF CopyInv, Served
  <2>2. CopiesKept'
    <3>1. ~Served'
      BY <1>2, <1>4 DEF Served
    <3>2. \A t \in Side : node'[t].net = "up"
      BY <1>3, <1>4, <2>1 DEF CopiesKept
    <3>3. ~(node[Standby].pending \/ Served) \/ node[Primary].fence
      BY <2>1 DEF CopiesKept
    <3> QED
      BY <1>2, <1>3, <1>4, <2>1, <3>1, <3>2, <3>3 DEF CopiesKept
  <2>3. ProofKept'
    BY <1>1, <1>2, <1>3, <1>4, <2>1 DEF ProofKept
  <2>4. Moved!Step
    BY <1>1, <1>3, <1>4, <2>1, CopyMoves DEF CopiesKept, Writes, TakesWrites
  <2> QED
    BY <1>2, <1>6, <2>2, <2>3, <2>4 DEF CopyInv, MovesWriter
<1> QED
  BY <1>7, <1>8

\* A promote lands on the side that has everything while the other is fenced.
LEMMA PromoteCopies ==
  ASSUME Shared, Shared', Inv, CopyInv, NEW s \in Side, PromoteLands(s)
  PROVE  CopyInv' /\ MovesWriter
<1> USE SharedFacts
<1>1. /\ s = Standby /\ node[Standby].rec /\ node[Standby].pending /\ cfg.journal # None
  BY DEF PromoteLands, Inv, PairKept
<1>2. /\ Primary' = Primary /\ Standby' = Standby /\ cfg' = cfg /\ pc' = pc /\ run' = run
      /\ used' = used
  BY RolesStay DEF PromoteLands
<1>3. /\ node'[Primary] = node[Primary]
      /\ node'[Standby].net = node[Standby].net /\ node'[Standby].db = node[Standby].db
      /\ ~node'[Standby].rec /\ ~node'[Standby].pending
      /\ node'[Standby].data = node[Standby].data
  BY <1>1 DEF PromoteLands, Set, Node, Shared
<1>4. pc \notin SeedPc
  BY <1>1 DEF Inv, LocalsKept, DeployKept, DeployPc, SeedPc
<1>5. TimelinesKept'
  BY <1>2, <1>3, <1>4 DEF TimelinesKept
<1>6. CASE used.lost
  BY <1>2, <1>5, <1>6 DEF CopyInv, MovesWriter
<1>7. CASE ~used.lost
  <2>1. /\ CopiesKept /\ ProofKept /\ ~Served
        /\ node[Primary].fence /\ node[Primary].data \subseteq node[Standby].data
    BY <1>1, <1>7 DEF CopyInv, CopiesKept, Served
  <2>2. Served' /\ Server' = Standby
    BY <1>1, <1>2, <1>3 DEF Served, Server
  <2>3. CopiesKept'
    BY <1>1, <1>2, <1>3, <2>1, <2>2 DEF CopiesKept
  <2>4. ~(pc \in AbortPc \ {"lineage", "stopDb"})
    BY <1>1 DEF Inv, LocalsKept, AbortKept
  <2>5. ProofKept'
    BY <1>2, <1>3, <2>1, <2>4 DEF ProofKept
  <2>6. Writers = {}
    BY <1>1, <2>1 DEF Writers, Writes, TakesWrites
  <2>7. Holdings' = Holdings /\ \A t \in Side : Holdings[t] \subseteq Holdings[Standby]
    BY <1>3, <2>1 DEF Holdings
  <2>8. Writers' \subseteq {Standby}
    BY <2>2, <2>3, OneServesNext
  <2>9. Moved!Step
    BY <2>6, <2>7, <2>8, WriterStep
  <2> QED
    BY <1>2, <1>5, <2>3, <2>5, <2>9 DEF CopyInv, MovesWriter
<1> QED
  BY <1>6, <1>7

\* Whatever the servers do.
LEMMA WorldCopies ==
  ASSUME Shared, Shared', Inv, CopyInv, World
  PROVE  CopyInv' /\ MovesWriter
<1> USE SharedFacts
<1>1. ASSUME NEW s \in Side, LinkUp(s) \/ LinkDown
      PROVE  CopyInv' /\ MovesWriter
  <2>1. node' = node /\ cfg' = cfg /\ pc' = pc /\ run' = run /\ used'.lost = used.lost
    BY <1>1, NothingLost DEF LinkUp, LinkDown
  <2>2. Tame
    BY <2>1, TameSets DEF Tame, TameNodes
  <2> QED
    BY <2>1, <2>2, BesideTame
<1>2. ASSUME NEW s \in Side, Die(s) \/ Cut(s)
      PROVE  CopyInv' /\ MovesWriter
  <2>1. used'.lost
    BY <1>2 DEF Die, Cut, Shared, UsedType
  <2>2. /\ Primary' = Primary /\ Standby' = Standby /\ cfg' = cfg /\ pc' = pc
    BY <1>2, RolesStay DEF Die, Cut
  <2>3. \A t \in Side : node'[t].rec = node[t].rec /\ node'[t].tl = node[t].tl
    BY <1>2 DEF Die, Cut, Set, Shared, Node
  <2> QED
    BY <2>1, <2>2, <2>3 DEF CopyInv, TimelinesKept, CopyOf, MovesWriter
<1>3. ASSUME NEW s \in Side, Return(s)
      PROVE  CopyInv' /\ MovesWriter
  <2>1. /\ Primary' = Primary /\ Standby' = Standby /\ cfg' = cfg /\ pc' = pc /\ used' = used
    BY <1>3, RolesStay DEF Return
  <2>2. \A t \in Side : node'[t].rec = node[t].rec /\ node'[t].tl = node[t].tl
    BY <1>3 DEF Return, StackUp, Set, Shared, Node
  <2>3. used.lost
    BY <1>3 DEF CopyInv, CopiesKept, Return
  <2> QED
    BY <2>1, <2>2, <2>3 DEF CopyInv, TimelinesKept, CopyOf, MovesWriter
<1> QED
  BY <1>1, <1>2, <1>3, CommitCopies, ReplicateCopies, PromoteCopies DEF World

\* A command that dies, a status, and a command that starts.
LEMMA AroundCopies ==
  ASSUME Shared, Shared', Inv, CopyInv,
         Crash \/ Reconcile \/ FailoverStart \/ AbortStart \/ DeployStart
  PROVE  CopyInv' /\ MovesWriter
<1> USE SharedFacts
<1>1. CASE Reconcile
  <2>1. TameNodes /\ used'.lost = used.lost /\ cfg' = cfg /\ pc' = "idle"
    BY <1>1, TameSets, NothingLost DEF Reconcile
  <2> QED
    BY <2>1, IdleTame DEF Tame, TameNodes
<1>2. CASE Crash \/ FailoverStart \/ AbortStart \/ DeployStart
  <2>1. Kept /\ used'.lost = used.lost
    BY <1>2 DEF Crash, FailoverStart, AbortStart, DeployStart, Shared, UsedType
  <2>2. Tame
    BY <2>1, TameSets DEF Tame, TameNodes, Kept
  <2>3. pc' \in {"idle", "ready", "lineage", "entry"}
    BY <1>2 DEF Crash, FailoverStart, AbortStart, DeployStart, Begin, Goto
  <2> QED
    BY <2>2, <2>3, IdleTame DEF DeployPc, SeedPc
<1> QED
  BY <1>1, <1>2

-----------------------------------------------------------------------------
(* The copies under a failover.                                            *)

\* The lift of a stranded fence is tame: with no journal no promote can land and
\* none has, so the primary is the one to serve.
LEMMA LiftTame ==
  ASSUME Shared, Inv, NEW from, NEW to, NEW refused, LiftStranded(from, to, refused)
  PROVE  Tame
<1> USE SharedFacts
<1>1. ASSUME cfg.journal = None
      PROVE  Idle
  BY <1>1 DEF Inv, PairKept, Idle, Served
<1>2. ASSUME node' = [node EXCEPT ![Primary] = Unfenced(Primary)], cfg.journal = None
      PROVE  TameNodes
  BY <1>1, <1>2, TameSets, TameWrites DEF Set
<1>3. TameNodes
  BY <1>2, TameSets DEF LiftStranded, Set
<1>4. cfg'.primary = cfg.primary /\ cfg'.journal = cfg.journal
  BY DEF LiftStranded, Saved, SaveFailed, Shared, Config
<1>5. used'.lost = used.lost
  BY NothingLost DEF LiftStranded, Saved
<1> QED
  BY <1>3, <1>4, <1>5 DEF Tame, TameNodes

\* A tame step of a failover keeps the fence, the data and the database proven.
LEMMA TameOfFailover ==
  ASSUME Shared, Shared', Inv, CopyInv, Tame, pc' \in FailoverPc \ {"ready"},
         ~used.lost =>
           /\ run'.planned
           /\ pc' \in FencedAt => node'[Primary].fence
           /\ pc' \in ProvenAt => node[Primary].data \subseteq node[Standby].data
           /\ pc' \in {"unfence", "startApp"} => ~run'.journaled
           /\ pc' \in RunsAt => node[Standby].db
           /\ pc' \in AfterPromote \cup {"poll"} => cfg.journal # None
           /\ run'.resume /\ pc' \in {"stop", "mark", "fence"} => cfg.journal # None
  PROVE  CopyInv' /\ MovesWriter
<1>1. pc' \notin SeedPc /\ pc' \notin AbortPc
  BY DEF FailoverPc, AbortPc, SeedPc
<1>2. ASSUME ~used.lost
      PROVE  ProofKept'
  BY <1>1, <1>2, TameCopies DEF ProofKept, SameCopy
<1> QED
  BY <1>1, <1>2, TameKept

\* While no server is lost the primary answers, and the standby when it runs.
LEMMA NoneLost ==
  ASSUME Shared, CopyInv, ~used.lost
  PROVE  /\ CopiesKept /\ ProofKept
         /\ \A s \in Side : Answers(s)
         /\ DbAnswers(Primary) /\ (DbAnswers(Standby) <=> node[Standby].db)
  BY SharedFacts DEF CopyInv, CopiesKept, Answers, DbAnswers, Running

\* The gates and the fence of a failover.
LEMMA FailoverFenceCopies ==
  ASSUME Shared, Shared', Inv, CopyInv, run \in Run,
         \/ ProbePrimary \/ LiftAtFailover \/ Check \/ StopWriters \/ Mark \/ Fence
  PROVE  CopyInv' /\ MovesWriter
<1> USE SharedFacts
<1> USE DEF FailoverPc, FencedAt, ProvenAt, RunsAt, AfterPromote
<1>1. CASE ProbePrimary
  <2>1. Tame
    BY <1>1, TameSets DEF ProbePrimary, Kept, Tame, TameNodes
  <2>2. /\ pc' = IF DbAnswers(Primary) THEN "lift" ELSE "check"
        /\ run'.planned = DbAnswers(Primary)
    BY <1>1 DEF ProbePrimary, Goto, Run
  <2> QED
    BY <2>1, <2>2, NoneLost, TameOfFailover
<1>2. CASE LiftAtFailover
  <2>1. Tame
    BY <1>2, LiftTame DEF LiftAtFailover
  <2>2. pc = "lift" /\ (pc' = "idle" \/ (pc' = "check" /\ run' = run))
    BY <1>2 DEF LiftAtFailover, LiftStranded, Goto
  <2>3. ~used.lost => run.planned
    BY <2>2 DEF CopyInv, ProofKept
  <2> QED
    BY <2>1, <2>2, <2>3, IdleTame, TameOfFailover
<1>3. CASE Check
  <2>1. used'.lost = used.lost
    BY <1>3, NothingLost DEF Check
  <2>2. Tame /\ pc = "check"
    BY <1>3, <2>1, TameSets DEF Check, Kept, Tame, TameNodes
  <2>3. CASE Exit("check")
    BY <2>2, <2>3, IdleTame DEF Exit, Goto
  <2>4. CASE ~Exit("check")
    <3>1. PICK f \in Forced, standby \in StandbyReadings, named \in BOOLEAN :
            LET answers == run.planned /\ DbAnswers(Primary)
            IN /\ named => answers
               /\ IF ~standby.named \/ (answers /\ ~named)
                  THEN MayFault /\ Spent ELSE used' = used
               /\ IF Gate(f, standby, named)
                  THEN /\ run' = [run EXCEPT !.journaled = cfg.journal # None,
                                             !.resume = ~node[Standby].rec,
                                             !.journal.named = standby.named]
                       /\ pc' = IF run.planned THEN "stop"
                                ELSE IF run'.resume THEN "restart" ELSE "arm"
                  ELSE Exit("check")
      BY <1>3, <2>4, Zenon DEF Check
    <3>2. /\ Gate(f, standby, named)
          /\ run' = [run EXCEPT !.journaled = cfg.journal # None,
                                !.resume = ~node[Standby].rec,
                                !.journal.named = standby.named]
          /\ pc' = IF run.planned THEN "stop" ELSE IF run'.resume THEN "restart" ELSE "arm"
      BY <3>1, <2>4, Zenon
    <3>3. run'.resume = ~node[Standby].rec /\ run'.planned = run.planned
      BY <3>2 DEF Run
    <3>4. run'.resume => cfg.journal # None
      BY <3>2, <3>3 DEF Gate, ResumeAllowed, PromoteAllowed
    <3>5. DbAnswers(Standby)
      BY <1>3, <2>4 DEF Check
    <3>6. ~used.lost => run.planned /\ node[Standby].db
      BY <2>2, <3>5, NoneLost DEF ProofKept
    <3>7. pc' \in FailoverPc \ {"ready"}
      BY <3>2
    <3> QED
      BY <2>2, <3>2, <3>3, <3>4, <3>6, <3>7, TameOfFailover
  <2> QED
    BY <2>3, <2>4
<1>4. ASSUME NEW stopped \in BOOLEAN, pc \in {"stop", "mark", "fence"}, Tame, NotFenced(stopped)
      PROVE  CopyInv' /\ MovesWriter
  <2>1. CASE pc' = "idle"
    BY <1>4, <2>1, IdleTame
  <2>2. CASE pc' # "idle"
    <3>1. \/ pc' = "restart" /\ run.resume
          \/ pc' \in {"unfence", "startApp"} /\ ~run.journaled
      BY <1>4, <2>2 DEF NotFenced
    <3>2. run'.planned = run.planned /\ run'.journaled = run.journaled
      BY <1>4, <2>2 DEF NotFenced, Run
    <3>3. ~used.lost => /\ run.planned /\ node[Standby].db
                        /\ run.resume => cfg.journal # None
      BY <1>4 DEF CopyInv, ProofKept
    <3>4. pc' \in FailoverPc \ {"ready"}
      BY <3>1
    <3> QED
      BY <1>4, <3>1, <3>2, <3>3, <3>4, TameOfFailover
  <2> QED
    BY <2>1, <2>2
<1>5. CASE StopWriters
  <2>1. used'.lost = used.lost /\ TameNodes
    BY <1>5, NothingLost, TameSets, TameWrites DEF StopWriters
  <2>2. Tame /\ pc = "stop"
    BY <1>5, <2>1 DEF StopWriters, Tame, TameNodes
  <2>3. CASE NotFenced(FALSE)
    BY <1>4, <2>2, <2>3
  <2>4. CASE pc' = "mark" /\ run' = [run EXCEPT !.stopped = node[Primary].app]
    <3>1. run'.planned = run.planned /\ run'.resume = run.resume
      BY <2>4 DEF Run
    <3>2. ~used.lost => /\ run.planned /\ node[Standby].db
                        /\ run.resume => cfg.journal # None
      BY <2>2 DEF CopyInv, ProofKept
    <3> QED
      BY <2>2, <2>4, <3>1, <3>2, TameOfFailover
  <2> QED
    BY <1>5, <2>3, <2>4 DEF StopWriters
<1>6. CASE Mark
  <2>1. used'.lost = used.lost /\ TameNodes
    BY <1>6, NothingLost, TameSets DEF Mark
  <2>2. cfg'.primary = cfg.primary /\ cfg'.journal = cfg.journal
    BY <1>6 DEF Mark, Saved, SaveFailed, Shared, Config
  <2>3. Tame /\ pc = "mark"
    BY <1>6, <2>1, <2>2 DEF Mark, Tame, TameNodes
  <2>4. CASE NotFenced(run.stopped)
    BY <1>4, <2>3, <2>4 DEF Run
  <2>5. CASE pc' = "fence" /\ run' = [run EXCEPT !.tried = TRUE]
    <3>1. run'.planned = run.planned /\ run'.resume = run.resume
      BY <2>5 DEF Run
    <3>2. ~used.lost => /\ run.planned /\ node[Standby].db
                        /\ run.resume => cfg.journal # None
      BY <2>3 DEF CopyInv, ProofKept
    <3> QED
      BY <2>3, <2>5, <3>1, <3>2, TameOfFailover
  <2> QED
    BY <1>6, <2>4, <2>5 DEF Mark
<1>7. CASE Fence
  <2>1. used'.lost = used.lost /\ TameNodes
    BY <1>7, NothingLost, TameSets, TameWrites DEF Fence
  <2>2. Tame /\ pc = "fence"
    BY <1>7, <2>1 DEF Fence, Tame, TameNodes
  <2>3. CASE NotFenced(run.stopped)
    BY <1>4, <2>2, <2>3 DEF Run
  <2>4. CASE ~NotFenced(run.stopped)
    <3>1. /\ Set(Primary, Fenced(Primary))
          /\ pc' = IF run.resume THEN "restart" ELSE "capture"
          /\ run' = [run EXCEPT !.fenced = TRUE]
      BY <1>7, <2>4 DEF Fence
    <3>2. node'[Primary].fence
      BY <3>1 DEF Set, Fenced, Node, Shared
    <3>3. run'.planned = run.planned /\ run'.resume = run.resume
      BY <3>1 DEF Run
    <3>4. ~used.lost => /\ run.planned /\ node[Standby].db
                        /\ run.resume => cfg.journal # None
      BY <2>2 DEF CopyInv, ProofKept
    <3>5. pc' \in {"restart", "capture"} /\ (pc' = "restart" => run.resume)
      BY <3>1
    <3> QED
      BY <2>2, <3>2, <3>3, <3>4, <3>5, TameOfFailover
  <2> QED
    BY <2>3, <2>4
<1> QED
  BY <1>1, <1>2, <1>3, <1>4, <1>5, <1>6, <1>7

\* Stopping or starting the standby's database keeps the copies; the one writer can
\* only stop by it, or serve again.
LEMMA CycleCopies ==
  ASSUME Shared, Shared', node'[Primary] = node[Primary], Cycled,
         cfg'.primary = cfg.primary, cfg'.journal = cfg.journal, CopiesKept
  PROVE  CopiesKept' /\ Moved!Step
<1> USE SharedFacts
<1>1. Primary' = Primary /\ Standby' = Standby
  BY RolesStay
<1>2. /\ node'[Standby].net = node[Standby].net /\ node'[Standby].rec = node[Standby].rec
      /\ node'[Standby].data = node[Standby].data /\ node'[Standby].fence = node[Standby].fence
      /\ node'[Standby].pending => node[Standby].pending
  BY DEF Cycled
<1>3. Served' = Served /\ Server' = Server
  BY <1>1, <1>2 DEF Served, Server
<1>4. CopiesKept'
  BY <1>1, <1>2, <1>3 DEF CopiesKept
<1>5. Writers \subseteq {Server} /\ \A t \in Side : node[t].data \subseteq node[Server].data
  BY OneServes
<1>6. Writers' \subseteq {Server'}
  BY <1>4, OneServesNext
<1>7. Server \in Side
  BY DEF Server
<1>8. Holdings' = Holdings /\ \A t \in Side : Holdings[t] \subseteq Holdings[Server]
  <2>1. \A s \in Side : node'[s].data = node[s].data
    BY <1>2
  <2> QED
    BY <1>5, <1>7, <2>1 DEF Holdings
<1> QED
  BY <1>3, <1>4, <1>5, <1>6, <1>7, <1>8, WriterStep

\* A copy of the primary keeps the copies, and moves no writer unless the standby
\* had been promoted.
LEMMA SwapCopies ==
  ASSUME Shared, Shared', node'[Primary] = node[Primary], Copied,
         cfg'.primary = cfg.primary, cfg'.journal = cfg.journal, CopiesKept
  PROVE  CopiesKept' /\ (~Served => Moved!Step)
<1> USE SharedFacts
<1>1. Primary' = Primary /\ Standby' = Standby
  BY RolesStay
<1>2. /\ node'[Standby].rec /\ node'[Standby].net = node[Standby].net
      /\ node'[Standby].pending => node[Standby].pending
      /\ node'[Standby].data = node[Primary].data
  BY DEF Copied
<1>3. ~Served'
  BY <1>1, <1>2 DEF Served
<1>4. CopiesKept'
  BY <1>1, <1>2, <1>3 DEF CopiesKept
<1>5. ASSUME ~Served
      PROVE  Moved!Step
  <2>1. ~Writes(Standby) /\ node[Standby].data \subseteq node[Primary].data
    BY <1>5 DEF CopiesKept, Served, Writes, TakesWrites
  <2> QED
    BY <1>2, <2>1, CopyMoves
<1> QED
  BY <1>4, <1>5

\* What a reseed, in whichever of its calls, does to the copies.
LEMMA ReseedCopies ==
  ASSUME Shared, Shared', Inv, CopyInv, ReseedCall,
         cfg' = cfg \/ cfg' = [cfg EXCEPT !.known = TRUE],
         Cycled \/ (Copied /\ (~Served \/ LateReseed)),
         pc' \in SeedPc => pc \in SeedPc,
         ~used.lost => ProofKept'
  PROVE  CopyInv' /\ MovesWriter
<1> USE SharedFacts
<1>1. /\ cfg'.primary = cfg.primary /\ cfg'.journal = cfg.journal
      /\ cfg'.discard = cfg.discard
  BY DEF Shared, Config
<1>2. Primary' = Primary /\ Standby' = Standby
  BY <1>1, RolesStay
<1>3. node'[Primary] = node[Primary]
  BY ReseedFacts
<1>4. used'.lost = used.lost
  BY NothingLost
     DEF ReseedCall, StopForReseed, StopFails, SwapDirs, SwapFails, StartReseeded, StartFails
<1>5. TimelinesKept'
  <2>1. CASE Cycled
    BY <1>1, <1>2, <1>3, <2>1 DEF Cycled, CopyInv, TimelinesKept, CopyOf
  <2>2. CASE Copied
    <3>1. node'[Standby].tl <= node'[Primary].tl
      BY <1>3, <2>2 DEF Copied, Node, Timeline
    <3> QED
      BY <1>2, <3>1 DEF TimelinesKept
  <2> QED
    BY <2>1, <2>2
<1>6. CASE used.lost
  BY <1>4, <1>5, <1>6 DEF CopyInv, MovesWriter
<1>7. CASE ~used.lost
  <2>1. CopiesKept
    BY <1>7 DEF CopyInv
  <2>2. CopiesKept' /\ (Moved!Step \/ LateReseed)
    BY <1>1, <1>3, <2>1, CycleCopies, SwapCopies
  <2> QED
    BY <1>4, <1>5, <1>7, <2>2 DEF CopyInv, MovesWriter
<1> QED
  BY <1>6, <1>7

\* A failover that gives up before the promote is sent.
LEMMA UndoCopies ==
  ASSUME Shared, Shared', Inv, CopyInv, Tame,
         NEW from \in {"capture", "replayed", "disarm", "arm", "journal"}, Undo(from)
  PROVE  CopyInv' /\ MovesWriter
<1> USE DEF FailoverPc, FencedAt, ProvenAt, RunsAt, AfterPromote
<1>1. ~run.unsent /\ pc = from
  BY DEF Inv, LocalsKept, FailoverKept, Undo, Goto
<1>2. \/ pc' = "idle"
      \/ pc' \in {"unfence", "startApp"} /\ run' = run /\ ~run.journaled
  BY <1>1 DEF Undo, UndoTo, Goto
<1>3. ~used.lost => run.planned /\ node[Standby].db
  BY <1>1 DEF CopyInv, ProofKept
<1>4. CASE pc' = "idle"
  BY <1>4, IdleTame
<1>5. CASE pc' \in {"unfence", "startApp"} /\ run' = run /\ ~run.journaled
  <2>1. pc' \in FailoverPc \ {"ready"}
    BY <1>5
  <2> QED
    BY <1>3, <1>5, <2>1, TameOfFailover
<1> QED
  BY <1>2, <1>4, <1>5

\* The proof of the standby's data, the arm and its undo.
LEMMA FailoverProveCopies ==
  ASSUME Shared, Shared', Inv, CopyInv, run \in Run,
         Capture \/ Replayed \/ Reseed \/ SwapReseed \/ ProveReseed \/ Arm \/ Disarm
  PROVE  CopyInv' /\ MovesWriter
<1> USE SharedFacts
<1> USE DEF FailoverPc, FencedAt, ProvenAt, RunsAt, AfterPromote
<1>1. CASE Capture
  <2>1. used'.lost = used.lost
    BY <1>1, NothingLost DEF Capture
  <2>2. Tame /\ pc = "capture"
    BY <1>1, <2>1, TameSets DEF Capture, Kept, Undo, Goto, Tame, TameNodes
  <2>3. CASE Undo("capture")
    BY <2>2, <2>3, UndoCopies
  <2>4. CASE ~Undo("capture")
    <3>1. pc' \in {"replayed", "reseed"} /\ run' = [run EXCEPT !.journal.lsn = TRUE]
      BY <1>1, <2>4 DEF Capture
    <3>2. run'.planned = run.planned /\ node' = node
      BY <1>1, <3>1 DEF Run, Capture, Kept
    <3>3. ~used.lost => run.planned /\ node[Standby].db /\ node[Primary].fence
      BY <2>2 DEF CopyInv, ProofKept
    <3>4. pc' \in FailoverPc \ {"ready"}
      BY <3>1
    <3> QED
      BY <2>2, <3>1, <3>2, <3>3, <3>4, TameOfFailover
  <2> QED
    BY <2>3, <2>4
<1>2. CASE Replayed
  <2>1. used'.lost = used.lost
    BY <1>2, NothingLost DEF Replayed
  <2>2. Tame /\ pc = "replayed"
    BY <1>2, <2>1, TameSets DEF Replayed, Kept, Undo, Goto, Tame, TameNodes
  <2>3. CASE Undo("replayed")
    BY <2>2, <2>3, UndoCopies
  <2>4. CASE ~Undo("replayed")
    <3>1. pc' = "arm" /\ run' = [run EXCEPT !.journal.proof = "caughtUp"] /\ CaughtUp
      BY <1>2, <2>4 DEF Replayed
    <3>2. run'.planned = run.planned /\ node' = node
      BY <1>2, <3>1 DEF Run, Replayed, Kept
    <3>3. ~used.lost => run.planned /\ node[Standby].db /\ node[Primary].fence
      BY <2>2 DEF CopyInv, ProofKept
    <3> QED
      BY <2>2, <3>1, <3>2, <3>3, TameOfFailover DEF CaughtUp
  <2> QED
    BY <2>3, <2>4
<1>3. CASE Reseed \/ SwapReseed \/ ProveReseed
  <2>1. ReseedCall /\ (cfg' = cfg \/ cfg' = [cfg EXCEPT !.known = TRUE])
    BY <1>3 DEF Reseed, SwapReseed, ProveReseed, ReseedCall
  <2>2. pc \in {"reseed", "reseedSwap", "reseedUp"}
    BY <1>3 DEF Reseed, SwapReseed, ProveReseed, Step, Undo, Goto
  <2>3. ~run.unsent
    BY <2>2 DEF Inv, LocalsKept, FailoverKept
  <2>4. \/ pc' = "idle"
        \/ pc' \in {"unfence", "startApp"} /\ run' = run /\ ~run.journaled
        \/ pc' = "reseedSwap" /\ run' = run
        \/ pc = "reseedSwap" /\ pc' = "reseedUp" /\ run' = run /\ SwapDirs
        \/ /\ pc = "reseedUp" /\ pc' = "arm" /\ StartReseeded
           /\ run' = [run EXCEPT !.journal.named = TRUE, !.journal.proof = "reseeded"]
    BY <1>3, <2>3 DEF Reseed, SwapReseed, ProveReseed, Step, Undo, UndoTo, Goto
  <2>5. /\ Primary' = Primary /\ Standby' = Standby
        /\ node'[Primary] = node[Primary]
    BY <2>1, ReseedKept
  <2>6. ASSUME ~used.lost
        PROVE  ProofKept'
    <3>1. /\ run.planned /\ node[Primary].fence
          /\ pc = "reseedUp" => node[Primary].data \subseteq node[Standby].data
      BY <2>2, <2>6 DEF CopyInv, ProofKept
    <3>2. pc' = "reseedUp" => node'[Standby].data = node[Primary].data
      BY <2>1, <2>4, ReseedFacts DEF Copied
    <3>3. pc' = "arm" => /\ node'[Standby].db
                         /\ node[Primary].data \subseteq node'[Standby].data
      BY <2>1, <2>4, <3>1, ReseedFacts DEF Cycled
    <3>4. pc' # "idle" => run'.planned = run.planned /\ run'.journaled = run.journaled
      BY <2>4 DEF Run
    <3> QED
      BY <2>4, <2>5, <3>1, <3>2, <3>3, <3>4 DEF ProofKept, AbortPc
  <2>7. Cycled \/ (Copied /\ (~Served \/ LateReseed))
    <3>1. CASE Reseed \/ ProveReseed
      BY <3>1, ReseedFacts, <2>1 DEF Reseed, ProveReseed
    <3>2. CASE SwapReseed
      <4>1. pc = "reseedSwap" /\ (SwapDirs \/ SwapFails)
        BY <3>2 DEF SwapReseed, Step, Undo, Goto
      <4>2. ~Served \/ LateReseed
        BY <4>1 DEF Inv, LocalsKept, FailoverKept, BeforeIssue, Served, LateReseed
      <4> QED
        BY <2>1, <4>1, <4>2, ReseedFacts
    <3> QED
      BY <1>3, <3>1, <3>2
  <2>8. pc' \notin SeedPc
    BY <2>4 DEF SeedPc
  <2> QED
    BY <2>1, <2>6, <2>7, <2>8, ReseedCopies
<1>4. CASE Arm
  <2>1. used'.lost = used.lost /\ TameNodes
    BY <1>4, NothingLost, TameSets, TameWrites DEF Arm
  <2>2. Tame /\ pc = "arm"
    BY <1>4, <2>1 DEF Arm, NotArmed, Undo, Step, Goto, Tame, TameNodes
  <2>3. CASE Undo("arm")
    BY <2>2, <2>3, UndoCopies
  <2>4. CASE pc' \in {"journal", "disarm"} /\ run' = run
    <3>1. ~used.lost => /\ run.planned /\ node[Standby].db /\ node[Primary].fence
                        /\ node[Primary].data \subseteq node[Standby].data
      BY <2>2 DEF CopyInv, ProofKept
    <3>2. node'[Primary].fence <=> node[Primary].fence
      <4>1. node'[Primary] = node[Primary]
        BY <1>4 DEF Arm, Set, Shared
      <4> QED
        BY <4>1
    <3>3. pc' \in FailoverPc \ {"ready"}
      BY <2>4
    <3> QED
      BY <2>2, <2>4, <3>1, <3>2, <3>3, TameOfFailover
  <2> QED
    BY <1>4, <2>3, <2>4 DEF Arm, NotArmed, Step, Goto
<1>5. CASE Disarm
  <2>1. used'.lost = used.lost /\ TameNodes
    BY <1>5, NothingLost, TameSets, TameWrites DEF Disarm
  <2>2. Tame
    BY <1>5, <2>1 DEF Disarm, Tame, TameNodes
  <2> QED
    BY <1>5, <2>2, UndoCopies DEF Disarm
<1> QED
  BY <1>1, <1>2, <1>3, <1>4, <1>5

\* Once a server was lost only the timelines are left to show.
LEMMA LostKept ==
  ASSUME Shared, CopyInv, used.lost, used'.lost, pc' \notin SeedPc,
         cfg'.primary = cfg.primary,
         \A s \in Side : node'[s].rec = node[s].rec /\ node'[s].tl = node[s].tl
  PROVE  CopyInv' /\ MovesWriter
<1>1. Primary' = Primary /\ Standby' = Standby
  BY RolesStay
<1> QED
  BY <1>1, SharedFacts DEF CopyInv, TimelinesKept, MovesWriter

\* A step that leaves what makes a writer, and the data, leaves the writers.
LEMMA SameWriters ==
  ASSUME \A s \in Side : /\ node'[s].net = node[s].net /\ node'[s].db = node[s].db
                         /\ node'[s].rec = node[s].rec /\ node'[s].fence = node[s].fence
                         /\ node'[s].retired = node[s].retired /\ node'[s].app = node[s].app
                         /\ node'[s].data = node[s].data
  PROVE  Moved!Step
<1>1. \A s \in Side : Writes(s)' <=> Writes(s)
  BY DEF Writes, TakesWrites, Running
<1>2. Writers' = Writers /\ Holdings' = Holdings
  BY <1>1 DEF Writers, Holdings
<1> QED
  BY <1>2 DEF Moved!Step, Writers, Holdings

\* The journal and the promote.
LEMMA FailoverPromoteCopies ==
  ASSUME Shared, Shared', Inv, CopyInv, run \in Run,
         WriteJournal \/ ReadBeforePromote \/ IssuePromote \/ Poll \/ HoldOld
  PROVE  CopyInv' /\ MovesWriter
<1> USE SharedFacts
<1> USE DEF FailoverPc, SeedPc, FencedAt, ProvenAt, RunsAt, AfterPromote
<1>1. CASE WriteJournal
  <2>1. /\ pc = "journal" /\ cfg'.primary = cfg.primary /\ used'.lost = used.lost
        /\ node' = node
    BY <1>1, NothingLost
       DEF WriteJournal, NotArmed, Undo, Step, Goto, Saved, SaveFailed, Shared, Config
  <2>2. CASE used.lost
    <3>1. pc' \notin SeedPc
      BY <1>1 DEF WriteJournal, NotArmed, Undo, UndoTo, Step, Goto, SeedPc
    <3> QED
      BY <2>1, <2>2, <3>1, LostKept
  <2>3. CASE ~used.lost
    <3>1. /\ CopiesKept /\ run.planned /\ node[Standby].db /\ node[Primary].fence
          /\ node[Primary].data \subseteq node[Standby].data
      BY <2>1, <2>3 DEF CopyInv, ProofKept
    <3>2. CASE cfg' = cfg
      <4>1. Tame
        BY <2>1, <3>2, TameSets DEF Tame, TameNodes
      <4>2. CASE Undo("journal")
        BY <4>1, <4>2, UndoCopies
      <4>3. CASE pc' \in {"send", "disarm"} /\ run' = run
        <5>1. pc' \in FailoverPc \ {"ready"}
          BY <4>3
        <5> QED
          BY <2>1, <3>1, <4>1, <4>3, <5>1, TameOfFailover
      <4> QED
        BY <1>1, <4>2, <4>3 DEF WriteJournal, NotArmed, Step, Goto
    <3>3. CASE cfg' # cfg
      <4>1. /\ cfg' = [cfg EXCEPT !.journal = run.journal]
            /\ pc' = "send" /\ run' = run
        BY <1>1, <3>3 DEF WriteJournal, Saved, SaveFailed, Step, Goto
      <4>2. cfg'.journal # None
        BY <4>1, NoneAssumption DEF Shared, Config, Run
      <4>3. Primary' = Primary /\ Standby' = Standby
        BY <2>1, RolesStay
      <4>4. CopiesKept'
        <5>1. ~Served' => ~Served
          BY <2>1, <4>2, <4>3 DEF Served
        <5> QED
          BY <2>1, <3>1, <4>2, <4>3, <5>1 DEF CopiesKept
      <4>5. ProofKept'
        BY <2>1, <3>1, <4>1, <4>3 DEF ProofKept, AbortPc
      <4>6. TimelinesKept'
        BY <2>1, <4>1, <4>3 DEF CopyInv, TimelinesKept
      <4> QED
        BY <2>1, <4>4, <4>5, <4>6, SameWriters DEF CopyInv, MovesWriter
    <3> QED
      BY <3>2, <3>3
  <2> QED
    BY <2>2, <2>3
<1>2. CASE ReadBeforePromote
  <2>1. used'.lost = used.lost
    BY <1>2, NothingLost DEF ReadBeforePromote
  <2>2. Tame /\ pc = "send" /\ node' = node
    BY <1>2, <2>1, TameSets DEF ReadBeforePromote, Kept, Tame, TameNodes
  <2>3. ~used.lost => /\ run.planned /\ node[Standby].db /\ node[Primary].fence
                      /\ node[Primary].data \subseteq node[Standby].data
    BY <2>2 DEF CopyInv, ProofKept
  <2>4. \/ pc' = "idle"
        \/ pc' \in {"issue", "holdOld"} /\ run' = run
        \/ /\ pc' \in {"unfence", "clear"} /\ ~run.journaled
           /\ run' = [run EXCEPT !.unsent = TRUE]
    BY <1>2 DEF ReadBeforePromote, Step, Exit, Goto
  <2>5. CASE pc' = "idle"
    BY <2>2, <2>5, IdleTame
  <2>6. CASE pc' # "idle"
    <3>1. run'.planned = run.planned /\ run'.journaled = run.journaled
      BY <2>4, <2>6 DEF Run
    <3>2. pc' \in FailoverPc \ {"ready"}
      BY <2>4, <2>6
    <3> QED
      BY <2>2, <2>3, <2>4, <2>6, <3>1, <3>2, TameOfFailover
  <2> QED
    BY <2>5, <2>6
<1>3. CASE IssuePromote
  <2>1. /\ pc = "issue" /\ pc' = "poll" /\ run' = run /\ cfg' = cfg
        /\ used'.lost = used.lost
    BY <1>3, NothingLost DEF IssuePromote, Step, Goto
  <2>2. Primary' = Primary /\ Standby' = Standby
    BY <2>1, RolesStay
  <2>3. /\ node'[Primary] = node[Primary]
        /\ node'[Standby] \in {node[Standby], Promoting(Standby)}
    BY <1>3 DEF IssuePromote, Call, Set, Shared
  <2>4. /\ node'[Standby].net = node[Standby].net /\ node'[Standby].db = node[Standby].db
        /\ node'[Standby].rec = node[Standby].rec /\ node'[Standby].fence = node[Standby].fence
        /\ node'[Standby].retired = node[Standby].retired
        /\ node'[Standby].app = node[Standby].app
        /\ node'[Standby].data = node[Standby].data /\ node'[Standby].tl = node[Standby].tl
    BY <2>3 DEF Promoting, Node
  <2>5. CASE used.lost
    <3>1. \A s \in Side : node'[s].rec = node[s].rec /\ node'[s].tl = node[s].tl
      BY <2>3, <2>4
    <3> QED
      BY <2>1, <2>5, <3>1, LostKept
  <2>6. CASE ~used.lost
    <3>1. /\ CopiesKept /\ run.planned /\ node[Standby].db /\ node[Primary].fence
          /\ node[Primary].data \subseteq node[Standby].data
      BY <2>1, <2>6 DEF CopyInv, ProofKept
    <3>2. Served' = Served
      BY <2>1, <2>2, <2>4 DEF Served
    <3>3. CopiesKept'
      BY <2>1, <2>2, <2>3, <2>4, <3>1, <3>2 DEF CopiesKept
    <3>4. cfg.journal # None
      BY <2>1 DEF Inv, LocalsKept, FailoverKept
    <3>5. ProofKept'
      BY <2>1, <2>2, <2>3, <2>4, <3>1, <3>4 DEF ProofKept, AbortPc
    <3>6. TimelinesKept'
      BY <2>1, <2>2, <2>3, <2>4 DEF CopyInv, TimelinesKept
    <3>7. Moved!Step
      BY <2>3, <2>4, SameWriters
    <3> QED
      BY <2>1, <3>3, <3>5, <3>6, <3>7 DEF CopyInv, MovesWriter
  <2> QED
    BY <2>5, <2>6
<1>4. CASE Poll
  <2>1. used'.lost = used.lost
    BY <1>4, NothingLost DEF Poll
  <2>2. Tame /\ pc = "poll"
    BY <1>4, <2>1, TameSets DEF Poll, Kept, Tame, TameNodes
  <2>3. ~used.lost => run.planned /\ node[Standby].db /\ cfg.journal # None
    BY <2>2 DEF CopyInv, ProofKept
  <2>4. pc' = "idle" \/ (pc' \in {"restart", "holdOld"} /\ run' = run)
    BY <1>4 DEF Poll, Step, Exit, Goto
  <2>5. CASE pc' = "idle"
    BY <2>2, <2>5, IdleTame
  <2>6. CASE pc' # "idle"
    <3>1. pc' \in FailoverPc \ {"ready"}
      BY <2>4, <2>6
    <3> QED
      BY <2>2, <2>3, <2>4, <2>6, <3>1, TameOfFailover
  <2> QED
    BY <2>5, <2>6
<1>5. CASE HoldOld
  <2>1. used'.lost = used.lost /\ TameNodes /\ cfg' = cfg /\ pc' = "idle"
    BY <1>5, NothingLost, TameSets, TameWrites DEF HoldOld, Exit, Goto
  <2> QED
    BY <2>1, IdleTame DEF Tame, TameNodes
<1> QED
  BY <1>1, <1>2, <1>3, <1>4, <1>5

\* What a promote that was not sent undoes.
LEMMA FailoverUndoCopies ==
  ASSUME Shared, Shared', Inv, CopyInv, run \in Run, Unfence \/ StartApp \/ ClearJournal
  PROVE  CopyInv' /\ MovesWriter
<1> USE SharedFacts
<1> USE DEF FailoverPc, SeedPc, FencedAt, ProvenAt, RunsAt, AfterPromote
<1>1. ASSUME pc \in {"unfence", "startApp", "clear"}, ~used.lost
      PROVE  /\ node[Standby].rec /\ Idle
             /\ ~run.journaled /\ run.planned
  <2>1. ~run.journaled /\ run.planned
    BY <1>1 DEF CopyInv, ProofKept, Inv, LocalsKept, FailoverKept
  <2> QED
    BY <1>1, <2>1 DEF Inv, LocalsKept, FailoverKept, BeforeIssue, Idle, Served
<1>2. CASE Unfence
  <2>1. /\ pc = "unfence" /\ used'.lost = used.lost
        /\ cfg'.primary = cfg.primary /\ cfg'.journal = cfg.journal
        /\ pc' \in {"startApp", "clear", "idle"}
        /\ pc' # "idle" => run' = run
    BY <1>2, NothingLost
       DEF Unfence, AfterUndo, Step, Goto, Saved, SaveFailed, Shared, Config
  <2>2. node' = node \/ Set(Primary, Unfenced(Primary))
    BY <1>2 DEF Unfence
  <2>3. CASE used.lost
    <3>1. \A s \in Side : node'[s].rec = node[s].rec /\ node'[s].tl = node[s].tl
      BY <2>2 DEF Set, Unfenced, Node, Shared
    <3> QED
      BY <2>1, <2>3, <3>1, LostKept
  <2>4. CASE ~used.lost
    <3>1. Tame
      BY <1>1, <2>1, <2>2, <2>4, TameSets, TameWrites DEF Tame, TameNodes
    <3> QED
      BY <1>1, <2>1, <2>4, <3>1, IdleTame, TameOfFailover
  <2> QED
    BY <2>3, <2>4
<1>3. CASE StartApp
  <2>1. /\ pc = "startApp" /\ used'.lost = used.lost /\ TameNodes /\ cfg' = cfg
        /\ pc' \in {"clear", "idle"} /\ (pc' # "idle" => run' = run)
    BY <1>3, NothingLost, TameSets, TameWrites DEF StartApp, AfterUndo, Goto
  <2>2. Tame
    BY <2>1 DEF Tame, TameNodes
  <2> QED
    BY <1>1, <2>1, <2>2, IdleTame, TameOfFailover
<1>4. CASE ClearJournal
  <2>1. /\ pc = "clear" /\ pc' = "idle" /\ used'.lost = used.lost /\ node' = node
        /\ cfg'.primary = cfg.primary
        /\ cfg' = cfg \/ cfg'.journal = None
    BY <1>4, NothingLost
       DEF ClearJournal, Exit, Goto, Save, Saved, SaveFailed, Shared, Config
  <2>2. CASE used.lost
    BY <2>1, <2>2, LostKept
  <2>3. CASE ~used.lost
    <3>1. Primary' = Primary /\ Standby' = Standby
      BY <2>1, RolesStay
    <3>2. CopiesKept /\ node[Standby].rec /\ ~node[Standby].pending
      BY <1>1, <2>1, <2>3 DEF CopyInv, Idle
    <3>3. ~Served /\ ~Served'
      BY <2>1, <3>1, <3>2 DEF Served
    <3>4. CopiesKept'
      BY <2>1, <3>1, <3>2, <3>3 DEF CopiesKept
    <3>5. ProofKept' /\ TimelinesKept'
      BY <2>1, <3>1 DEF ProofKept, AbortPc, CopyInv, TimelinesKept
    <3> QED
      BY <2>1, <3>4, <3>5, SameWriters DEF CopyInv, MovesWriter
  <2> QED
    BY <2>2, <2>3
<1> QED
  BY <1>2, <1>3, <1>4

\* The promoted standby is put in service: the roles swap, and what was the
\* primary is the fenced copy.
LEMMA FailoverSwapCopies ==
  ASSUME Shared, Shared', Inv, CopyInv, run \in Run,
         RestartApp \/ StopOld \/ Demote \/ FlipDns \/ SwapRoles \/ RetireOld
  PROVE  CopyInv' /\ MovesWriter
<1> USE SharedFacts
<1> USE DEF FailoverPc, SeedPc, FencedAt, ProvenAt, RunsAt, AfterPromote
<1>1. CASE RestartApp \/ StopOld \/ Demote \/ FlipDns
  <2>1. /\ pc \in AfterPromote /\ pc' \in {"stopOld", "demote", "flip", "swap"}
        /\ run' = run /\ cfg' = cfg /\ used'.lost = used.lost
    BY <1>1, NothingLost DEF RestartApp, StopOld, Demote, FlipDns, Step, Goto
  <2>2. TameNodes
    BY <1>1, TameSets, TameWrites DEF RestartApp, StopOld, Demote, FlipDns
  <2>3. Tame
    BY <2>1, <2>2 DEF Tame, TameNodes
  <2>4. ~used.lost => run.planned /\ node[Standby].db /\ cfg.journal # None
    BY <2>1 DEF CopyInv, ProofKept
  <2> QED
    BY <2>1, <2>3, <2>4, TameOfFailover
<1>2. CASE SwapRoles
  <2>1. /\ pc = "swap" /\ pc' \in {"retire", "idle"} /\ used'.lost = used.lost
        /\ node' = node /\ ~node[Standby].rec /\ ~node[Primary].rec /\ ~node[Primary].pending
    BY <1>2, NothingLost
       DEF SwapRoles, Exit, Goto, Inv, PairKept, LocalsKept, FailoverKept
  <2>2. CASE cfg' = cfg
    <3>1. Tame
      BY <2>1, <2>2, TameSets DEF Tame, TameNodes
    <3>2. CASE pc' = "idle"
      BY <3>1, <3>2, IdleTame
    <3>3. CASE pc' = "retire"
      <4>1. ~used.lost => run.planned /\ node[Standby].db
        BY <2>1 DEF CopyInv, ProofKept
      <4>2. run' = run
        BY <1>2, <3>3 DEF SwapRoles, Exit, Goto
      <4> QED
        BY <3>1, <3>3, <4>1, <4>2, TameOfFailover
    <3> QED
      BY <2>1, <3>2, <3>3
  <2>3. CASE cfg' # cfg
    <3>1. /\ cfg'.primary = Standby /\ cfg'.journal = None
          /\ pc' = "retire" /\ run' = run
      BY <1>2, <2>3 DEF SwapRoles, Saved, SaveFailed, Shared, Config
    <3>2. Primary' = Standby /\ Standby' = Primary
      BY <3>1, Servers DEF Primary, Standby
    <3>3. ~Served'
      BY <3>1 DEF Served
    <3>4. TimelinesKept'
      BY <2>1, <3>1, <3>2 DEF TimelinesKept
    <3>5. CASE used.lost
      BY <2>1, <3>4, <3>5 DEF CopyInv, MovesWriter
    <3>6. CASE ~used.lost
      <4>1. CopiesKept /\ run.planned /\ node[Standby].db /\ Served
        BY <2>1, <3>6 DEF CopyInv, ProofKept, Served
      <4>2. CopiesKept'
        BY <2>1, <3>1, <3>2, <3>3, <4>1 DEF CopiesKept
      <4>3. node[Primary].db
        BY <4>1 DEF CopiesKept
      <4>4. ProofKept'
        BY <2>1, <3>1, <3>2, <4>1, <4>3 DEF ProofKept, AbortPc
      <4> QED
        BY <2>1, <3>4, <4>2, <4>4, SameWriters DEF CopyInv, MovesWriter
    <3> QED
      BY <3>5, <3>6
  <2> QED
    BY <2>2, <2>3
<1>3. CASE RetireOld
  <2>1. used'.lost = used.lost /\ TameNodes /\ cfg' = cfg /\ pc' = "idle"
    BY <1>3, NothingLost, TameSets DEF RetireOld, Exit, Goto
  <2> QED
    BY <2>1, IdleTame DEF Tame, TameNodes
<1> QED
  BY <1>1, <1>2, <1>3

-----------------------------------------------------------------------------
(* The copies under an abort.                                              *)

\* A tame step of an abort leaves the replica it goes on with.
LEMMA TameOfAbort ==
  ASSUME Shared, Shared', CopyInv, Tame, pc' \in AbortPc \cup {"idle"},
         ~used.lost /\ pc' \in AbortPc \ {"lineage", "stopDb"} => node[Standby].rec
  PROVE  CopyInv' /\ MovesWriter
<1>1. /\ pc' \notin SeedPc \cup FailoverPc \cup FencedAt \cup ProvenAt \cup RunsAt
      /\ pc' \notin AfterPromote
  BY DEF SeedPc, FailoverPc, FencedAt, ProvenAt, RunsAt, AfterPromote, AbortPc
<1>2. ASSUME ~used.lost
      PROVE  ProofKept'
  BY <1>1, <1>2, TameCopies DEF ProofKept, SameCopy, FailoverPc
<1> QED
  BY <1>1, <1>2, TameKept

\* An abort gives up a promoted copy, or goes on with a replica that no promote
\* can land on any more.
LEMMA AbortStepCopies ==
  ASSUME Shared, Shared', Inv, CopyInv, run \in Run, AbortStep
  PROVE  CopyInv' /\ MovesWriter
<1> USE SharedFacts
<1> USE DEF AbortPc, SeedPc
<1>1. CASE ReadLineage
  <2>1. used'.lost = used.lost
    BY <1>1, NothingLost DEF ReadLineage
  <2>2. Tame /\ pc' = "stopDb"
    BY <1>1, <2>1, TameSets DEF ReadLineage, Goto, Kept, Tame, TameNodes
  <2> QED
    BY <2>2, IdleTame
<1>2. CASE StopStandbyDb
  <2>1. pc = "stopDb" /\ pc' \in {"calledOff", "idle"} /\ cfg' = cfg
    BY <1>2 DEF StopStandbyDb, Exit, Goto
  <2>2. Primary' = Primary /\ Standby' = Standby
    BY <2>1, RolesStay
  <2>3. /\ node'[Primary] = node[Primary]
        /\ node'[Standby] \in {node[Standby], DbStopped(Standby)}
    BY <1>2 DEF StopStandbyDb, Set, Shared
  <2>4. /\ node'[Standby].net = node[Standby].net /\ node'[Standby].rec = node[Standby].rec
        /\ node'[Standby].data = node[Standby].data /\ node'[Standby].tl = node[Standby].tl
        /\ node'[Standby].fence = node[Standby].fence
        /\ node'[Standby].pending => node[Standby].pending
    BY <2>3 DEF DbStopped, Node
  <2>5. TimelinesKept'
    BY <2>1, <2>2, <2>3, <2>4 DEF CopyInv, TimelinesKept
  <2>6. used.lost => used'.lost
    BY <1>2, NothingLost DEF StopStandbyDb, GivesUp, Shared, UsedType
  <2>7. CASE used'.lost
    BY <2>5, <2>7 DEF CopyInv, MovesWriter
  <2>8. CASE ~used'.lost
    <3>1. CopiesKept
      BY <2>6, <2>8 DEF CopyInv
    <3>2. pc' = "calledOff" => node[Standby].rec
      BY <1>2, <2>8 DEF StopStandbyDb, GivesUp, Exit, Goto, Shared, UsedType
    <3>3. Served' = Served /\ Server' = Server
      BY <2>1, <2>2, <2>4 DEF Served, Server
    <3>4. CopiesKept'
      BY <2>1, <2>2, <2>3, <2>4, <3>1, <3>3 DEF CopiesKept
    <3>5. ProofKept'
      BY <2>1, <2>2, <2>4, <3>2
         DEF ProofKept, FailoverPc, FencedAt, ProvenAt, RunsAt, AfterPromote
    <3>6. Writers \subseteq {Server} /\ \A t \in Side : node[t].data \subseteq node[Server].data
      BY <3>1, OneServes
    <3>7. Writers' \subseteq {Server'}
      BY <3>4, OneServesNext
    <3>8. Server \in Side
      BY DEF Server
    <3>9. Holdings' = Holdings /\ \A t \in Side : Holdings[t] \subseteq Holdings[Server]
      <4>1. \A s \in Side : node'[s].data = node[s].data
        BY <2>3, <2>4
      <4> QED
        BY <3>6, <3>8, <4>1 DEF Holdings
    <3>10. Moved!Step
      BY <3>3, <3>6, <3>7, <3>9, <3>8, WriterStep
    <3> QED
      BY <2>5, <3>4, <3>5, <3>10 DEF CopyInv, MovesWriter
  <2> QED
    BY <2>7, <2>8
<1>3. CASE DisarmStandby \/ RepointDns \/ ArmPrimary \/ StartPrimaryWriters
  <2>1. /\ pc \in AbortPc \ {"lineage", "stopDb"} /\ pc' \in AbortPc /\ cfg' = cfg
        /\ used'.lost = used.lost
    BY <1>3, NothingLost
       DEF DisarmStandby, RepointDns, ArmPrimary, StartPrimaryWriters, Step, Goto
  <2>2. TameNodes
    BY <1>3, TameSets, TameWrites
       DEF DisarmStandby, RepointDns, ArmPrimary, StartPrimaryWriters
  <2>3. Tame
    BY <2>1, <2>2 DEF Tame, TameNodes
  <2>4. ~used.lost => node[Standby].rec
    BY <2>1 DEF CopyInv, ProofKept
  <2> QED
    BY <2>1, <2>3, <2>4, TameOfAbort
<1>4. CASE UnfencePrimary
  <2>1. /\ pc = "reach" /\ pc' \in {"rearm", "record"} /\ cfg' = cfg
        /\ used'.lost = used.lost
        /\ node' = node \/ Set(Primary, Unfenced(Primary))
    BY <1>4, NothingLost DEF UnfencePrimary, Step, Goto
  <2>2. CASE used.lost
    <3>1. \A s \in Side : node'[s].rec = node[s].rec /\ node'[s].tl = node[s].tl
      BY <2>1 DEF Set, Unfenced, Node, Shared
    <3> QED
      BY <2>1, <2>2, <3>1, LostKept
  <2>3. CASE ~used.lost
    <3>1. node[Standby].rec /\ Idle
      BY <2>1, <2>3 DEF CopyInv, ProofKept, Inv, LocalsKept, AbortKept, Idle, Served
    <3>2. Tame
      BY <2>1, <3>1, TameSets, TameWrites DEF Tame, TameNodes
    <3> QED
      BY <2>1, <3>1, <3>2, TameOfAbort
  <2> QED
    BY <2>2, <2>3
<1>5. CASE RecordAbort
  <2>1. /\ pc = "record" /\ pc' = "idle" /\ used'.lost = used.lost /\ node' = node
        /\ cfg'.primary = cfg.primary
        /\ cfg' = cfg \/ cfg'.journal = None
    BY <1>5, NothingLost
       DEF RecordAbort, Exit, Goto, Save, Saved, SaveFailed, Shared, Config
  <2>2. CASE used.lost
    BY <2>1, <2>2, LostKept
  <2>3. CASE ~used.lost
    <3>1. Primary' = Primary /\ Standby' = Standby
      BY <2>1, RolesStay
    <3>2. CopiesKept /\ node[Standby].rec /\ ~node[Standby].pending
      BY <2>1, <2>3 DEF CopyInv, ProofKept, Inv, LocalsKept, AbortKept
    <3>3. ~Served /\ ~Served'
      BY <2>1, <3>1, <3>2 DEF Served
    <3>4. CopiesKept'
      BY <2>1, <3>1, <3>2, <3>3 DEF CopiesKept
    <3>5. ProofKept' /\ TimelinesKept'
      BY <2>1, <3>1
         DEF ProofKept, CopyInv, TimelinesKept, FailoverPc, FencedAt, ProvenAt, RunsAt, AfterPromote
    <3> QED
      BY <2>1, <3>4, <3>5, SameWriters DEF CopyInv, MovesWriter
  <2> QED
    BY <2>2, <2>3
<1> QED
  BY <1>1, <1>2, <1>3, <1>4, <1>5 DEF AbortStep

-----------------------------------------------------------------------------
(* The copies under a deploy.                                              *)

\* What a deploy does to the two stacks.
LEMMA DeployStacksTame ==
  ASSUME Shared, WriteRoles \/ StartStacks \/ ReconvergeStacks \/ StartRebuilt \/ ClearRetired
  PROVE  TameNodes
<1> USE SharedFacts
<1>1. CASE WriteRoles
  <2>1. \A s \in Side : TameNode(s, node[s]) /\ TameNode(s, Roled(s))
    BY TameWrites DEF Roled
  <2> QED
    BY <1>1, <2>1 DEF WriteRoles, TameNodes
<1>2. CASE StartStacks
  <2>1. \A s \in Side : TameNode(s, node[s]) /\ TameNode(s, StackUp(s))
    BY TameWrites
  <2> QED
    BY <1>2, <2>1 DEF StartStacks, TameNodes
<1>3. CASE ReconvergeStacks
  <2>1. ASSUME NEW n, TameNode(Standby, n),
               node' = [s \in Side |-> IF s = Primary THEN StackUp(s) ELSE n]
        PROVE  TameNodes
    <3>1. node'[Primary] = StackUp(Primary) /\ node'[Standby] = n
      BY <2>1
    <3> QED
      BY <2>1, <3>1, TameWrites DEF TameNodes
  <2>2. /\ TameNode(Standby, node[Standby]) /\ TameNode(Standby, StackUp(Standby))
        /\ TameNode(Standby, Retired(Standby))
        /\ \A n \in PartsRetired(Standby) : TameNode(Standby, n)
    BY TameWrites
  <2>3. CASE \E n \in IF DbAnswers(Standby) /\ node[Standby].rec
                      THEN {node[Standby], StackUp(Standby)} ELSE PartsRetired(Standby) :
               \/ node' = [s \in Side |-> IF s = Primary THEN StackUp(s) ELSE n]
               \/ Set(Standby, n)
    <3>1. PICK n : /\ TameNode(Standby, n)
                   /\ \/ node' = [s \in Side |-> IF s = Primary THEN StackUp(s) ELSE n]
                      \/ Set(Standby, n)
      BY <2>2, <2>3
    <3> QED
      BY <2>1, <3>1, TameSets
  <2>4. CASE \/ node' = [s \in Side |-> IF s = Primary THEN StackUp(s) ELSE StackUp(Standby)]
             \/ node' = [s \in Side |-> IF s = Primary THEN StackUp(s) ELSE Retired(Standby)]
    BY <2>1, <2>2, <2>4
  <2> QED
    BY <1>3, <2>3, <2>4 DEF ReconvergeStacks
<1>4. CASE StartRebuilt \/ ClearRetired
  BY <1>4, TameSets, TameWrites DEF StartRebuilt, ClearRetired
<1> QED
  BY <1>1, <1>2, <1>3, <1>4

\* The steps of a deploy that overwrite no copy.
LEMMA DeployTame ==
  ASSUME Shared, Inv, DeployStep, ~GuardReseed, ~DeployReseed
  PROVE  Tame /\ pc' \in {"idle"} \cup (DeployPc \ SeedPc)
<1> USE SharedFacts
<1> USE DEF DeployPc, SeedPc
<1>1. CASE LiftAtDeploy
  <2>1. Tame
    BY <1>1, LiftTame DEF LiftAtDeploy
  <2>2. pc' = AfterLift
    BY <1>1 DEF LiftAtDeploy, LiftStranded, Goto
  <2> QED
    BY <2>1, <2>2 DEF AfterLift
<1>2. CASE Refence
  BY <1>2, NothingLost, TameSets DEF Refence, Step, Goto, Tame, TameNodes
<1>3. CASE WriteRoles \/ StartStacks \/ ReconvergeStacks \/ StartRebuilt \/ ClearRetired
  <2>1. TameNodes
    BY <1>3, DeployStacksTame
  <2>2. cfg' = cfg /\ used'.lost = used.lost
    BY <1>3, NothingLost
       DEF WriteRoles, StartStacks, ReconvergeStacks, StartRebuilt, ClearRetired
  <2>3. pc' \in {"idle", "stacks", "probe", "rebuild", "verify", "finalize"}
    BY <1>3 DEF WriteRoles, StartStacks, ReconvergeStacks, StartRebuilt, ClearRetired,
                Step, Exit, Goto
  <2> QED
    BY <2>1, <2>2, <2>3 DEF Tame, TameNodes
<1>4. CASE AssertReady \/ ProbeStreaming \/ PlanRebuild \/ VerifyStreaming \/ ReadIdentifier
  <2>1. node' = node /\ cfg' = cfg /\ used'.lost = used.lost
    BY <1>4, NothingLost
       DEF AssertReady, ProbeStreaming, PlanRebuild, VerifyStreaming, ReadIdentifier, Kept
  <2>2. pc' \in {"idle"} \cup (DeployPc \ SeedPc)
    BY <1>4 DEF AssertReady, ProbeStreaming, PlanRebuild, VerifyStreaming, ReadIdentifier,
                Step, Exit, Goto
  <2> QED
    BY <2>1, <2>2, TameSets DEF Tame, TameNodes
<1>5. CASE ForgetDiscarded("forget") \/ ForgetDiscarded("forgetSeed") \/ FinalizeConfig \/ FinalSave
  <2>1. /\ node' = node /\ used'.lost = used.lost
        /\ cfg'.primary = cfg.primary /\ cfg'.journal = cfg.journal
    BY <1>5, NothingLost
       DEF ForgetDiscarded, FinalizeConfig, FinalSave, Save, Saved, SaveFailed, Shared, Config
  <2>2. pc' \in {"idle", "verify", "writable"}
    BY <1>5 DEF ForgetDiscarded, FinalizeConfig, FinalSave, Step, Exit, Goto
  <2> QED
    BY <2>1, <2>2, TameSets DEF Tame, TameNodes
<1>6. CASE AssertWritable
  <2>1. /\ pc = "writable" /\ pc' \in {"save", "idle"} /\ used'.lost = used.lost
        /\ cfg'.primary = cfg.primary /\ cfg'.journal = cfg.journal
        /\ node' = node \/ Set(Primary, Unfenced(Primary))
    BY <1>6, NothingLost
       DEF AssertWritable, Step, Exit, Goto, Saved, SaveFailed, Shared, Config
  <2>2. Idle
    BY <2>1 DEF Inv, PairKept, LocalsKept, DeployKept, Idle, Served
  <2> QED
    BY <2>1, <2>2, TameSets, TameWrites DEF Tame, TameNodes
<1> QED
  BY <1>1, <1>2, <1>3, <1>4, <1>5, <1>6 DEF DeployStep, DeployReseed

\* A deploy overwrites a copy that is no newer, while the primary has everything.
LEMMA DeployStepCopies ==
  ASSUME Shared, Shared', Inv, CopyInv, run \in Run, DeployStep
  PROVE  CopyInv' /\ MovesWriter
<1> USE SharedFacts
<1>1. CASE GuardReseed
  <2>1. used'.lost = used.lost
    BY <1>1, NothingLost DEF GuardReseed
  <2>2. Tame /\ node' = node /\ cfg' = cfg /\ pc' \in {"seed", "idle"}
    BY <1>1, <2>1, TameSets DEF GuardReseed, Step, Exit, Goto, Kept, Tame, TameNodes
  <2>3. Primary' = Primary /\ Standby' = Standby
    BY <2>2, RolesStay
  <2>4. pc' \in SeedPc =>
          node[Standby].tl <= node[Primary].tl \/ cfg.discard = CopyOf(Standby)
    BY <1>1 DEF GuardReseed, Exit, Goto, Overwritable, NotNewer, CopyInv, TimelinesKept, SeedPc
  <2>5. pc' \in SeedPc =>
          node'[Standby].tl <= node'[Primary].tl \/ cfg'.discard = CopyOf(Standby)'
    BY <2>2, <2>3, <2>4 DEF CopyOf
  <2>6. ProofKept'
    BY <2>2 DEF ProofKept, FailoverPc, AbortPc, FencedAt, ProvenAt, RunsAt, AfterPromote
  <2> QED
    BY <2>2, <2>5, <2>6, TameKept
<1>2. CASE DeployReseed
  <2>1. ReseedCall /\ cfg' = cfg
    BY <1>2 DEF DeployReseed, SeedStandby, SwapSeed, StartSeeded, ReseedRetired, SwapRetired,
                StartReplaced, ReseedCall
  <2>2. pc \in DeployPc /\ pc' \in DeployPc
    BY <1>2 DEF DeployReseed, SeedStandby, SwapSeed, StartSeeded, ReseedRetired, SwapRetired,
                StartReplaced, Step, Goto, DeployPc
  <2>3. ~Served
    BY <2>2 DEF Inv, LocalsKept, DeployKept, Served
  <2>4. ProofKept'
    BY <2>2 DEF ProofKept, DeployPc, FailoverPc, AbortPc, FencedAt, ProvenAt, RunsAt, AfterPromote
  <2>5. pc' \in SeedPc => pc \in SeedPc
    BY <1>2 DEF DeployReseed, SeedStandby, SwapSeed, StartSeeded, ReseedRetired, SwapRetired,
                StartReplaced, Step, Goto, SeedPc
  <2>6. Cycled \/ Copied
    BY <2>1, ReseedFacts DEF ReseedCall
  <2> QED
    BY <2>1, <2>6, <2>3, <2>4, <2>5, ReseedCopies
<1>3. CASE ~GuardReseed /\ ~DeployReseed
  BY <1>3, DeployTame, IdleTame
<1> QED
  BY <1>1, <1>2, <1>3

-----------------------------------------------------------------------------
(* The theorems on the copies.                                             *)

\* A deployed pair has one writer, and its copies are as they should be.
LEMMA InitCopies == Init => CopyInv /\ Moved!Init
<1> SUFFICES ASSUME Init
             PROVE  CopyInv /\ Moved!Init
  OBVIOUS
<1>1. PICK p \in Side, b \in Births :
        /\ node = [s \in Side |-> IF s = p THEN Deployed(p)
                                  ELSE [Deployed(p) EXCEPT !.rec = TRUE, !.role = "standby"]]
        /\ link = TRUE /\ dns = p
        /\ cfg = [primary |-> p, birth |-> IF b = "born" THEN p ELSE Other(p),
                  journal |-> None, marker |-> None, known |-> TRUE,
                  degraded |-> FALSE, swapped |-> FALSE, discard |-> None]
        /\ pc = "idle" /\ run = NoRun
        /\ used = [runs |-> 0, faults |-> 0, crashes |-> 0, lost |-> FALSE]
  BY DEF Init, InitPair
<1>2. Primary = p /\ Standby \in Side /\ Standby # p
  BY <1>1, Servers DEF Primary, Standby
<1>3. \A s \in Side : /\ node[s].net = "up" /\ node[s].db /\ node[s].app
                      /\ ~node[s].fence /\ ~node[s].retired /\ ~node[s].pending
                      /\ node[s].tl = 1 /\ node[s].data = {}
                      /\ node[s].rec <=> s # p
  BY <1>1 DEF Deployed
<1>4. ~Served
  BY <1>2, <1>3 DEF Served
<1>5. TimelinesKept /\ CopiesKept
  <2>1. /\ node[Primary].tl = 1 /\ node[Standby].tl = 1
        /\ node[Primary].data = {} /\ node[Standby].data = {}
        /\ ~node[Standby].pending /\ node[Standby].rec /\ node[Primary].db
        /\ \A s \in Side : node[s].net = "up"
    BY <1>2, <1>3
  <2>2. pc = "idle"
    BY <1>1
  <2> QED
    BY <1>4, <2>1, <2>2 DEF TimelinesKept, CopiesKept
<1>6. ProofKept
  BY <1>1 DEF ProofKept, FailoverPc, AbortPc, FencedAt, ProvenAt, RunsAt, AfterPromote, NoRun
<1>7. \A s \in Side : Writes(s) <=> s = p
  BY <1>3 DEF Writes, TakesWrites, Running
<1>8. Writers = {p} /\ Holdings = [s \in Side |-> {}]
  BY <1>3, <1>7 DEF Writers, Holdings
<1>9. Moved!Init
  BY <1>8 DEF Moved!Init, Writers, Holdings
<1> QED
  BY <1>5, <1>6, <1>9 DEF CopyInv

\* Every step keeps the copies and moves the one writer, or is excepted.
LEMMA NextCopies ==
  ASSUME TypeOK, TypeOK', Inv, CopyInv, [Next]_vars
  PROVE  CopyInv' /\ MovesWriter
<1>1. Shared /\ run \in Run
  BY TypeOKParts
<1>2. Shared'
  BY DEF TypeOK, Shared, UsedType
<1>3. CASE World
  BY <1>1, <1>2, <1>3, WorldCopies
<1>4. CASE Crash \/ Reconcile \/ FailoverStart \/ AbortStart \/ DeployStart
  BY <1>1, <1>2, <1>4, AroundCopies
<1>5. CASE FailoverStep
  BY <1>1, <1>2, <1>5, FailoverFenceCopies, FailoverProveCopies, FailoverPromoteCopies,
     FailoverUndoCopies, FailoverSwapCopies DEF FailoverStep
<1>6. CASE AbortStep
  BY <1>1, <1>2, <1>6, AbortStepCopies
<1>7. CASE DeployStep
  BY <1>1, <1>2, <1>7, DeployStepCopies
<1>8. CASE UNCHANGED vars
  <2>1. Tame
    BY <1>1, <1>8, TameSets DEF vars, Tame, TameNodes
  <2> QED
    BY <1>1, <1>2, <1>8, <2>1, BesideTame DEF vars
<1> QED
  BY <1>3, <1>4, <1>5, <1>6, <1>7, <1>8 DEF Next, Command

\* The copies are as they should be in every behaviour.
THEOREM ComposeCopies == Spec => []CopyInv
<1>1. Init => CopyInv
  BY InitCopies
<1>2. TypeOK /\ TypeOK' /\ Inv /\ CopyInv /\ [Next]_vars => CopyInv'
  BY NextCopies
<1> QED
  BY <1>1, <1>2, ComposeTypeCorrect, ComposeInvariant, PTL DEF Spec

\* No deploy of a normal pair overwrites a database on a newer timeline than the
\* primary's, unless an abort recorded that copy as given up; the check was made
\* a step before the swap, and what could have happened since did not.
THEOREM ComposeReseedsOnlyGivenUp == Spec => ReseedOnlyGivenUp
<1>1. CopyInv => (pc = "seedSwap" => \/ node[Standby].tl <= node[Primary].tl
                                     \/ cfg.discard = CopyOf(Standby))
  BY DEF CopyInv, TimelinesKept, SeedPc
<1>2. CopyInv /\ [Next]_vars =>
        [pc = "seedSwap" /\ ~(node[Standby].data \subseteq node'[Standby].data) =>
           \/ node[Standby].tl <= node[Primary].tl
           \/ cfg.discard = CopyOf(Standby)]_vars
  BY <1>1
<1> QED
  BY <1>2, ComposeCopies, PTL DEF Spec, ReseedOnlyGivenUp

\* Refinement: until a server is lost or an abort gives a copy up, one side at a
\* time takes writes, it has every transaction, and no copy loses one, but for
\* the full copy a rerun makes after the earlier run's promote has landed.
THEOREM ComposeMovesOneWriter == Spec => MovesOneWriter
<1>1. Init => Moved!Init
  BY InitCopies
<1>2. TypeOK /\ TypeOK' /\ Inv /\ CopyInv /\ [Next]_vars =>
        [used'.lost \/ LateReseed \/ Moved!Step]_vars
  BY NextCopies DEF MovesWriter
<1> QED
  BY <1>1, <1>2, ComposeTypeCorrect, ComposeInvariant, ComposeCopies, PTL
     DEF Spec, MovesOneWriter
=============================================================================
