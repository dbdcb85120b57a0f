------------------------- MODULE ScaleCutoverProofs -------------------------
(***************************************************************************)
(* Proofs about ScaleCutover.  Without a journal the database is Whole on  *)
(* the server of record.  With one it is GoingBack, still whole on the old *)
(* server and no client ever sent to the new one, or it is GoingOn: the    *)
(* old server is held and the new one has everything.  A failed DNS update *)
(* or a rerun goes back only from where it can (Unseen, ResumeKeeps), and  *)
(* each step of a command has established what the next one needs          *)
(* (EarlyDone, FlipDone, BackDone).  All of it is promised while the saves *)
(* of the journal land and no scale is handed the server of record for its *)
(* replacement (Sound); the types are for good.                            *)
(***************************************************************************)
EXTENDS ScaleCutover, TLAPS

Early == {"marker", "stop", "fence", "wal", "base", "restore", "uncron", "journal"}
Flip == {"dns", "mark", "save", "half", "finish", "redns"}
Back == {"unfence", "start", "recron", "unjournal", "delete", "repoint", "keep"}

\* The steps of each rollback, and the servers a command works on.
Path ==
  [fence   |-> {"unfence", "start", "delete", "keep"},
   cutover |-> {"unfence", "start", "recron", "unjournal", "delete", "keep"},
   resume  |-> {"delete", "unfence", "start", "recron", "unjournal", "repoint"}]

\* What a command goes by at its step.
Control ==
  /\ run.at \in Early \cup Flip \cup Back \cup {"rename"} =>
       run.old \in Server /\ run.new \in Server
  /\ run.at \in Flip => InFlight /\ cfg.cut.old = run.old /\ cfg.cut.new = run.new
  /\ run.at \in Back => run.undo # "none" /\ run.at \in Path[run.undo]
  /\ run.at = "restore" => base[run.old] # None

Holds(s) == \A t \in Server : node[t].data \subseteq node[s].data

\* No client reaches it, and it neither refuses writes nor pushes.
Spare(s) == s \notin seen /\ ~node[s].fence /\ ~node[s].cron /\ base[s] = None
Gone(s) == node[s].life = "gone"
Aside(s) == Spare(s) \/ Gone(s)

\* The database is on s, and nowhere else.
Whole(s) ==
  /\ Up(s) /\ Holds(s)
  /\ \A t \in Server \ {s} : Aside(t)
  /\ node[s].fence => cfg.marker = s
  /\ late \in {None, s}

\* A cutover that is going back: no client was ever sent to the new server.
GoingBack(old, new) ==
  /\ cfg.server = old /\ Whole(old) /\ Spare(new)
  /\ mode = "managed" /\ \A n \in Name : dns[n] = old

\* A cutover that may go on: the old server is held, the new one has everything.
OldHeld(old, new) ==
  /\ Gone(old) \/ (Up(old) /\ node[old].fence /\ ~node[old].cron)
  /\ "demote" \in cfg.cut.done \/ node[new].cron \/ base[new] # None
       => Gone(old) \/ node[old].role = "standby"
  /\ "destroy" \in cfg.cut.done => Gone(old)
NotYet(old, new) ==
  /\ Up(old) /\ ~node[new].cron /\ base[new] = None
  /\ new \notin seen => Holds(old)
  /\ mode = "managed" /\ new \in seen => late # old /\ \E n \in Name : dns[n] # old
GoingOn(old, new) ==
  /\ Up(new) /\ Holds(new) /\ ~node[new].fence
  /\ \A t \in Server \ {old, new} : Aside(t)
  /\ OldHeld(old, new)
  /\ cfg.server \in {old, new} /\ late \in {None, old, new}
  /\ IF cfg.server = old THEN NotYet(old, new) ELSE late # old

Placed ==
  /\ mode # "managed" => late = None
  /\ ~InFlight => Whole(cfg.server) /\ cfg.marker \in {None, cfg.server}
  /\ InFlight => /\ cfg.cut.old # cfg.cut.new /\ cfg.marker = cfg.cut.old
                 /\ GoingBack(cfg.cut.old, cfg.cut.new) \/ GoingOn(cfg.cut.old, cfg.cut.new)

\* What has been done by a step.
EarlyDone ==
  run.at \in Early =>
    /\ ~InFlight /\ run.old = cfg.server /\ run.new # run.old /\ ~run.named
    /\ Up(run.new) /\ Spare(run.new)
    /\ run.at # "marker" => cfg.marker = run.old
    /\ run.at \in {"wal", "base", "restore", "uncron", "journal"} => node[run.old].fence
    /\ run.at \in {"restore", "uncron", "journal"} => base[run.old] = node[run.old].data
    /\ run.at \in {"uncron", "journal"} => node[run.new].data = node[run.old].data
    /\ run.at = "journal" => ~node[run.old].cron
FlipDone ==
  run.at \in Flip =>
    /\ GoingOn(run.old, run.new)
    /\ run.at = "dns" => cfg.server = run.old /\ run.cut
    /\ run.at # "dns" => late # run.old
    /\ run.at = "finish" => cfg.server = run.new
BackDone ==
  run.at \in Back =>
    /\ run.old = cfg.server /\ run.new # run.old /\ ~run.named /\ Spare(run.new)
    /\ InFlight => /\ cfg.cut.old = run.old /\ cfg.cut.new = run.new /\ run.cut
                   /\ GoingBack(run.old, run.new)
    /\ run.undo = "resume" => mode = "managed"
    /\ run.at = "repoint" => ~InFlight
DeployDone == run.at \in {"up", "probe", "rename"} => ~InFlight

Kept == Placed /\ EarlyDone /\ FlipDone /\ BackDone /\ DeployDone
Sound == ~LateAnytime /\ Promised
CutoverInv == TypeOK /\ Control /\ (Sound => Kept)

Counts == [faults: 0 .. MaxFaults, kills: 0 .. MaxKills, slip: BOOLEAN, self: BOOLEAN]

-----------------------------------------------------------------------------
(* Types.                                                                  *)

\* What a step writes on a server leaves a server.
LEMMA NodeTypes ==
  ASSUME TypeOK, NEW s \in Server
  PROVE  /\ node[s] \in Node /\ node[s].data \subseteq Write
         /\ node[s].app \in BOOLEAN /\ node[s].fence \in BOOLEAN /\ node[s].cron \in BOOLEAN
         /\ \A n \in Node : [node EXCEPT ![s] = n] \in [Server -> Node]
         /\ \A b \in BOOLEAN : /\ [node EXCEPT ![s].app = b] \in [Server -> Node]
                               /\ [node EXCEPT ![s].fence = b] \in [Server -> Node]
                               /\ [node EXCEPT ![s].cron = b] \in [Server -> Node]
                               /\ [node EXCEPT ![s].temp = b] \in [Server -> Node]
         /\ \A l \in {"unmade", "up", "gone"} : [node EXCEPT ![s].life = l] \in [Server -> Node]
         /\ \A r \in {"primary", "standby"} : [node EXCEPT ![s].role = r] \in [Server -> Node]
         /\ \A D \in SUBSET Write : [node EXCEPT ![s].data = D] \in [Server -> Node]
<1>1. node[s] \in Node
  BY DEF TypeOK
<1>2. \A n \in Node : [node EXCEPT ![s] = n] \in [Server -> Node]
  BY DEF TypeOK
<1>3. \A b \in BOOLEAN : /\ [node[s] EXCEPT !.app = b] \in Node
                         /\ [node[s] EXCEPT !.fence = b] \in Node
                         /\ [node[s] EXCEPT !.cron = b] \in Node
                         /\ [node[s] EXCEPT !.temp = b] \in Node
  BY <1>1 DEF Node
<1>4. /\ \A l \in {"unmade", "up", "gone"} : [node[s] EXCEPT !.life = l] \in Node
      /\ \A r \in {"primary", "standby"} : [node[s] EXCEPT !.role = r] \in Node
      /\ \A D \in SUBSET Write : [node[s] EXCEPT !.data = D] \in Node
  BY <1>1 DEF Node
<1>5. /\ node[s].app \in BOOLEAN /\ node[s].fence \in BOOLEAN /\ node[s].cron \in BOOLEAN
      /\ node[s].data \subseteq Write
  BY <1>1 DEF Node
<1> QED
  BY <1>1, <1>2, <1>3, <1>4, <1>5

\* What a failed call or save spends.
LEMMA Spending ==
  ASSUME TypeOK
  PROVE  /\ Fault => used' \in Counts /\ used'.slip = used.slip /\ used'.self = used.self
         /\ SaveFails => used' \in Counts /\ used'.slip
         /\ \A s : FaultAt(s) =>
              used' \in Counts /\ used'.slip = used.slip /\ used'.self = used.self
<1>1. used \in Counts /\ MaxFaults \in Nat
  BY BoundAssumption DEF TypeOK, Counts
<1>2. Fault => used' \in Counts /\ used'.slip = used.slip /\ used'.self = used.self
  BY <1>1 DEF Fault, Counts
<1>3. SaveFails => used' \in Counts /\ used'.slip
  <2>1. ASSUME NEW f \in 0 .. MaxFaults
        PROVE  /\ [used EXCEPT !.faults = f, !.slip = TRUE] \in Counts
               /\ [used EXCEPT !.faults = f, !.slip = TRUE].slip
    BY <1>1 DEF Counts
  <2>2. used.faults < MaxFaults => used.faults + 1 \in 0 .. MaxFaults
    BY <1>1 DEF Counts
  <2> QED
    BY <2>1, <2>2 DEF SaveFails
<1> QED
  BY <1>1, <1>2, <1>3 DEF FaultAt

\* A scale that is handed the server of record is marked for good.
LEMMA Handing ==
  ASSUME TypeOK, NEW s \in Server, Prepare(s) \/ PrepareFails(s)
  PROVE  /\ used' \in Counts /\ used'.slip = used.slip
         /\ used'.self <=> (used.self \/ s = cfg.server)
<1>1. used \in Counts /\ MaxFaults \in Nat
  BY BoundAssumption DEF TypeOK, Counts
<1> DEFINE mine == used.self \/ s = cfg.server
<1>2. mine \in BOOLEAN
  BY <1>1 DEF Counts
<1>3. Reuse(s) = [used EXCEPT !.self = mine]
  BY DEF Reuse
<1>4. \/ used' = Reuse(s)
      \/ used.faults < MaxFaults /\ used' = [Reuse(s) EXCEPT !.faults = @ + 1]
  BY DEF Prepare, PrepareFails
<1> HIDE DEF mine
<1>5. used.faults \in 0 .. MaxFaults /\ (used.faults < MaxFaults => used.faults + 1 \in 0 .. MaxFaults)
  BY <1>1 DEF Counts
<1>6. ASSUME NEW b \in BOOLEAN, NEW f \in 0 .. MaxFaults
      PROVE  /\ [used EXCEPT !.self = b] \in Counts
             /\ [[used EXCEPT !.self = b] EXCEPT !.faults = f] \in Counts
             /\ [used EXCEPT !.self = b].slip = used.slip
             /\ [[used EXCEPT !.self = b] EXCEPT !.faults = f].slip = used.slip
             /\ [used EXCEPT !.self = b].self = b
             /\ [[used EXCEPT !.self = b] EXCEPT !.faults = f].self = b
             /\ [used EXCEPT !.self = b].faults = used.faults
  <2>1. CASE b = TRUE
    BY <1>1, <2>1 DEF Counts
  <2>2. CASE b = FALSE
    BY <1>1, <2>2 DEF Counts
  <2> QED
    BY <2>1, <2>2
<1> DEFINE was == [used EXCEPT !.self = mine]
<1>7. was \in Counts /\ was.slip = used.slip /\ was.self = mine /\ was.faults = used.faults
  BY <1>2, <1>5, <1>6
<1>8. ASSUME NEW f \in 0 .. MaxFaults
      PROVE  /\ [was EXCEPT !.faults = f] \in Counts
             /\ [was EXCEPT !.faults = f].slip = used.slip
             /\ [was EXCEPT !.faults = f].self = mine
  BY <1>2, <1>6
<1> HIDE DEF was
<1>9. used' = was \/ (used.faults < MaxFaults /\ used' = [was EXCEPT !.faults = used.faults + 1])
  BY <1>3, <1>4, <1>7 DEF was
<1>10. used' \in Counts /\ used'.slip = used.slip /\ used'.self = mine
  BY <1>5, <1>7, <1>8, <1>9
<1> QED
  BY <1>10 DEF mine

\* A failed call leaves a setting as it was or as it was to be.
LEMMA Settings ==
  ASSUME TypeOK, NEW s \in Server, NEW b \in BOOLEAN
  PROVE  /\ Maybe(b, node[s].app) \subseteq BOOLEAN /\ Maybe(b, node[s].fence) \subseteq BOOLEAN
         /\ Maybe(b, node[s].cron) \subseteq BOOLEAN
BY NodeTypes DEF Maybe

\* A step of a command only moves it on; a rollback starts with the server and
\* the replacement the command works on.
LEMMA RunTypes ==
  ASSUME TypeOK
  PROVE  /\ Idle \in Run
         /\ \A a \in Step : [run EXCEPT !.at = a] \in Run
         /\ \A u \in {"fence", "cutover"}, b \in BOOLEAN :
              RollBack(u, b) => /\ run' \in Run /\ run'.undo = u
                                /\ run'.at = IF run.at = "marker" THEN "delete" ELSE "unfence"
                                /\ run'.old = run.old /\ run'.new = run.new
                                /\ run'.named = run.named /\ run'.cut = run.cut
<1>1. run \in Run
  BY DEF TypeOK
<1>2. Idle \in Run
  BY DEF Idle, Run, Step
<1>3. \A a \in Step : [run EXCEPT !.at = a] \in Run
  BY <1>1 DEF Run
<1>4. ASSUME NEW u \in {"fence", "cutover"}, NEW b \in BOOLEAN, RollBack(u, b)
      PROVE  /\ run' \in Run /\ run'.undo = u
             /\ run'.at = IF run.at = "marker" THEN "delete" ELSE "unfence"
             /\ run'.old = run.old /\ run'.new = run.new
             /\ run'.named = run.named /\ run'.cut = run.cut
  <2>1. CASE b = TRUE
    BY <1>1, <1>4, <2>1 DEF RollBack, Run, Step
  <2>2. CASE b = FALSE
    BY <1>1, <1>4, <2>2 DEF RollBack, Run, Step
  <2> QED
    BY <2>1, <2>2
<1> QED
  BY <1>2, <1>3, <1>4

\* The next step of a rollback is one of its own.
LEMMA UndoSteps ==
  ASSUME TypeOK, Control, run.at \in Back \ {"repoint", "keep"}
  PROVE  UndoNext \in Path[run.undo] /\ UndoNext \in Back /\ UndoNext \in Step
<1>1. run.undo \in {"fence", "cutover", "resume"} /\ run.at \in Path[run.undo]
  BY DEF TypeOK, Run, Control
<1>2. CASE run.undo = "fence"
  BY <1>1, <1>2 DEF UndoNext, Undo, Path, Back, Step
<1>3. CASE run.undo = "cutover"
  BY <1>1, <1>3 DEF UndoNext, Undo, Path, Back, Step
<1>4. CASE run.undo = "resume"
  BY <1>1, <1>4 DEF UndoNext, Undo, Path, Back, Step
<1> QED
  BY <1>1, <1>2, <1>3, <1>4

\* Before the journal.
LEMMA EarlyTypes ==
  ASSUME TypeOK, Control, run.at \in Early,
         \/ WriteMarker \/ StopWriters \/ FenceDatabase \/ AwaitArchive \/ PushFinalBase
         \/ RestoreBase \/ RemoveCron \/ WriteJournal
  PROVE  TypeOK' /\ Control'
<1>a. run.old \in Server /\ run.new \in Server
  BY DEF Control
<1>b. /\ run \in Run /\ node \in [Server -> Node] /\ cfg \in Config
      /\ base \in [Server -> (SUBSET Write) \cup {None}]
      /\ node[run.old].data \in SUBSET Write
  BY <1>a, NodeTypes DEF TypeOK
<1>1. CASE WriteMarker
  <2>1. cfg' \in Config
    BY <1>1, <1>a, <1>b DEF WriteMarker, Config
  <2>2. run' \in Run /\ Control'
    BY <1>1, <1>a, RunTypes DEF WriteMarker, At, Goto, Step, Control, Early, Flip, Back
  <2> QED
    BY <1>1, <2>1, <2>2 DEF WriteMarker, TypeOK, dnsVars
<1>2. CASE StopWriters
  <2>1. node' \in [Server -> Node] /\ StoppedLive(node[run.old].app) \in BOOLEAN
    BY <1>2, <1>a, NodeTypes DEF StopWriters, StoppedLive
  <2>2. run' \in Run /\ Control'
    <3> DEFINE live == StoppedLive(node[run.old].app)
    <3>1. live = TRUE \/ live = FALSE
      BY <2>1
    <3>2. run' = [run EXCEPT !.at = "fence", !.stopped = live]
      BY <1>2 DEF StopWriters
    <3> HIDE DEF live
    <3>3. CASE live = TRUE
      BY <1>a, <1>b, <3>2, <3>3 DEF Run, Step, Control, Early, Flip, Back
    <3>4. CASE live = FALSE
      BY <1>a, <1>b, <3>2, <3>4 DEF Run, Step, Control, Early, Flip, Back
    <3> QED
      BY <3>1, <3>3, <3>4
  <2> QED
    BY <1>2, <2>1, <2>2 DEF StopWriters, TypeOK, dnsVars
<1>3. CASE FenceDatabase
  <2>1. node' \in [Server -> Node]
    BY <1>3, <1>a, NodeTypes DEF FenceDatabase
  <2>2. run' \in Run /\ Control'
    BY <1>3, <1>a, RunTypes DEF FenceDatabase, At, Goto, Step, Control, Early, Flip, Back
  <2> QED
    BY <1>3, <2>1, <2>2 DEF FenceDatabase, TypeOK, dnsVars
<1>4. CASE AwaitArchive
  <2>1. run' \in Run /\ Control'
    BY <1>4, <1>a, RunTypes DEF AwaitArchive, At, Goto, Step, Control, Early, Flip, Back
  <2> QED
    BY <1>4, <2>1 DEF AwaitArchive, TypeOK, dnsVars
<1>5. CASE PushFinalBase
  <2>1. /\ base' \in [Server -> (SUBSET Write) \cup {None}] /\ base'[run.old] # None
    BY <1>5, <1>a, <1>b, NoneAssumption DEF PushFinalBase
  <2>2. run' \in Run /\ Control'
    BY <1>5, <1>a, <2>1, RunTypes DEF PushFinalBase, At, Goto, Step, Control, Early, Flip, Back
  <2> QED
    BY <1>5, <2>1, <2>2 DEF PushFinalBase, TypeOK, dnsVars
<1>6. CASE RestoreBase
  <2>1. base[run.old] \in SUBSET Write
    BY <1>6, <1>a, <1>b DEF RestoreBase, At, Control
  <2>2. Restored \in Node
    <3>1. node[run.new] \in Node
      BY <1>a, <1>b
    <3>2. \A D \in SUBSET Write :
            [node[run.new] EXCEPT !.data = D, !.app = TRUE, !.fence = FALSE] \in Node
      BY <3>1 DEF Node
    <3> QED
      BY <2>1, <3>2 DEF Restored
  <2>3. node' \in [Server -> Node]
    BY <1>6, <1>a, <2>2, NodeTypes DEF RestoreBase
  <2>4. run' \in Run /\ Control'
    BY <1>6, <1>a, RunTypes DEF RestoreBase, At, Goto, Step, Control, Early, Flip, Back
  <2> QED
    BY <1>6, <2>3, <2>4 DEF RestoreBase, TypeOK, dnsVars
<1>7. CASE RemoveCron
  <2>1. node' \in [Server -> Node]
    BY <1>7, <1>a, NodeTypes DEF RemoveCron
  <2>2. run' \in Run /\ Control'
    BY <1>7, <1>a, <1>b DEF RemoveCron, Run, Step, Control, Early, Flip, Back
  <2> QED
    BY <1>7, <2>1, <2>2 DEF RemoveCron, TypeOK, dnsVars
<1>8. CASE WriteJournal
  <2>1. run.stopped \in BOOLEAN
    BY <1>b DEF Run
  <2>2. [old |-> run.old, new |-> run.new, stopped |-> run.stopped, done |-> {}] \in Cutover
    BY <1>a, <2>1 DEF Cutover
  <2>3. /\ cfg' \in Config /\ cfg'.cut # None
        /\ cfg'.cut.old = run.old /\ cfg'.cut.new = run.new
    BY <1>8, <1>b, <2>2, NoneAssumption DEF WriteJournal, Config
  <2>4. run' \in Run /\ run'.old = run.old /\ run'.new = run.new /\ run'.at \in {"save", "dns"}
    BY <1>8, <1>b DEF WriteJournal, Run, Step
  <2>5. Control'
    BY <1>a, <2>3, <2>4 DEF Control, Early, Flip, Back, InFlight
  <2> QED
    BY <1>8, <2>3, <2>4, <2>5 DEF WriteJournal, TypeOK, dnsVars
<1> QED
  BY <1>1, <1>2, <1>3, <1>4, <1>5, <1>6, <1>7, <1>8

\* A rollback may begin at any of its steps with the servers of the command.
LEMMA RollBackControls ==
  ASSUME TypeOK, Control, run.at \in Early \cup Flip,
         NEW u \in {"fence", "cutover"}, NEW b \in BOOLEAN, RollBack(u, b)
  PROVE  run' \in Run /\ Control'
<1>1. /\ run' \in Run /\ run'.undo = u /\ run'.at \in {"delete", "unfence"}
      /\ run'.old = run.old /\ run'.new = run.new
  BY RunTypes
<1>2. run.old \in Server /\ run.new \in Server
  BY DEF Control
<1> QED
  BY <1>1, <1>2 DEF Control, Path, Early, Flip, Back

\* The same steps, failed.
LEMMA EarlyFailTypes ==
  ASSUME TypeOK, Control, run.at \in Early,
         \/ WriteMarkerFails \/ StopWritersFails \/ FenceDatabaseFails \/ AwaitArchiveFails
         \/ PushFinalBaseFails \/ RestoreBaseFails \/ RemoveCronFails \/ WriteJournalFails
  PROVE  TypeOK' /\ Control'
<1>a. run.old \in Server /\ run.new \in Server
  BY DEF Control
<1>b. /\ run \in Run /\ node \in [Server -> Node] /\ cfg \in Config
      /\ base \in [Server -> (SUBSET Write) \cup {None}]
      /\ node[run.old].data \in SUBSET Write /\ run.stopped \in BOOLEAN
  BY <1>a, NodeTypes DEF TypeOK, Run
<1>1. CASE WriteMarkerFails
  <2>1. used' \in Counts /\ run' \in Run /\ Control'
    BY <1>1, <1>b, Spending, RollBackControls DEF WriteMarkerFails
  <2> QED
    BY <1>1, <2>1 DEF WriteMarkerFails, TypeOK, Counts, dnsVars
<1>2. CASE StopWritersFails
  <2>1. PICK a \in Maybe(FALSE, node[run.old].app), named \in BOOLEAN :
          node' = [node EXCEPT ![run.old].app = a] /\ RollBack("fence", named)
    BY <1>2 DEF StopWritersFails
  <2>2. a \in BOOLEAN
    BY <1>a, Settings
  <2>3. node' \in [Server -> Node]
    BY <1>a, <2>1, <2>2, NodeTypes
  <2>4. used' \in Counts /\ run' \in Run /\ Control'
    BY <1>2, <2>1, Spending, RollBackControls DEF StopWritersFails
  <2> QED
    BY <1>2, <2>3, <2>4 DEF StopWritersFails, TypeOK, Counts, dnsVars
<1>3. CASE FenceDatabaseFails
  <2>1. PICK f \in Maybe(TRUE, node[run.old].fence) : node' = [node EXCEPT ![run.old].fence = f]
    BY <1>3 DEF FenceDatabaseFails
  <2>2. f \in BOOLEAN
    BY <1>a, Settings
  <2>3. node' \in [Server -> Node]
    BY <1>a, <2>1, <2>2, NodeTypes
  <2>4. used' \in Counts /\ run' \in Run /\ Control'
    BY <1>3, <1>b, Spending, RollBackControls DEF FenceDatabaseFails
  <2> QED
    BY <1>3, <2>3, <2>4 DEF FenceDatabaseFails, TypeOK, Counts, dnsVars
<1>4. CASE AwaitArchiveFails
  <2>1. used' \in Counts /\ run' \in Run /\ Control'
    BY <1>4, <1>b, Spending, RollBackControls DEF AwaitArchiveFails
  <2> QED
    BY <1>4, <2>1 DEF AwaitArchiveFails, TypeOK, Counts, dnsVars
<1>5. CASE PushFinalBaseFails
  <2>1. base' \in [Server -> (SUBSET Write) \cup {None}]
    BY <1>5, <1>a, <1>b DEF PushFinalBaseFails, Maybe
  <2>2. used' \in Counts /\ run' \in Run /\ Control'
    BY <1>5, <1>b, Spending, RollBackControls DEF PushFinalBaseFails
  <2> QED
    BY <1>5, <2>1, <2>2 DEF PushFinalBaseFails, TypeOK, Counts, dnsVars
<1>6. CASE RestoreBaseFails
  <2>1. base[run.old] \in SUBSET Write
    BY <1>6, <1>a, <1>b DEF RestoreBaseFails, At, Control
  <2>2. PICK d \in {base[run.old], {}, node[run.new].data}, a \in BOOLEAN :
          node' = [node EXCEPT ![run.new].data = d, ![run.new].app = a]
    BY <1>6 DEF RestoreBaseFails
  <2>3. d \in SUBSET Write
    <3>1. node[run.new].data \in SUBSET Write
      BY <1>a, NodeTypes
    <3> QED
      BY <2>1, <2>2, <3>1
  <2>4. node' = [node EXCEPT ![run.new] = [node[run.new] EXCEPT !.data = d, !.app = a]]
    BY <1>a, <1>b, <2>2
  <2>5. [node[run.new] EXCEPT !.data = d, !.app = a] \in Node
    <3>1. node[run.new] \in Node
      BY <1>a, <1>b
    <3>2. CASE a = TRUE
      BY <2>3, <3>1, <3>2 DEF Node
    <3>3. CASE a = FALSE
      BY <2>3, <3>1, <3>3 DEF Node
    <3> QED
      BY <2>2, <3>2, <3>3
  <2>6. node' \in [Server -> Node]
    BY <1>a, <2>4, <2>5, NodeTypes
  <2>7. used' \in Counts /\ run' \in Run /\ Control'
    BY <1>6, <1>b, Spending, RollBackControls DEF RestoreBaseFails
  <2> QED
    BY <1>6, <2>6, <2>7 DEF RestoreBaseFails, TypeOK, Counts, dnsVars
<1>7. CASE RemoveCronFails
  <2>1. PICK c \in Maybe(FALSE, node[run.old].cron) : node' = [node EXCEPT ![run.old].cron = c]
    BY <1>7 DEF RemoveCronFails
  <2>2. c \in BOOLEAN
    BY <1>a, Settings
  <2>3. node' \in [Server -> Node]
    BY <1>a, <2>1, <2>2, NodeTypes
  <2>4. used' \in Counts
    BY <1>7, Spending DEF RemoveCronFails
  <2>5. run' \in Run /\ Control'
    BY <1>7, <1>a, <1>b DEF RemoveCronFails, Run, Step, Control, Early, Flip, Back, Path
  <2> QED
    BY <1>7, <2>3, <2>4, <2>5 DEF RemoveCronFails, TypeOK, Counts, dnsVars
<1>8. CASE WriteJournalFails
  <2>1. used' \in Counts
    BY <1>8, Spending DEF WriteJournalFails
  <2>2. run' \in Run /\ Control'
    BY <1>8, <1>a, <1>b DEF WriteJournalFails, Run, Step, Control, Early, Flip, Back, Path
  <2> QED
    BY <1>8, <2>1, <2>2 DEF WriteJournalFails, TypeOK, Counts, dnsVars
<1> QED
  BY <1>1, <1>2, <1>3, <1>4, <1>5, <1>6, <1>7, <1>8

\* Where a record of the move leaves the scale is a state of a command.
LEMMA AfterDnsErrorTypes ==
  ASSUME TypeOK, Control, run.at \in Flip,
         NEW move \in {"old", "unknown", "partial", "moved"},
         run' = AfterDnsError[move], UNCHANGED <<cfg, base>>
  PROVE  run' \in Run /\ Control'
<1>a. run \in Run
  BY DEF TypeOK
<1>b. /\ run.old \in Server /\ run.new \in Server
      /\ InFlight' /\ cfg'.cut.old = run.old /\ cfg'.cut.new = run.new
  BY DEF Control, InFlight
<1>1. CASE move = "old"
  <2>1. run' = [run EXCEPT !.at = "unfence", !.undo = "cutover", !.named = FALSE]
    BY <1>1 DEF AfterDnsError
  <2>2. /\ run' \in Run /\ run'.at = "unfence" /\ run'.undo = "cutover"
        /\ run'.old = run.old /\ run'.new = run.new
    BY <1>a, <2>1 DEF Run, Step
  <2> QED
    BY <1>b, <2>2 DEF Control, Early, Flip, Back, Path
<1>2. CASE move = "unknown"
  <2>1. run' = Idle
    BY <1>2 DEF AfterDnsError
  <2> QED
    BY <2>1, RunTypes DEF Idle, Control, Early, Flip, Back
<1>3. CASE move = "partial"
  <2>1. run' = [run EXCEPT !.at = "half"]
    BY <1>3 DEF AfterDnsError
  <2> QED
    BY <1>a, <1>b, <2>1 DEF Run, Step, Control, Early, Flip, Back
<1>4. CASE move = "moved"
  <2>1. run' = [run EXCEPT !.at = "mark"]
    BY <1>4 DEF AfterDnsError
  <2> QED
    BY <1>a, <1>b, <2>1 DEF Run, Step, Control, Early, Flip, Back
<1> QED
  BY <1>1, <1>2, <1>3, <1>4

\* Records point at servers, whatever of a move took place.
LEMMA MoveTypes ==
  ASSUME TypeOK, NEW s \in Server,
         \/ Move(s)
         \/ \E timedOut \in BOOLEAN : MoveFails(s, timedOut)
         \/ UNCHANGED dnsVars
  PROVE  /\ dns' \in [Name -> Server \cup {None}]
         /\ late' \in Server \cup {None} /\ seen' \subseteq Server
<1>1. /\ dns \in [Name -> Server \cup {None}]
      /\ late \in Server \cup {None} /\ seen \subseteq Server
  BY DEF TypeOK
<1>2. CASE Move(s)
  BY <1>1, <1>2 DEF Move
<1>3. CASE \E timedOut \in BOOLEAN : MoveFails(s, timedOut)
  <2>1. dns' \in Torn(s)
    BY <1>3 DEF MoveFails
  <2>2. dns' \in [Name -> Server \cup {None}]
    BY <1>1, <2>1 DEF Torn, Name
  <2> QED
    BY <1>1, <1>3, <2>2 DEF MoveFails
<1>4. CASE UNCHANGED dnsVars
  BY <1>1, <1>4 DEF dnsVars
<1> QED
  BY <1>2, <1>3, <1>4

\* A record with one more step of the cutover done names the same servers.
LEMMA CutTypes ==
  ASSUME TypeOK, InFlight, NEW step \in Finish \cup {"dns"},
         cfg' = [cfg EXCEPT !.cut.done = @ \cup {step}]
  PROVE  /\ cfg' \in Config /\ InFlight' /\ cfg'.cut \in Cutover
         /\ cfg'.cut.old = cfg.cut.old /\ cfg'.cut.new = cfg.cut.new
         /\ cfg'.cut.done = cfg.cut.done \cup {step}
         /\ cfg'.server = cfg.server /\ cfg'.marker = cfg.marker
<1>1. cfg \in Config /\ cfg.cut \in Cutover
  BY DEF TypeOK, Config, InFlight
<1>2. cfg' = [cfg EXCEPT !.cut = [cfg.cut EXCEPT !.done = @ \cup {step}]]
  BY <1>1 DEF Config
<1>3. [cfg.cut EXCEPT !.done = @ \cup {step}] \in Cutover
  BY <1>1 DEF Cutover
<1>4. /\ cfg' \in Config /\ cfg'.cut = [cfg.cut EXCEPT !.done = @ \cup {step}]
      /\ cfg'.server = cfg.server /\ cfg'.marker = cfg.marker
  BY <1>1, <1>2, <1>3 DEF Config
<1>5. cfg'.cut # None
  BY <1>3, <1>4, NoneAssumption
<1> QED
  BY <1>1, <1>3, <1>4, <1>5 DEF Cutover, InFlight

\* The finish steps come in order: the first that is not done.
LEMMA FinishOrdered ==
  ASSUME NEW done, ~(Finish \subseteq done)
  PROVE  /\ NextFinish(done) \in Finish \ done
         /\ NextFinish(done) # "demote" => "demote" \in done
<1>1. \A i \in 1 .. 5 : FinishOrder[i] \in Finish
  BY DEF FinishOrder, Finish
<1>2. PICK i \in Pending(done) : \A j \in Pending(done) : i <= j
  <2>1. \A x \in Finish : \E i \in 1 .. 5 : FinishOrder[i] = x
    <3>1. /\ FinishOrder[1] = "demote" /\ FinishOrder[2] = "recreate" /\ FinishOrder[3] = "push"
          /\ FinishOrder[4] = "cron" /\ FinishOrder[5] = "destroy"
      BY DEF FinishOrder
    <3> QED
      BY <3>1 DEF Finish
  <2>2. \E i \in 1 .. 5 : FinishOrder[i] \notin done
    BY <2>1
  <2>3. Pending(done) # {} /\ Pending(done) \subseteq 1 .. 5
    BY <2>2 DEF Pending
  <2>4. CASE 1 \in Pending(done)
    BY <2>3, <2>4
  <2>5. CASE 1 \notin Pending(done) /\ 2 \in Pending(done)
    BY <2>3, <2>5
  <2>6. CASE 1 \notin Pending(done) /\ 2 \notin Pending(done) /\ 3 \in Pending(done)
    BY <2>3, <2>6
  <2>7. CASE /\ 1 \notin Pending(done) /\ 2 \notin Pending(done) /\ 3 \notin Pending(done)
             /\ 4 \in Pending(done)
    BY <2>3, <2>7
  <2>8. CASE /\ 1 \notin Pending(done) /\ 2 \notin Pending(done) /\ 3 \notin Pending(done)
             /\ 4 \notin Pending(done)
    BY <2>3, <2>8
  <2> QED
    BY <2>4, <2>5, <2>6, <2>7, <2>8
<1> DEFINE first == CHOOSE k \in Pending(done) : \A j \in Pending(done) : k <= j
<1>3. first \in Pending(done) /\ \A j \in Pending(done) : first <= j
  BY <1>2
<1>4. NextFinish(done) = FinishOrder[first]
  BY DEF NextFinish
<1> HIDE DEF first
<1>5. first \in 1 .. 5 /\ FinishOrder[first] \notin done
  BY <1>3 DEF Pending
<1>6. NextFinish(done) # "demote" => "demote" \in done
  <2> SUFFICES ASSUME NextFinish(done) # "demote" PROVE "demote" \in done
    OBVIOUS
  <2>1. first # 1
    BY <1>4 DEF FinishOrder
  <2>2. 1 \notin Pending(done)
    BY <1>3, <1>5, <2>1
  <2> QED
    BY <2>2 DEF Pending, FinishOrder
<1> QED
  BY <1>1, <1>4, <1>5, <1>6

\* What a finish step leaves is servers and bases.
LEMMA FinishedTypes ==
  ASSUME TypeOK, run.old \in Server, run.new \in Server, NEW step \in Finish
  PROVE  /\ Finished(step) \in [Server -> Node]
         /\ FinishedBase(step) \in [Server -> (SUBSET Write) \cup {None}]
<1>1. node \in [Server -> Node] /\ base \in [Server -> (SUBSET Write) \cup {None}]
  BY DEF TypeOK
<1>2. node[run.new].data \in SUBSET Write
  BY NodeTypes
<1>3. FinishedBase(step) \in [Server -> (SUBSET Write) \cup {None}]
  BY <1>1, <1>2 DEF FinishedBase
<1>4. CASE step = "demote"
  BY <1>3, <1>4, NodeTypes DEF Finished
<1>5. CASE step = "recreate"
  BY <1>3, <1>5, NodeTypes DEF Finished
<1>6. CASE step = "push"
  BY <1>1, <1>3, <1>6 DEF Finished
<1>7. CASE step = "cron"
  BY <1>3, <1>7, NodeTypes DEF Finished
<1>8. CASE step = "destroy"
  BY <1>3, <1>8, NodeTypes DEF Finished
<1> QED
  BY <1>3, <1>4, <1>5, <1>6, <1>7, <1>8 DEF Finish

\* The flip, and the steps that finish.
LEMMA FlipTypes ==
  ASSUME TypeOK, Control, run.at \in Flip,
         \/ UpdateDns \/ MarkDns \/ SaveServers \/ SaveHalfMoved
         \/ FinishStep \/ CloseCutover \/ RedoDns
  PROVE  TypeOK' /\ Control'
<1>a. /\ run.old \in Server /\ run.new \in Server
      /\ InFlight /\ cfg.cut.old = run.old /\ cfg.cut.new = run.new
  BY DEF Control
<1>b. /\ run \in Run /\ cfg \in Config
      /\ base \in [Server -> (SUBSET Write) \cup {None}]
  BY DEF TypeOK
<1>1. CASE UpdateDns
  <2>1. /\ dns' \in [Name -> Server \cup {None}]
        /\ late' \in Server \cup {None} /\ seen' \subseteq Server
    BY <1>1, <1>a, MoveTypes DEF UpdateDns
  <2>2. run' \in Run /\ Control'
    BY <1>1, <1>a, RunTypes DEF UpdateDns, At, Goto, Step, Control, Early, Flip, Back, InFlight
  <2> QED
    BY <1>1, <2>1, <2>2 DEF UpdateDns, TypeOK
<1>2. CASE MarkDns
  <2>1. /\ cfg' \in Config /\ InFlight'
        /\ cfg'.cut.old = run.old /\ cfg'.cut.new = run.new
    BY <1>2, <1>a, CutTypes DEF MarkDns
  <2>2. run' \in Run /\ Control'
    BY <1>2, <1>a, <2>1, RunTypes DEF MarkDns, At, Goto, Step, Control, Early, Flip, Back
  <2> QED
    BY <1>2, <2>1, <2>2 DEF MarkDns, TypeOK, dnsVars
<1>3. CASE SaveServers
  <2>1. /\ cfg' \in Config /\ InFlight'
        /\ cfg'.cut.old = run.old /\ cfg'.cut.new = run.new
    BY <1>3, <1>a, <1>b DEF SaveServers, Config, InFlight
  <2>2. run' \in Run /\ Control'
    BY <1>3, <1>a, <2>1, RunTypes DEF SaveServers, At, Goto, Step, Control, Early, Flip, Back
  <2> QED
    BY <1>3, <2>1, <2>2 DEF SaveServers, TypeOK, dnsVars
<1>4. CASE SaveHalfMoved
  <2>1. cfg' \in Config
    BY <1>4, <1>a, <1>b DEF SaveHalfMoved, Config
  <2>2. run' \in Run /\ Control'
    BY <1>4, RunTypes DEF SaveHalfMoved, End, Idle, Control, Early, Flip, Back
  <2> QED
    BY <1>4, <2>1, <2>2 DEF SaveHalfMoved, TypeOK, dnsVars
<1>5. CASE FinishStep
  <2> DEFINE step == NextFinish(cfg.cut.done)
  <2>1. step \in Finish
    BY <1>5, FinishOrdered DEF FinishStep
  <2>2. /\ node' = Finished(step) /\ base' = FinishedBase(step)
        /\ cfg' = [cfg EXCEPT !.cut.done = @ \cup {step}]
    BY <1>5 DEF FinishStep
  <2> HIDE DEF step
  <2>3. node' \in [Server -> Node] /\ base' \in [Server -> (SUBSET Write) \cup {None}]
    BY <1>a, <2>1, <2>2, FinishedTypes
  <2>4. /\ cfg' \in Config /\ InFlight'
        /\ cfg'.cut.old = run.old /\ cfg'.cut.new = run.new
    BY <1>a, <2>1, <2>2, CutTypes
  <2>5. run' = run /\ run.at = "finish"
    BY <1>5 DEF FinishStep, At
  <2>6. Control'
    BY <1>a, <2>4, <2>5 DEF Control, Early, Flip, Back
  <2> QED
    BY <1>5, <2>3, <2>4, <2>5, <2>6 DEF FinishStep, TypeOK, dnsVars
<1>6. CASE CloseCutover
  <2>1. cfg' \in Config
    BY <1>6, <1>b DEF CloseCutover, Config
  <2>2. run' \in Run /\ Control'
    BY <1>6, <1>a, <1>b, RunTypes
       DEF CloseCutover, At, Goto, Run, Step, Control, Early, Flip, Back
  <2> QED
    BY <1>6, <2>1, <2>2 DEF CloseCutover, TypeOK, dnsVars
<1>7. CASE RedoDns
  <2>1. /\ dns' \in [Name -> Server \cup {None}]
        /\ late' \in Server \cup {None} /\ seen' \subseteq Server
    BY <1>7, <1>a, MoveTypes DEF RedoDns
  <2>2. /\ cfg' \in Config /\ InFlight'
        /\ cfg'.cut.old = run.old /\ cfg'.cut.new = run.new
    BY <1>7, <1>a, CutTypes DEF RedoDns
  <2>3. run' \in Run /\ Control'
    BY <1>7, <1>a, <2>2, RunTypes DEF RedoDns, At, Goto, Step, Control, Early, Flip, Back
  <2> QED
    BY <1>7, <2>1, <2>2, <2>3 DEF RedoDns, TypeOK
<1> QED
  BY <1>1, <1>2, <1>3, <1>4, <1>5, <1>6, <1>7

\* The same steps, failed.
LEMMA FlipFailTypes ==
  ASSUME TypeOK, Control, run.at \in Flip,
         \/ UpdateDnsFails \/ MarkDnsFails \/ SaveServersFails \/ FinishStepFails \/ RedoDnsFails
  PROVE  TypeOK' /\ Control'
<1>a. /\ run.old \in Server /\ run.new \in Server
      /\ InFlight /\ cfg.cut.old = run.old /\ cfg.cut.new = run.new
  BY DEF Control
<1>b. run \in Run /\ cfg \in Config /\ run.stopped \in BOOLEAN
  BY DEF TypeOK, Run
<1>1. CASE UpdateDnsFails
  <2>1. PICK timedOut \in BOOLEAN, unread \in BOOLEAN :
          /\ MoveFails(run.new, timedOut)
          /\ run' = AfterDnsError[IF unread THEN "unknown"
                                  ELSE ReadMove(dns', run.old, run.new, timedOut)]
    BY <1>1 DEF UpdateDnsFails
  <2> DEFINE move == IF unread THEN "unknown" ELSE ReadMove(dns', run.old, run.new, timedOut)
  <2>2. move \in {"old", "unknown", "partial", "moved"}
    BY DEF ReadMove
  <2>3. run' = AfterDnsError[move] /\ UNCHANGED <<cfg, base>>
    BY <1>1, <2>1 DEF UpdateDnsFails
  <2> HIDE DEF move
  <2>4. run' \in Run /\ Control'
    BY <2>2, <2>3, AfterDnsErrorTypes
  <2>5. /\ dns' \in [Name -> Server \cup {None}]
        /\ late' \in Server \cup {None} /\ seen' \subseteq Server
    BY <1>a, <2>1, MoveTypes
  <2>6. used' \in Counts
    BY <1>1, Spending DEF UpdateDnsFails
  <2> QED
    BY <1>1, <2>4, <2>5, <2>6 DEF UpdateDnsFails, TypeOK, Counts
<1>2. CASE MarkDnsFails
  <2>1. used' \in Counts /\ run' \in Run /\ Control'
    BY <1>2, <1>b, Spending, RollBackControls DEF MarkDnsFails
  <2> QED
    BY <1>2, <2>1 DEF MarkDnsFails, TypeOK, Counts, dnsVars
<1>3. CASE SaveServersFails
  <2>1. cfg' \in Config
    BY <1>3, <1>a, <1>b DEF SaveServersFails, Config, Maybe
  <2>2. run' \in Run /\ Control'
    BY <1>3, RunTypes DEF SaveServersFails, End, Idle, Control, Early, Flip, Back
  <2>3. used' \in Counts
    BY <1>3, Spending DEF SaveServersFails
  <2> QED
    BY <1>3, <2>1, <2>2, <2>3 DEF SaveServersFails, TypeOK, Counts, dnsVars
<1>4. CASE FinishStepFails
  <2> DEFINE step == NextFinish(cfg.cut.done)
  <2>1. step \in Finish
    BY <1>4, FinishOrdered DEF FinishStepFails
  <2>2. \/ node' = Finished(step) /\ base' = FinishedBase(step)
        \/ UNCHANGED <<node, base>>
    BY <1>4 DEF FinishStepFails
  <2> HIDE DEF step
  <2>3. node' \in [Server -> Node] /\ base' \in [Server -> (SUBSET Write) \cup {None}]
    BY <1>a, <2>1, <2>2, FinishedTypes DEF TypeOK
  <2>4. used' \in Counts
    BY <1>4, Spending DEF FinishStepFails, TypeOK, Counts
  <2>5. run' \in Run /\ Control'
    BY <1>4, RunTypes DEF FinishStepFails, End, Idle, Control, Early, Flip, Back
  <2> QED
    BY <1>4, <2>3, <2>4, <2>5 DEF FinishStepFails, TypeOK, Counts, dnsVars
<1>5. CASE RedoDnsFails
  <2>1. /\ dns' \in [Name -> Server \cup {None}]
        /\ late' \in Server \cup {None} /\ seen' \subseteq Server
    BY <1>5, <1>a, MoveTypes DEF RedoDnsFails
  <2>2. run' \in Run /\ Control'
    BY <1>5, RunTypes DEF RedoDnsFails, End, Idle, Control, Early, Flip, Back
  <2>3. used' \in Counts
    BY <1>5, Spending DEF RedoDnsFails
  <2> QED
    BY <1>5, <2>1, <2>2, <2>3 DEF RedoDnsFails, TypeOK, Counts
<1> QED
  BY <1>1, <1>2, <1>3, <1>4, <1>5

\* A step of a rollback goes on along its path.
LEMMA UndoControls ==
  ASSUME TypeOK, Control, run.at \in Back \ {"repoint", "keep"}, UndoStep
  PROVE  run' \in Run /\ Control'
<1>1. /\ UndoNext \in Path[run.undo] /\ UndoNext \in Back /\ UndoNext \in Step
      /\ run' = [run EXCEPT !.at = UndoNext]
  BY UndoSteps DEF UndoStep, Goto
<1>2. /\ run' \in Run /\ run'.at = UndoNext /\ run'.undo = run.undo
      /\ run'.old = run.old /\ run'.new = run.new
  <2>1. run \in Run
    BY DEF TypeOK
  <2> QED
    BY <1>1, <2>1 DEF Run
<1>3. run.old \in Server /\ run.new \in Server /\ run.undo # "none"
  BY DEF Control
<1> QED
  BY <1>1, <1>2, <1>3 DEF Control, Early, Flip, Back

\* A command that has ended goes by nothing.
LEMMA EndControls == ASSUME TypeOK, End PROVE run' \in Run /\ Control'
BY RunTypes DEF End, Idle, Control, Early, Flip, Back

\* The rollback.
LEMMA BackTypes ==
  ASSUME TypeOK, Control, run.at \in Back,
         \/ Unfence \/ StartWriters \/ RestoreCron \/ ClearJournal \/ DeleteNew \/ Repoint \/ Keep
  PROVE  TypeOK' /\ Control'
<1>a. run.old \in Server /\ run.new \in Server /\ cfg.server \in Server
  BY DEF Control, TypeOK, Config
<1>b. /\ run \in Run /\ cfg \in Config /\ node \in [Server -> Node]
      /\ run.stopped \in BOOLEAN /\ run.cron \in BOOLEAN
  BY DEF TypeOK, Run
<1>1. CASE Unfence
  <2>1. node' \in [Server -> Node]
    BY <1>1, <1>a, NodeTypes DEF Unfence
  <2>2. cfg' \in Config
    BY <1>1, <1>b DEF Unfence, Config
  <2>3. run' \in Run /\ Control'
    BY <1>1, UndoControls DEF Unfence, At
  <2> QED
    BY <1>1, <2>1, <2>2, <2>3 DEF Unfence, TypeOK, dnsVars
<1>2. CASE StartWriters
  <2>1. node' = [node EXCEPT ![run.old].app = node[run.old].app \/ run.stopped]
    BY <1>2 DEF StartWriters
  <2>2. (node[run.old].app \/ run.stopped) \in BOOLEAN
    BY <1>a, <1>b, NodeTypes
  <2>3. node' \in [Server -> Node]
    BY <1>a, <2>1, <2>2, NodeTypes
  <2>4. run' \in Run /\ Control'
    BY <1>2, UndoControls DEF StartWriters, At
  <2> QED
    BY <1>2, <2>3, <2>4 DEF StartWriters, TypeOK, dnsVars
<1>3. CASE RestoreCron
  <2>1. node' = [node EXCEPT ![run.old].cron = node[run.old].cron \/ run.cron]
    BY <1>3 DEF RestoreCron
  <2>2. (node[run.old].cron \/ run.cron) \in BOOLEAN
    BY <1>a, <1>b, NodeTypes
  <2>3. node' \in [Server -> Node]
    BY <1>a, <2>1, <2>2, NodeTypes
  <2>4. run' \in Run /\ Control'
    BY <1>3, UndoControls DEF RestoreCron, At
  <2> QED
    BY <1>3, <2>3, <2>4 DEF RestoreCron, TypeOK, dnsVars
<1>4. CASE ClearJournal
  <2>1. cfg' \in Config
    BY <1>4, <1>b DEF ClearJournal, Config
  <2>2. run' \in Run /\ Control'
    BY <1>4, UndoControls DEF ClearJournal, At
  <2> QED
    BY <1>4, <2>1, <2>2 DEF ClearJournal, TypeOK, dnsVars
<1>5. CASE DeleteNew
  <2>1. node' \in [Server -> Node]
    BY <1>5, <1>a, NodeTypes DEF DeleteNew
  <2>2. run' \in Run /\ Control'
    BY <1>5, UndoControls DEF DeleteNew, At
  <2> QED
    BY <1>5, <2>1, <2>2 DEF DeleteNew, TypeOK, dnsVars
<1>6. CASE Repoint
  <2>1. /\ dns' \in [Name -> Server \cup {None}]
        /\ late' \in Server \cup {None} /\ seen' \subseteq Server
    BY <1>6, <1>a, MoveTypes DEF Repoint
  <2>2. run' \in Run /\ Control'
    BY <1>6, EndControls DEF Repoint
  <2> QED
    BY <1>6, <2>1, <2>2 DEF Repoint, TypeOK
<1>7. CASE Keep
  <2>1. cfg' \in Config
    BY <1>7, <1>a, <1>b DEF Keep, Config
  <2>2. run' \in Run /\ Control'
    BY <1>7, EndControls DEF Keep
  <2> QED
    BY <1>7, <2>1, <2>2 DEF Keep, TypeOK, dnsVars
<1> QED
  BY <1>1, <1>2, <1>3, <1>4, <1>5, <1>6, <1>7

\* The same steps, failed.
LEMMA BackFailTypes ==
  ASSUME TypeOK, Control, run.at \in Back,
         \/ UnfenceFails \/ StartWritersFails \/ RestoreCronFails \/ ClearJournalFails
         \/ DeleteNewFails \/ RepointFails
  PROVE  TypeOK' /\ Control'
<1>a. run.old \in Server /\ run.new \in Server /\ cfg.server \in Server
  BY DEF Control, TypeOK, Config
<1>1. CASE UnfenceFails
  <2>1. PICK f \in Maybe(FALSE, node[run.old].fence) : node' = [node EXCEPT ![run.old].fence = f]
    BY <1>1 DEF UnfenceFails
  <2>2. f \in BOOLEAN
    BY <1>a, Settings
  <2>3. node' \in [Server -> Node]
    BY <1>a, <2>1, <2>2, NodeTypes
  <2>4. used' \in Counts
    BY <1>1, Spending DEF UnfenceFails
  <2>5. run' \in Run /\ Control'
    BY <1>1, UndoControls DEF UnfenceFails, At
  <2> QED
    BY <1>1, <2>3, <2>4, <2>5 DEF UnfenceFails, TypeOK, Counts, dnsVars
<1>2. CASE StartWritersFails
  <2>1. PICK a \in Maybe(TRUE, node[run.old].app) : node' = [node EXCEPT ![run.old].app = a]
    BY <1>2 DEF StartWritersFails
  <2>2. a \in BOOLEAN
    BY <1>a, Settings
  <2>3. node' \in [Server -> Node]
    BY <1>a, <2>1, <2>2, NodeTypes
  <2>4. used' \in Counts
    BY <1>2, Spending DEF StartWritersFails
  <2>5. run' \in Run /\ Control'
    BY <1>2, UndoControls DEF StartWritersFails, At
  <2> QED
    BY <1>2, <2>3, <2>4, <2>5 DEF StartWritersFails, TypeOK, Counts, dnsVars
<1>3. CASE RestoreCronFails
  <2>1. used' \in Counts
    BY <1>3, Spending DEF RestoreCronFails
  <2>2. run' \in Run /\ Control'
    BY <1>3, UndoControls DEF RestoreCronFails, At
  <2> QED
    BY <1>3, <2>1, <2>2 DEF RestoreCronFails, TypeOK, Counts, dnsVars
<1>4. CASE ClearJournalFails
  <2>1. used' \in Counts
    BY <1>4, Spending DEF ClearJournalFails
  <2>2. run' \in Run /\ Control'
    <3>1. CASE run.undo = "resume"
      BY <1>4, <3>1, EndControls DEF ClearJournalFails
    <3>2. CASE run.undo # "resume"
      <4>1. run' = [run EXCEPT !.at = "keep"] /\ run.at = "unjournal"
        BY <1>4, <3>2 DEF ClearJournalFails, At, Goto
      <4>2. run \in Run /\ run.undo = "cutover"
        BY <3>2, <4>1 DEF TypeOK, Run, Control, Path
      <4>3. /\ run' \in Run /\ run'.at = "keep" /\ run'.undo = "cutover"
            /\ run'.old = run.old /\ run'.new = run.new
        BY <4>1, <4>2 DEF Run, Step
      <4> QED
        BY <1>a, <4>3 DEF Control, Path, Early, Flip, Back
    <3> QED
      BY <3>1, <3>2
  <2> QED
    BY <1>4, <2>1, <2>2 DEF ClearJournalFails, TypeOK, Counts, dnsVars
<1>5. CASE DeleteNewFails
  <2>1. PICK l \in Maybe("gone", node[run.new].life) : node' = [node EXCEPT ![run.new].life = l]
    BY <1>5 DEF DeleteNewFails
  <2>2. l \in {"unmade", "up", "gone"}
    <3>1. node[run.new].life \in {"unmade", "up", "gone"}
      BY <1>a, NodeTypes DEF Node
    <3> QED
      BY <3>1 DEF Maybe
  <2>3. node' \in [Server -> Node]
    BY <1>a, <2>1, <2>2, NodeTypes
  <2>4. used' \in Counts
    BY <1>5, Spending DEF DeleteNewFails
  <2>5. run' \in Run /\ Control'
    <3>1. CASE run.undo = "resume"
      BY <1>5, <3>1, EndControls DEF DeleteNewFails
    <3>2. CASE run.undo # "resume"
      BY <1>5, <3>2, UndoControls DEF DeleteNewFails, At, UndoStep
    <3> QED
      BY <3>1, <3>2
  <2> QED
    BY <1>5, <2>3, <2>4, <2>5 DEF DeleteNewFails, TypeOK, Counts, dnsVars
<1>6. CASE RepointFails
  <2>1. /\ dns' \in [Name -> Server \cup {None}]
        /\ late' \in Server \cup {None} /\ seen' \subseteq Server
    BY <1>6, <1>a, MoveTypes DEF RepointFails
  <2>2. used' \in Counts /\ run' \in Run /\ Control'
    BY <1>6, Spending, EndControls DEF RepointFails
  <2> QED
    BY <1>6, <2>1, <2>2 DEF RepointFails, TypeOK, Counts
<1> QED
  BY <1>1, <1>2, <1>3, <1>4, <1>5, <1>6

\* Commands that begin, deploys, and what goes on by itself.
LEMMA OtherTypes ==
  ASSUME TypeOK, Control,
         \/ Resume \/ Deploy \/ BringUp \/ BringUpFails \/ ProbeWritable \/ ProbeWritableFails
         \/ Kill \/ Backup \/ LateDns \/ Rename \/ RenameFails
         \/ \E s \in Server : \/ Prepare(s) \/ PrepareFails(s)
                              \/ Reboot(s) \/ CronBackup(s) \/ OperatorPoints(s)
         \/ \E s \in Server, w \in Write : Commit(s, w)
  PROVE  TypeOK' /\ Control'
<1>a. /\ cfg.server \in Server /\ cfg \in Config /\ node \in [Server -> Node]
      /\ base \in [Server -> (SUBSET Write) \cup {None}]
  BY DEF TypeOK, Config
<1>b. Lifted \in [Server -> Node] /\ Unmarked \in Config
  BY <1>a, NodeTypes DEF Lifted, Unmarked, Config
<1>c. Idle \in Run
  BY RunTypes
<1>1. CASE Resume
  <2>1. /\ InFlight /\ cfg.cut.old \in Server /\ cfg.cut.new \in Server
        /\ cfg.cut.stopped \in BOOLEAN
    BY <1>1, <1>a DEF Resume, InFlight, Config, Cutover
  <2>2. ASSUME NEW step \in {"delete", "redns", "finish", "save"}, run' = Resumed(step)
        PROVE  /\ run' \in Run /\ run'.at = step /\ run'.undo = "resume"
               /\ run'.old = cfg.cut.old /\ run'.new = cfg.cut.new
    <3> DEFINE live == cfg.cut.stopped
    <3>1. run' = [at |-> step, undo |-> "resume", old |-> cfg.cut.old, new |-> cfg.cut.new,
                  stopped |-> live, cron |-> TRUE, cut |-> TRUE, named |-> FALSE]
      BY <2>2 DEF Resumed, Idle
    <3>2. live \in BOOLEAN
      BY <2>1
    <3> HIDE DEF live
    <3> QED
      BY <2>1, <3>1, <3>2 DEF Run, Step
  <2>3. PICK step \in {"delete", "redns", "finish", "save"} : run' = Resumed(step)
    BY <1>1 DEF Resume, Adopt
  <2>4. run' \in Run /\ Control'
    BY <1>1, <2>1, <2>2, <2>3 DEF Resume, Control, Path, Early, Flip, Back, InFlight
  <2>5. late' \in Server \cup {None}
    BY <1>1 DEF Resume, TypeOK
  <2> QED
    BY <1>1, <2>4, <2>5 DEF Resume, TypeOK
<1>2. CASE Deploy
  <2>1. node' \in [Server -> Node] /\ cfg' \in Config
    BY <1>2, <1>a, <1>b DEF Deploy, Maybe
  <2>2. used' \in Counts
    BY <1>2, Spending DEF Deploy, TypeOK, Counts
  <2>3. run' \in Run /\ Control'
    BY <1>2, <1>c DEF Deploy, Run, Step, Idle, Control, Early, Flip, Back
  <2> QED
    BY <1>2, <2>1, <2>2, <2>3 DEF Deploy, TypeOK, Counts, dnsVars
<1>3. CASE BringUp
  <2>1. [node[cfg.server] EXCEPT !.app = TRUE, !.cron = TRUE] \in Node
    <3>1. node[cfg.server] \in Node
      BY <1>a
    <3> QED
      BY <3>1 DEF Node
  <2>2. node' = [node EXCEPT ![cfg.server] = [node[cfg.server] EXCEPT !.app = TRUE, !.cron = TRUE]]
    BY <1>3, <1>a DEF BringUp
  <2>3. node' \in [Server -> Node]
    BY <1>a, <2>1, <2>2, NodeTypes
  <2>4. /\ dns' \in [Name -> Server \cup {None}]
        /\ late' \in Server \cup {None} /\ seen' \subseteq Server
    BY <1>3, <1>a, MoveTypes DEF BringUp
  <2>5. run' \in Run /\ Control'
    BY <1>3, RunTypes DEF BringUp, Goto, Step, Control, Early, Flip, Back, TypeOK, Run
  <2> QED
    BY <1>3, <2>3, <2>4, <2>5 DEF BringUp, TypeOK
<1>4. CASE BringUpFails
  <2>1. PICK a \in BOOLEAN, c \in BOOLEAN :
          node' = [node EXCEPT ![cfg.server].app = node[cfg.server].app \/ a,
                               ![cfg.server].cron = node[cfg.server].cron \/ c]
    BY <1>4, <1>a DEF BringUpFails
  <2>2. node' \in [Server -> Node]
    <3>1. /\ node[cfg.server].app \/ a \in BOOLEAN
          /\ node[cfg.server].cron \/ c \in BOOLEAN
      BY <1>a, NodeTypes
    <3>2. \A x, y \in BOOLEAN : [node[cfg.server] EXCEPT !.app = x, !.cron = y] \in Node
      <4> SUFFICES ASSUME NEW x \in BOOLEAN, NEW y \in BOOLEAN
                   PROVE  [node[cfg.server] EXCEPT !.app = x, !.cron = y] \in Node
        OBVIOUS
      <4>1. node[cfg.server] \in Node
        BY <1>a
      <4>2. CASE x = TRUE /\ y = TRUE
        BY <4>1, <4>2 DEF Node
      <4>3. CASE x = TRUE /\ y = FALSE
        BY <4>1, <4>3 DEF Node
      <4>4. CASE x = FALSE /\ y = TRUE
        BY <4>1, <4>4 DEF Node
      <4>5. CASE x = FALSE /\ y = FALSE
        BY <4>1, <4>5 DEF Node
      <4> QED
        BY <4>2, <4>3, <4>4, <4>5
    <3> QED
      BY <1>a, <2>1, <3>1, <3>2, NodeTypes
  <2>3. /\ dns' \in [Name -> Server \cup {None}]
        /\ late' \in Server \cup {None} /\ seen' \subseteq Server
    BY <1>4, <1>a, MoveTypes DEF BringUpFails
  <2>4. used' \in Counts /\ run' \in Run /\ Control'
    BY <1>4, Spending, EndControls DEF BringUpFails
  <2> QED
    BY <1>4, <2>2, <2>3, <2>4 DEF BringUpFails, TypeOK, Counts
<1>5. CASE ProbeWritable
  <2>1. node' \in [Server -> Node] /\ cfg' \in Config /\ run' \in Run /\ Control'
    BY <1>5, <1>a, <1>b, EndControls DEF ProbeWritable
  <2> QED
    BY <1>5, <2>1 DEF ProbeWritable, TypeOK, dnsVars
<1>6. CASE ProbeWritableFails
  <2>1. /\ node' \in [Server -> Node] /\ used' \in Counts /\ run' \in Run /\ Control'
    BY <1>6, <1>a, <1>b, Spending, EndControls DEF ProbeWritableFails, Maybe
  <2> QED
    BY <1>6, <2>1 DEF ProbeWritableFails, TypeOK, Counts, dnsVars
<1>7. CASE Kill
  <2>1. used' \in Counts
    BY <1>7, BoundAssumption DEF Kill, TypeOK, Counts
  <2>2. run' \in Run /\ Control'
    BY <1>7, EndControls DEF Kill
  <2> QED
    BY <1>7, <2>1, <2>2 DEF Kill, TypeOK, Counts, dnsVars
<1>8. CASE Backup
  <2>1. base' \in [Server -> (SUBSET Write) \cup {None}]
    BY <1>8, <1>a, NodeTypes DEF Backup
  <2>2. Control'
    BY <1>8 DEF Backup, At, Control, Early, Flip, Back
  <2> QED
    BY <1>8, <2>1, <2>2 DEF Backup, TypeOK, dnsVars
<1>9. CASE LateDns
  <2>1. /\ dns' \in [Name -> Server \cup {None}]
        /\ late' \in Server \cup {None} /\ seen' \subseteq Server
    BY <1>9 DEF LateDns, TypeOK
  <2>2. Control'
    BY <1>9 DEF LateDns, Control, InFlight
  <2> QED
    BY <1>9, <2>1, <2>2 DEF LateDns, TypeOK
<1>10. ASSUME NEW s \in Server, Prepare(s) PROVE TypeOK' /\ Control'
  <2>1. node' = [node EXCEPT ![s] = [node[s] EXCEPT !.life = "up", !.temp = TRUE, !.app = TRUE]]
    BY <1>10, <1>a DEF Prepare
  <2>2. [node[s] EXCEPT !.life = "up", !.temp = TRUE, !.app = TRUE] \in Node
    <3>1. node[s] \in Node
      BY NodeTypes
    <3> QED
      BY <3>1 DEF Node
  <2>3. node' \in [Server -> Node]
    BY <2>1, <2>2, NodeTypes
  <2>4. /\ run' \in Run /\ run'.at = "marker" /\ run'.old = cfg.server /\ run'.new = s
    BY <1>10, <1>a, <1>c DEF Prepare, Run, Step, Idle
  <2>5. Control'
    BY <1>a, <2>4 DEF Control, Early, Flip, Back
  <2>6. used' \in Counts
    BY <1>10, Handing
  <2> QED
    BY <1>10, <2>3, <2>4, <2>5, <2>6 DEF Prepare, TypeOK, Counts, dnsVars
<1>11. ASSUME NEW s \in Server, PrepareFails(s) PROVE TypeOK' /\ Control'
  <2>1. PICK l \in Maybe("gone", "up"), a \in Maybe(TRUE, node[s].app) :
          node' = [node EXCEPT ![s].life = l, ![s].temp = TRUE, ![s].app = a]
    BY <1>11 DEF PrepareFails
  <2>2. l \in {"gone", "up"} /\ a \in BOOLEAN
    BY <2>1, Settings DEF Maybe
  <2>3. node' = [node EXCEPT ![s] = [node[s] EXCEPT !.life = l, !.temp = TRUE, !.app = a]]
    BY <1>a, <2>1
  <2>4. [node[s] EXCEPT !.life = l, !.temp = TRUE, !.app = a] \in Node
    <3>1. node[s] \in Node
      BY NodeTypes
    <3>2. CASE a = TRUE
      BY <2>2, <3>1, <3>2 DEF Node
    <3>3. CASE a = FALSE
      BY <2>2, <3>1, <3>3 DEF Node
    <3> QED
      BY <2>2, <3>2, <3>3
  <2>5. node' \in [Server -> Node]
    BY <2>3, <2>4, NodeTypes
  <2>6. used' \in Counts /\ Control'
    BY <1>11, Handing DEF PrepareFails, Control, InFlight
  <2> QED
    BY <1>11, <2>5, <2>6 DEF PrepareFails, TypeOK, Counts, dnsVars
<1>12. ASSUME NEW s \in Server, Reboot(s) PROVE TypeOK' /\ Control'
  <2>1. node' \in [Server -> Node] /\ used' \in Counts
    BY <1>12, NodeTypes, Spending DEF Reboot
  <2>2. Control'
    BY <1>12 DEF Reboot, Control, InFlight
  <2> QED
    BY <1>12, <2>1, <2>2 DEF Reboot, TypeOK, Counts, dnsVars
<1>13. ASSUME NEW s \in Server, CronBackup(s) PROVE TypeOK' /\ Control'
  <2>1. base' \in [Server -> (SUBSET Write) \cup {None}] /\ base'[s] # None
    <3>1. node[s].data \in SUBSET Write /\ node[s].data # None
      BY NodeTypes, NoneAssumption
    <3> QED
      BY <1>13, <1>a, <3>1 DEF CronBackup
  <2>2. Control'
    BY <1>13, <1>a, <2>1 DEF CronBackup, Control, InFlight
  <2> QED
    BY <1>13, <2>1, <2>2 DEF CronBackup, TypeOK, dnsVars
<1>14. ASSUME NEW s \in Server, OperatorPoints(s) PROVE TypeOK' /\ Control'
  <2>1. /\ dns' \in [Name -> Server \cup {None}]
        /\ late' \in Server \cup {None} /\ seen' \subseteq Server
    BY <1>14, MoveTypes DEF OperatorPoints
  <2>2. Control'
    BY <1>14 DEF OperatorPoints, Control, InFlight
  <2> QED
    BY <1>14, <2>1, <2>2 DEF OperatorPoints, TypeOK
<1>15. ASSUME NEW s \in Server, NEW w \in Write, Commit(s, w) PROVE TypeOK' /\ Control'
  <2>1. node[s].data \cup {w} \in SUBSET Write
    BY NodeTypes
  <2>2. node' \in [Server -> Node]
    BY <1>15, <2>1, NodeTypes DEF Commit
  <2>3. Control'
    BY <1>15 DEF Commit, Control, InFlight
  <2> QED
    BY <1>15, <2>2, <2>3 DEF Commit, TypeOK, dnsVars
<1>16. CASE Rename \/ RenameFails
  <2>1. run.new \in Server
    BY <1>16 DEF Rename, RenameFails, At, Control
  <2>2. PICK t \in BOOLEAN : node' = [node EXCEPT ![run.new].temp = t]
    <3>1. node[run.new].temp \in BOOLEAN
      BY <2>1, NodeTypes DEF Node
    <3> QED
      BY <1>16, <3>1 DEF Rename, RenameFails, Maybe
  <2>3. node' \in [Server -> Node]
    BY <2>1, <2>2, NodeTypes
  <2>4. used' \in Counts /\ run' \in Run /\ Control'
    BY <1>16, Spending, EndControls DEF Rename, RenameFails, TypeOK, Counts
  <2> QED
    BY <1>16, <2>3, <2>4 DEF Rename, RenameFails, TypeOK, Counts, dnsVars
<1> QED
  BY <1>1, <1>2, <1>3, <1>4, <1>5, <1>6, <1>7, <1>8, <1>9, <1>10, <1>11, <1>12, <1>13, <1>14,
     <1>15, <1>16

\* Every step keeps the types, and what a command goes by.
LEMMA TypesStep == TypeOK /\ Control /\ [Next]_vars => TypeOK' /\ Control'
<1> SUFFICES ASSUME TypeOK, Control, [Next]_vars PROVE TypeOK' /\ Control'
  OBVIOUS
<1>1. CASE UNCHANGED vars
  BY <1>1 DEF vars, TypeOK, Control, InFlight
<1>2. CASE \/ WriteMarker \/ StopWriters \/ FenceDatabase \/ AwaitArchive \/ PushFinalBase
           \/ RestoreBase \/ RemoveCron \/ WriteJournal
  <2>1. run.at \in Early
    BY <1>2 DEF WriteMarker, StopWriters, FenceDatabase, AwaitArchive, PushFinalBase,
       RestoreBase, RemoveCron, WriteJournal, At, Early
  <2> QED
    BY <1>2, <2>1, EarlyTypes
<1>3. CASE \/ WriteMarkerFails \/ StopWritersFails \/ FenceDatabaseFails \/ AwaitArchiveFails
           \/ PushFinalBaseFails \/ RestoreBaseFails \/ RemoveCronFails \/ WriteJournalFails
  <2>1. run.at \in Early
    BY <1>3 DEF WriteMarkerFails, StopWritersFails, FenceDatabaseFails, AwaitArchiveFails,
       PushFinalBaseFails, RestoreBaseFails, RemoveCronFails, WriteJournalFails, At, Early
  <2> QED
    BY <1>3, <2>1, EarlyFailTypes
<1>4. CASE \/ UpdateDns \/ MarkDns \/ SaveServers \/ SaveHalfMoved
           \/ FinishStep \/ CloseCutover \/ RedoDns
  <2>1. run.at \in Flip
    BY <1>4 DEF UpdateDns, MarkDns, SaveServers, SaveHalfMoved, FinishStep, CloseCutover,
       RedoDns, At, Flip
  <2> QED
    BY <1>4, <2>1, FlipTypes
<1>5. CASE \/ UpdateDnsFails \/ MarkDnsFails \/ SaveServersFails \/ FinishStepFails
           \/ RedoDnsFails
  <2>1. run.at \in Flip
    BY <1>5 DEF UpdateDnsFails, MarkDnsFails, SaveServersFails, FinishStepFails,
       RedoDnsFails, At, Flip
  <2> QED
    BY <1>5, <2>1, FlipFailTypes
<1>6. CASE \/ Unfence \/ StartWriters \/ RestoreCron \/ ClearJournal \/ DeleteNew \/ Repoint
           \/ Keep
  <2>1. run.at \in Back
    BY <1>6 DEF Unfence, StartWriters, RestoreCron, ClearJournal, DeleteNew, Repoint, Keep,
       At, Back
  <2> QED
    BY <1>6, <2>1, BackTypes
<1>7. CASE \/ UnfenceFails \/ StartWritersFails \/ RestoreCronFails \/ ClearJournalFails
           \/ DeleteNewFails \/ RepointFails
  <2>1. run.at \in Back
    BY <1>7 DEF UnfenceFails, StartWritersFails, RestoreCronFails, ClearJournalFails,
       DeleteNewFails, RepointFails, At, Back
  <2> QED
    BY <1>7, <2>1, BackFailTypes
<1>8. CASE \/ BringUp \/ BringUpFails \/ ProbeWritable \/ ProbeWritableFails \/ Kill
           \/ Rename \/ RenameFails \/ World \/ Operator
  BY <1>8, OtherTypes DEF World, Operator
<1> QED
  BY <1>1, <1>2, <1>3, <1>4, <1>5, <1>6, <1>7, <1>8 DEF Next, Work, Trouble

\* The environment begins with one serving server and no command.
LEMMA InitTypes == Init => TypeOK /\ Control
<1> SUFFICES ASSUME NEW s \in Server,
               /\ node = [t \in Server |-> IF t = s THEN Serving ELSE Unmade]
               /\ base = [t \in Server |-> None]
               /\ dns = [n \in Name |-> s] /\ late = None /\ seen = {s} /\ mode \in DnsModes
               /\ cfg = [server |-> s, marker |-> None, cut |-> None]
               /\ run = Idle /\ used = [faults |-> 0, kills |-> 0, slip |-> FALSE, self |-> FALSE]
             PROVE  TypeOK /\ Control
  BY DEF Init
<1>1. Serving \in Node /\ Unmade \in Node
  BY DEF Serving, Unmade, Node
<1>2. node \in [Server -> Node]
  BY <1>1
<1>3. cfg \in Config
  BY DEF Config
<1>4. run \in Run /\ Control
  BY DEF Idle, Run, Step, Control, Early, Flip, Back
<1>5. used \in [faults: 0 .. MaxFaults, kills: 0 .. MaxKills, slip: BOOLEAN, self: BOOLEAN]
  BY BoundAssumption
<1> QED
  BY <1>2, <1>3, <1>4, <1>5 DEF TypeOK

-----------------------------------------------------------------------------
(* The invariant, while no save of the journal has failed.                 *)

\* A command that has ended leaves nothing half done but what is on record.
LEMMA Ended == run'.at = "idle" => EarlyDone' /\ FlipDone' /\ BackDone' /\ DeployDone'
BY DEF EarlyDone, FlipDone, BackDone, DeployDone, Early, Flip, Back

\* Before the journal the database is on the old server; nothing reaches the new one.
LEMMA EarlyKeeps ==
  ASSUME TypeOK, Control, Kept, run.at \in Early,
         \/ WriteMarker \/ StopWriters \/ FenceDatabase \/ AwaitArchive \/ PushFinalBase
         \/ RestoreBase \/ RemoveCron
  PROVE  Kept'
<1>a. /\ run \in Run /\ node \in [Server -> Node] /\ cfg \in Config
      /\ base \in [Server -> (SUBSET Write) \cup {None}]
      /\ run.old \in Server /\ run.new \in Server
  BY DEF TypeOK, Control
<1>b. Placed /\ EarlyDone
  BY DEF Kept
<1> USE DEF At, Goto, Early, Flip, Back, InFlight, Placed, Whole, Aside, Spare, Gone, Holds, Up
<1>1. CASE WriteMarker
  <2>1. Placed'
    BY <1>1, <1>a, <1>b, NoneAssumption DEF WriteMarker, EarlyDone, Config, dnsVars
  <2>2. EarlyDone' /\ FlipDone' /\ BackDone' /\ DeployDone'
    BY <1>1, <1>a, <1>b
       DEF WriteMarker, EarlyDone, FlipDone, BackDone, DeployDone, Config, Run, dnsVars
  <2> QED
    BY <2>1, <2>2 DEF Kept
<1>2. CASE StopWriters
  <2>1. Placed'
    BY <1>2, <1>a, <1>b DEF StopWriters, EarlyDone, Node, dnsVars
  <2>2. EarlyDone' /\ FlipDone' /\ BackDone' /\ DeployDone'
    BY <1>2, <1>a, <1>b
       DEF StopWriters, EarlyDone, FlipDone, BackDone, DeployDone, Node, Run, dnsVars
  <2> QED
    BY <2>1, <2>2 DEF Kept
<1>3. CASE FenceDatabase
  <2>1. Placed'
    BY <1>3, <1>a, <1>b DEF FenceDatabase, EarlyDone, Node, dnsVars
  <2>2. EarlyDone' /\ FlipDone' /\ BackDone' /\ DeployDone'
    BY <1>3, <1>a, <1>b
       DEF FenceDatabase, EarlyDone, FlipDone, BackDone, DeployDone, Node, Run, dnsVars
  <2> QED
    BY <2>1, <2>2 DEF Kept
<1>4. CASE AwaitArchive
  <2>1. Placed'
    BY <1>4, <1>a, <1>b DEF AwaitArchive, EarlyDone, dnsVars
  <2>2. EarlyDone' /\ FlipDone' /\ BackDone' /\ DeployDone'
    BY <1>4, <1>a, <1>b
       DEF AwaitArchive, EarlyDone, FlipDone, BackDone, DeployDone, Run, dnsVars
  <2> QED
    BY <2>1, <2>2 DEF Kept
<1>5. CASE PushFinalBase
  <2>1. Placed'
    BY <1>5, <1>a, <1>b DEF PushFinalBase, EarlyDone, dnsVars
  <2>2. EarlyDone' /\ FlipDone' /\ BackDone' /\ DeployDone'
    BY <1>5, <1>a, <1>b
       DEF PushFinalBase, EarlyDone, FlipDone, BackDone, DeployDone, Run, dnsVars
  <2> QED
    BY <2>1, <2>2 DEF Kept
<1>6. CASE RestoreBase
  <2>1. Placed'
    BY <1>6, <1>a, <1>b DEF RestoreBase, Restored, EarlyDone, Node, dnsVars
  <2>2. EarlyDone' /\ FlipDone' /\ BackDone' /\ DeployDone'
    BY <1>6, <1>a, <1>b
       DEF RestoreBase, Restored, EarlyDone, FlipDone, BackDone, DeployDone, Node, Run, dnsVars
  <2> QED
    BY <2>1, <2>2 DEF Kept
<1>7. CASE RemoveCron
  <2>1. Placed'
    BY <1>7, <1>a, <1>b DEF RemoveCron, EarlyDone, Node, dnsVars
  <2>2. EarlyDone' /\ FlipDone' /\ BackDone' /\ DeployDone'
    BY <1>7, <1>a, <1>b
       DEF RemoveCron, EarlyDone, FlipDone, BackDone, DeployDone, Node, Run, dnsVars
  <2> QED
    BY <2>1, <2>2 DEF Kept
<1> QED
  BY <1>1, <1>2, <1>3, <1>4, <1>5, <1>6, <1>7

\* A rollback that begins before the journal finds the database in its place.
LEMMA EarlyRollsBack ==
  ASSUME TypeOK, Control, Kept, run.at \in Early, ~InFlight', Spare(run.new)',
         cfg' = cfg, run'.at \in {"delete", "unfence"}, run'.undo # "resume",
         run'.old = run.old, run'.new = run.new, run'.named = run.named
  PROVE  EarlyDone' /\ FlipDone' /\ BackDone' /\ DeployDone'
<1>1. run.old = cfg.server /\ run.new # run.old /\ ~run.named
  BY DEF Kept, EarlyDone
<1> QED
  BY <1>1 DEF EarlyDone, FlipDone, BackDone, DeployDone, Early, Flip, Back, Spare, InFlight

\* The same steps, failed.
LEMMA EarlyFailKeeps ==
  ASSUME TypeOK, Control, Kept, run.at \in Early,
         \/ WriteMarkerFails \/ StopWritersFails \/ FenceDatabaseFails \/ AwaitArchiveFails
         \/ PushFinalBaseFails \/ RestoreBaseFails \/ RemoveCronFails
  PROVE  Kept'
<1>a. /\ run \in Run /\ node \in [Server -> Node] /\ cfg \in Config
      /\ base \in [Server -> (SUBSET Write) \cup {None}]
      /\ run.old \in Server /\ run.new \in Server
  BY DEF TypeOK, Control
<1>b. Placed /\ EarlyDone
  BY DEF Kept
<1>c. ASSUME cfg' = cfg, Spare(run.new)',
             \/ \E u \in {"fence", "cutover"}, b \in BOOLEAN : RollBack(u, b)
             \/ run' = [run EXCEPT !.at = "unfence", !.undo = "cutover", !.cron = TRUE]
      PROVE  EarlyDone' /\ FlipDone' /\ BackDone' /\ DeployDone'
  <2>1. /\ run'.at \in {"delete", "unfence"} /\ run'.undo # "resume" /\ run'.named = run.named
        /\ run'.old = run.old /\ run'.new = run.new
    BY <1>a, <1>c, RunTypes DEF Run
  <2>2. ~InFlight'
    BY <1>b, <1>c DEF EarlyDone, InFlight
  <2> QED
    BY <1>c, <2>1, <2>2, EarlyRollsBack
<1>d. run.stopped \in BOOLEAN
  BY <1>a DEF Run
<1> USE DEF Early, InFlight, Placed, Whole, Aside, Spare, Gone, Holds, Up
<1>1. CASE WriteMarkerFails
  <2>1. Placed' /\ Spare(run.new)'
    BY <1>1, <1>a, <1>b DEF WriteMarkerFails, EarlyDone, RollBack, Run, dnsVars
  <2> QED
    BY <1>1, <1>c, <2>1 DEF WriteMarkerFails, Kept
<1>2. CASE StopWritersFails
  <2>1. PICK a \in Maybe(FALSE, node[run.old].app), named \in BOOLEAN :
          node' = [node EXCEPT ![run.old].app = a] /\ RollBack("fence", named)
    BY <1>2 DEF StopWritersFails
  <2>2. UNCHANGED <<base, dns, late, seen, mode, cfg>>
    BY <1>2 DEF StopWritersFails, dnsVars
  <2>3. run'.new = run.new
    BY <2>1, RunTypes
  <2>4. Placed' /\ Spare(run.new)'
    BY <1>a, <1>b, <2>1, <2>2, <2>3 DEF EarlyDone, Node
  <2> QED
    BY <1>c, <2>1, <2>2, <2>4 DEF Kept
<1>3. CASE FenceDatabaseFails
  <2>1. run.at # "marker"
    BY <1>3 DEF FenceDatabaseFails, At
  <2>2. Placed' /\ Spare(run.new)'
    BY <1>3, <1>a, <1>b, <2>1 DEF FenceDatabaseFails, EarlyDone, RollBack, Run, Node, dnsVars
  <2> QED
    BY <1>3, <1>c, <1>d, <2>2 DEF FenceDatabaseFails, Kept
<1>4. CASE AwaitArchiveFails
  <2>1. Placed' /\ Spare(run.new)'
    BY <1>4, <1>a, <1>b DEF AwaitArchiveFails, EarlyDone, RollBack, Run, dnsVars
  <2> QED
    BY <1>4, <1>c, <1>d, <2>1 DEF AwaitArchiveFails, Kept
<1>5. CASE PushFinalBaseFails
  <2>1. Placed' /\ Spare(run.new)'
    BY <1>5, <1>a, <1>b DEF PushFinalBaseFails, EarlyDone, RollBack, Run, dnsVars
  <2> QED
    BY <1>5, <1>c, <1>d, <2>1 DEF PushFinalBaseFails, Kept
<1>6. CASE RestoreBaseFails
  <2>1. /\ run.at = "restore" /\ base[run.old] = node[run.old].data
    BY <1>6, <1>b DEF RestoreBaseFails, At, EarlyDone
  <2>2. PICK d \in {base[run.old], {}, node[run.new].data}, a \in BOOLEAN :
          node' = [node EXCEPT ![run.new].data = d, ![run.new].app = a]
    BY <1>6 DEF RestoreBaseFails
  <2>3. d \subseteq node[run.old].data
    <3>1. node[run.new].data \subseteq node[run.old].data
      BY <1>a, <1>b, <2>1 DEF EarlyDone
    <3> QED
      BY <2>1, <2>2, <3>1
  <2>4. UNCHANGED <<base, dns, late, seen, mode, cfg>> /\ RollBack("cutover", run.stopped)
    BY <1>6 DEF RestoreBaseFails, dnsVars
  <2>5. run'.new = run.new
    BY <1>d, <2>4, RunTypes
  <2>6. /\ \A s \in Server : /\ node'[s].life = node[s].life /\ node'[s].fence = node[s].fence
                             /\ node'[s].cron = node[s].cron
        /\ \A s \in Server : node'[s].data = IF s = run.new THEN d ELSE node[s].data
    BY <1>a, <2>2 DEF Node
  <2>7. Placed' /\ Spare(run.new)'
    BY <1>a, <1>b, <2>3, <2>4, <2>5, <2>6 DEF EarlyDone
  <2> QED
    BY <1>6, <1>c, <1>d, <2>4, <2>7 DEF Kept
<1>7. CASE RemoveCronFails
  <2>1. Placed' /\ Spare(run.new)'
    BY <1>7, <1>a, <1>b DEF RemoveCronFails, EarlyDone, Run, Node, dnsVars
  <2> QED
    BY <1>7, <1>c, <2>1 DEF RemoveCronFails, Kept
<1> QED
  BY <1>1, <1>2, <1>3, <1>4, <1>5, <1>6, <1>7

\* The journal: the old server is fenced and pushes no more, the new one has
\* its every write, and nobody was sent there yet.
LEMMA JournalKeeps ==
  ASSUME TypeOK, Control, Kept, WriteJournal
  PROVE  Kept'
<1>a. /\ run \in Run /\ node \in [Server -> Node] /\ cfg \in Config
      /\ run.old \in Server /\ run.new \in Server /\ run.at = "journal"
      /\ dns \in [Name -> Server \cup {None}]
  BY DEF TypeOK, Control, WriteJournal, At, Early
<1>b. /\ Whole(run.old) /\ Spare(run.new) /\ Up(run.new) /\ run.old # run.new
      /\ cfg.server = run.old /\ cfg.marker = run.old
      /\ node[run.old].fence /\ ~node[run.old].cron
      /\ node[run.new].data = node[run.old].data
      /\ mode # "managed" => late = None
  BY <1>a DEF Kept, Placed, EarlyDone, Early, InFlight
<1> DEFINE cut == [old |-> run.old, new |-> run.new, stopped |-> run.stopped, done |-> {}]
<1>1. cut \in Cutover
  BY <1>a DEF Cutover, Run
<1>2. /\ cfg'.cut = cut /\ cfg'.cut # None
      /\ cfg'.server = run.old /\ cfg'.marker = run.old
      /\ run'.at \in {"save", "dns"} /\ run'.cut /\ run'.old = run.old /\ run'.new = run.new
      /\ run'.at = "save" => mode # "managed"
  BY <1>1, <1>a, <1>b, NoneAssumption DEF WriteJournal, Config, Run, Placed
<1>3. GoingOn(run.old, run.new)'
  BY <1>2, <1>a, <1>b
     DEF WriteJournal, GoingOn, OldHeld, NotYet, Whole, Aside, Spare, Gone, Holds, Up, dnsVars
<1>4. Placed'
  BY <1>2, <1>3, <1>b DEF WriteJournal, Placed, InFlight, GoingOn, OldHeld, NotYet, dnsVars
<1>5. FlipDone'
  BY <1>2, <1>3, <1>b, ServerAssumption, <1>a
     DEF WriteJournal, FlipDone, Flip, GoingOn, OldHeld, NotYet, dnsVars
<1> QED
  BY <1>2, <1>4, <1>5 DEF Kept, EarlyDone, BackDone, DeployDone, Early, Back

\* A finish step, journaled or not, keeps the old server held; once it is
\* destroyed or demoted it stays so.
LEMMA FinishKeeps ==
  ASSUME TypeOK, NEW old \in Server, NEW new \in Server, old # new,
         run.old = old, run.new = new, GoingOn(old, new), cfg.server = new,
         NEW step \in Finish, step # "demote" => "demote" \in cfg.cut.done,
         node' = Finished(step), base' = FinishedBase(step),
         UNCHANGED <<late, seen>>, cfg'.server = cfg.server,
         cfg'.cut.done \in {cfg.cut.done, cfg.cut.done \cup {step}}
  PROVE  GoingOn(old, new)'
<1>a. /\ node \in [Server -> Node] /\ base \in [Server -> (SUBSET Write) \cup {None}]
      /\ old \in Server /\ new \in Server /\ old # new
  BY DEF TypeOK
<1>b. /\ \A t \in Server : node'[t].fence = node[t].fence /\ node'[t].data = node[t].data
      /\ \A t \in Server \ {old} : node'[t].life = node[t].life
      /\ \A t \in Server \ {new} : node'[t].cron = node[t].cron /\ base'[t] = base[t]
      /\ IF step = "destroy" THEN node'[old].life = "gone" ELSE node'[old].life = node[old].life
      /\ IF step = "demote" THEN node'[old].role = "standby"
         ELSE node'[old].role = node[old].role
      /\ step = "demote" => node'[new].cron = node[new].cron /\ base'[new] = base[new]
  <2>1. CASE step = "demote"
    BY <1>a, <2>1 DEF Finished, FinishedBase, Node
  <2>2. CASE step = "recreate"
    BY <1>a, <2>2 DEF Finished, FinishedBase, Node
  <2>3. CASE step = "push"
    BY <1>a, <2>3 DEF Finished, FinishedBase, Node
  <2>4. CASE step = "cron"
    BY <1>a, <2>4 DEF Finished, FinishedBase, Node
  <2>5. CASE step = "destroy"
    BY <1>a, <2>5 DEF Finished, FinishedBase, Node
  <2> QED
    BY <2>1, <2>2, <2>3, <2>4, <2>5 DEF Finish
<1>c. GoingOn(old, new) /\ cfg.server = new /\ cfg'.server = new /\ late' = late /\ seen' = seen
  OBVIOUS
<1>1. /\ Up(new)' /\ ~node'[new].fence
      /\ \A t \in Server : node'[t].data \subseteq node'[new].data
      /\ late' # old /\ late' \in {None, old, new}
  BY <1>a, <1>b, <1>c DEF GoingOn, Holds, Up
<1>2. \A t \in Server \ {old, new} :
        (t \notin seen' /\ ~node'[t].fence /\ ~node'[t].cron /\ base'[t] = None)
        \/ node'[t].life = "gone"
  BY <1>b, <1>c DEF GoingOn, Aside, Spare, Gone
<1>3. /\ node'[old].life = "gone"
         \/ (node'[old].life = "up" /\ node'[old].fence /\ ~node'[old].cron)
      /\ "demote" \in cfg'.cut.done \/ node'[new].cron \/ base'[new] # None
           => node'[old].life = "gone" \/ node'[old].role = "standby"
      /\ "destroy" \in cfg'.cut.done => node'[old].life = "gone"
  BY <1>a, <1>b, <1>c DEF GoingOn, OldHeld, Gone, Up
<1> QED
  BY <1>a, <1>c, <1>1, <1>2, <1>3 DEF GoingOn, OldHeld, Aside, Spare, Gone, Holds, Up

\* A step of the flip that keeps the cutover going on keeps the invariant.
LEMMA GoesOn ==
  ASSUME Kept, NEW old \in Server, NEW new \in Server, old # new, GoingOn(old, new)',
         InFlight', cfg'.cut.old = old, cfg'.cut.new = new, cfg'.marker = old,
         mode' # "managed" => late' = None,
         run'.at \in Flip => /\ run'.old = old /\ run'.new = new /\ late' # old
                             /\ run'.at = "finish" => cfg'.server = new,
         run'.at \in (Flip \ {"dns"}) \cup {"idle"}
  PROVE  Kept'
<1>1. GoingOn(cfg.cut.old, cfg.cut.new)'
  BY DEF GoingOn, OldHeld, NotYet, Aside, Spare, Gone, Holds, Up
<1>2. Placed'
  BY <1>1 DEF Placed
<1>3. run'.at \in Flip => GoingOn(run.old, run.new)'
  BY DEF GoingOn, OldHeld, NotYet, Aside, Spare, Gone, Holds, Up
<1>4. FlipDone'
  BY <1>3 DEF FlipDone
<1> QED
  BY <1>2, <1>4 DEF Kept, EarlyDone, BackDone, DeployDone, Early, Flip, Back

\* A failed update that leaves both records on the old server was never seen.
LEMMA Unseen ==
  ASSUME dns \in [Name -> Server \cup {None}],
         NEW old \in Server, NEW new \in Server, old # new,
         NEW timedOut \in BOOLEAN, MoveFails(new, timedOut)
  PROVE  /\ \A n \in Name : dns'[n] = old => dns[n] = old
         /\ (\A n \in Name : dns'[n] = old) => seen' = seen
         /\ seen' \subseteq seen \cup {new} /\ seen \subseteq seen'
         /\ late' \in {None, new} /\ (~timedOut => late' = None)
<1>1. PICK d \in Torn(new) :
        dns' = d /\ seen' = seen \cup (IF new \in {d["apex"], d["wildcard"]} THEN {new} ELSE {})
  BY DEF MoveFails
<1>2. PICK a \in {dns["apex"], None, new}, w \in {dns["wildcard"], None, new} :
        d = [n \in Name |-> IF n = "apex" THEN a ELSE w]
  BY DEF Torn
<1>3. dns'["apex"] = a /\ dns'["wildcard"] = w /\ Name = {"apex", "wildcard"}
  BY <1>1, <1>2 DEF Name
<1>4. old # None
  BY ServerAssumption
<1>5. seen' = seen \cup (IF new \in {a, w} THEN {new} ELSE {})
  BY <1>1, <1>2, <1>3
<1>6. late' \in {None} \cup IF timedOut THEN {new} ELSE {}
  BY DEF MoveFails
<1> QED
  BY <1>3, <1>4, <1>5, <1>6

\* The flip and the finish keep the old server held and the new one whole.
LEMMA FlipKeeps ==
  ASSUME TypeOK, Control, Kept, run.at \in Flip,
         \/ UpdateDns \/ MarkDns \/ SaveServers \/ SaveHalfMoved \/ FinishStep \/ RedoDns
  PROVE  Kept'
<1>0. run.old \in Server /\ run.new \in Server
  BY DEF Control
<1>1. SUFFICES ASSUME NEW old \in Server, NEW new \in Server, old = run.old, new = run.new
               PROVE  Kept'
  BY <1>0
<1>a. /\ run \in Run /\ node \in [Server -> Node] /\ cfg \in Config
      /\ base \in [Server -> (SUBSET Write) \cup {None}]
      /\ dns \in [Name -> Server \cup {None}] /\ None \notin Server
      /\ InFlight /\ cfg.cut.old = old /\ cfg.cut.new = new
  BY <1>1, ServerAssumption DEF TypeOK, Control
<1>b. /\ GoingOn(old, new) /\ old # new /\ cfg.marker = old
      /\ mode # "managed" => late = None
      /\ run.at = "dns" => cfg.server = old
      /\ run.at # "dns" => late # old
      /\ run.at = "finish" => cfg.server = new
  BY <1>1, <1>a DEF Kept, Placed, FlipDone
<1>c. ASSUME NEW step \in Finish \cup {"dns"}, cfg' = [cfg EXCEPT !.cut.done = @ \cup {step}]
      PROVE  /\ InFlight' /\ cfg'.cut.old = old /\ cfg'.cut.new = new
             /\ cfg'.cut.done = cfg.cut.done \cup {step}
             /\ cfg'.server = cfg.server /\ cfg'.marker = old
  BY <1>a, <1>b, <1>c, CutTypes
<1>d. ASSUME NEW step \in Step, run' = [run EXCEPT !.at = step]
      PROVE  run'.at = step /\ run'.old = old /\ run'.new = new
  BY <1>1, <1>a, <1>d DEF Run
<1>e. ASSUME cfg' = [cfg EXCEPT !.server = new]
      PROVE  InFlight' /\ cfg'.cut = cfg.cut /\ cfg'.server = new /\ cfg'.marker = old
  BY <1>a, <1>b, <1>e DEF Config, InFlight
<1> USE DEF At, Flip, GoingOn, OldHeld, NotYet, Aside, Spare, Gone, Holds, Up
<1>2. CASE UpdateDns
  <2>1. /\ run' = [run EXCEPT !.at = "mark"] /\ UNCHANGED <<node, base, mode, cfg>>
        /\ run.at = "dns" /\ IF mode = "managed" THEN Move(new) ELSE UNCHANGED dnsVars
    BY <1>1, <1>2 DEF UpdateDns, Goto
  <2>2. run'.at = "mark" /\ run'.old = old /\ run'.new = new
    BY <1>d, <2>1 DEF Step
  <2>3. GoingOn(old, new)' /\ (mode # "managed" => late' = None) /\ late' # old
    BY <1>a, <1>b, <2>1 DEF Move, dnsVars, Name
  <2>4. InFlight' /\ cfg' = cfg /\ mode' = mode
    BY <1>a, <2>1 DEF InFlight
  <2> HIDE DEF GoingOn
  <2> QED
    BY <1>a, <1>b, <2>2, <2>3, <2>4, GoesOn
<1>3. CASE MarkDns
  <2>1. /\ cfg' = [cfg EXCEPT !.cut.done = @ \cup {"dns"}] /\ run' = [run EXCEPT !.at = "save"]
        /\ UNCHANGED <<node, base, dns, late, seen, mode>> /\ run.at = "mark"
    BY <1>3 DEF MarkDns, Goto, dnsVars
  <2>2. run'.at = "save" /\ run'.old = old /\ run'.new = new
    BY <1>d, <2>1 DEF Step
  <2>3. /\ InFlight' /\ cfg'.cut.old = old /\ cfg'.cut.new = new
        /\ cfg'.cut.done = cfg.cut.done \cup {"dns"}
        /\ cfg'.server = cfg.server /\ cfg'.marker = old
    BY <1>c, <2>1
  <2>4. GoingOn(old, new)' /\ late' # old
    BY <1>a, <1>b, <2>1, <2>3 DEF Finish
  <2> HIDE DEF GoingOn
  <2> QED
    BY <1>b, <2>1, <2>2, <2>3, <2>4, GoesOn
<1>4. CASE SaveServers
  <2>1. /\ cfg' = [cfg EXCEPT !.server = new] /\ run' = [run EXCEPT !.at = "finish"]
        /\ UNCHANGED <<node, base, dns, late, seen, mode>> /\ run.at = "save"
    BY <1>1, <1>4 DEF SaveServers, Goto, dnsVars
  <2>2. run'.at = "finish" /\ run'.old = old /\ run'.new = new
    BY <1>d, <2>1 DEF Step
  <2>3. InFlight' /\ cfg'.cut = cfg.cut /\ cfg'.server = new /\ cfg'.marker = old
    BY <1>e, <2>1
  <2>4. GoingOn(old, new)' /\ late' # old
    BY <1>a, <1>b, <2>1, <2>3
  <2> HIDE DEF GoingOn
  <2> QED
    BY <1>a, <1>b, <2>1, <2>2, <2>3, <2>4, GoesOn
<1>5. CASE SaveHalfMoved
  <2>1. /\ cfg' = [cfg EXCEPT !.server = new] /\ run' = Idle
        /\ UNCHANGED <<node, base, dns, late, seen, mode>> /\ run.at = "half"
    BY <1>1, <1>5 DEF SaveHalfMoved, End, dnsVars
  <2>2. run'.at = "idle" /\ run'.at \notin Flip
    BY <2>1 DEF Idle
  <2>3. InFlight' /\ cfg'.cut = cfg.cut /\ cfg'.server = new /\ cfg'.marker = old
    BY <1>e, <2>1
  <2>4. GoingOn(old, new)'
    BY <1>a, <1>b, <2>1, <2>3
  <2> HIDE DEF GoingOn, Flip
  <2> QED
    BY <1>a, <1>b, <2>1, <2>2, <2>3, <2>4, GoesOn
<1>6. CASE RedoDns
  <2>1. /\ cfg' = [cfg EXCEPT !.cut.done = @ \cup {"dns"}]
        /\ run' = [run EXCEPT !.at = IF cfg.server = new THEN "finish" ELSE "save"]
        /\ IF mode = "managed" THEN Move(new) ELSE UNCHANGED dnsVars
        /\ UNCHANGED <<node, base, mode>> /\ run.at = "redns"
    BY <1>1, <1>6 DEF RedoDns, Goto
  <2>2. /\ run'.at = (IF cfg.server = new THEN "finish" ELSE "save")
        /\ run'.old = old /\ run'.new = new
    BY <1>d, <2>1 DEF Step
  <2>3. /\ InFlight' /\ cfg'.cut.old = old /\ cfg'.cut.new = new
        /\ cfg'.cut.done = cfg.cut.done \cup {"dns"}
        /\ cfg'.server = cfg.server /\ cfg'.marker = old
    BY <1>c, <2>1
  <2>4. GoingOn(old, new)' /\ (mode # "managed" => late' = None) /\ late' # old
    BY <1>a, <1>b, <2>1, <2>3 DEF Move, dnsVars, Name, Finish
  <2> HIDE DEF GoingOn
  <2> QED
    BY <1>a, <1>b, <2>1, <2>2, <2>3, <2>4, GoesOn
<1>7. CASE FinishStep
  <2> DEFINE step == NextFinish(cfg.cut.done)
  <2>1. /\ node' = Finished(step) /\ base' = FinishedBase(step)
        /\ cfg' = [cfg EXCEPT !.cut.done = @ \cup {step}] /\ run' = run /\ run.at = "finish"
        /\ UNCHANGED <<dns, late, seen, mode>>
    BY <1>7 DEF FinishStep, dnsVars
  <2>2. step \in Finish /\ (step # "demote" => "demote" \in cfg.cut.done)
    BY <1>7, FinishOrdered DEF FinishStep
  <2> HIDE DEF step, GoingOn
  <2>3. /\ InFlight' /\ cfg'.cut.old = old /\ cfg'.cut.new = new
        /\ cfg'.cut.done = cfg.cut.done \cup {step}
        /\ cfg'.server = cfg.server /\ cfg'.marker = old
    BY <1>c, <2>1, <2>2
  <2>4. GoingOn(old, new)'
    BY <1>1, <1>b, <2>1, <2>2, <2>3, FinishKeeps
  <2> QED
    BY <1>1, <1>b, <2>1, <2>3, <2>4, GoesOn
<1> QED
  BY <1>2, <1>3, <1>4, <1>5, <1>6, <1>7

\* The cutover is closed with the old server gone: the database is on the new one.
LEMMA CloseKeeps ==
  ASSUME TypeOK, Control, Kept, CloseCutover
  PROVE  Kept'
<1>1. /\ cfg \in Config /\ run.at = "finish" /\ InFlight /\ run.old \in Server
      /\ run.new \in Server /\ cfg.cut.old = run.old /\ cfg.cut.new = run.new
      /\ GoingOn(run.old, run.new) /\ cfg.server = run.new
      /\ mode # "managed" => late = None
  BY DEF CloseCutover, At, TypeOK, Control, Kept, Placed, FlipDone, Flip
<1>2. "destroy" \in cfg.cut.done
  BY DEF CloseCutover, Finish
<1>3. /\ cfg' = [cfg EXCEPT !.marker = None, !.cut = None] /\ run' = [run EXCEPT !.at = "rename"]
      /\ UNCHANGED <<node, base, dns, late, seen, mode>>
  BY DEF CloseCutover, Goto, dnsVars
<1>4. cfg'.server = run.new /\ cfg'.marker = None /\ cfg'.cut = None
  BY <1>1, <1>3 DEF Config
<1>5. Gone(run.old)
  BY <1>1, <1>2 DEF GoingOn, OldHeld
<1>6. Whole(cfg.server)'
  BY <1>1, <1>3, <1>4, <1>5 DEF GoingOn, Whole, Aside, Spare, Gone, Holds, Up
<1>7. Placed'
  BY <1>1, <1>3, <1>4, <1>6 DEF Placed, InFlight
<1>8. run'.at = "rename"
  BY <1>3 DEF TypeOK, Run
<1> QED
  BY <1>4, <1>7, <1>8 DEF Kept, EarlyDone, FlipDone, BackDone, DeployDone, InFlight, Early, Flip,
                          Back

\* A name at the provider is no part of where the database is.
LEMMA RenameKeeps ==
  ASSUME TypeOK, Control, Kept, Rename \/ RenameFails
  PROVE  Kept'
<1>1. /\ node \in [Server -> Node] /\ run' = Idle
      /\ UNCHANGED <<base, dns, late, seen, mode, cfg>>
  BY DEF Rename, RenameFails, End, TypeOK, dnsVars
<1>2. \E t : node' = [node EXCEPT ![run.new].temp = t]
  BY DEF Rename, RenameFails
<1>3. \A s \in Server : /\ node'[s].life = node[s].life /\ node'[s].fence = node[s].fence
                        /\ node'[s].cron = node[s].cron /\ node'[s].role = node[s].role
                        /\ node'[s].data = node[s].data
  BY <1>1, <1>2 DEF Node
<1>4. ~InFlight /\ cfg.server \in Server
  BY DEF Rename, RenameFails, At, Kept, DeployDone, TypeOK, Config
<1>5. Placed'
  BY <1>1, <1>3, <1>4 DEF Kept, Placed, InFlight, Whole, Aside, Spare, Gone, Holds, Up
<1> QED
  BY <1>1, <1>5, Ended DEF Kept, Idle

\* What is left on the way: the same cutover, as far as it got.
LEMMA LeftGoing ==
  ASSUME Kept, NEW old \in Server, NEW new \in Server, old # new, GoingOn(old, new)',
         InFlight', cfg'.cut.old = old, cfg'.cut.new = new, cfg'.marker = old,
         mode' # "managed" => late' = None, run' = Idle
  PROVE  Kept'
<1>1. run'.at = "idle" /\ run'.at \notin Flip
  BY DEF Idle, Flip
<1> QED
  BY <1>1, GoesOn

\* A flip or a finish that fails holds the cutover for a rerun, unless both
\* records answer for the old server and nothing is under way: it goes back.
LEMMA FlipFailKeeps ==
  ASSUME TypeOK, Control, Kept, run.at \in Flip,
         UpdateDnsFails \/ SaveServersFails \/ FinishStepFails \/ RedoDnsFails
  PROVE  Kept'
<1>0. run.old \in Server /\ run.new \in Server
  BY DEF Control
<1>1. SUFFICES ASSUME NEW old \in Server, NEW new \in Server, old = run.old, new = run.new
               PROVE  Kept'
  BY <1>0
<1>a. /\ run \in Run /\ node \in [Server -> Node] /\ cfg \in Config
      /\ base \in [Server -> (SUBSET Write) \cup {None}]
      /\ dns \in [Name -> Server \cup {None}] /\ None \notin Server
      /\ InFlight /\ cfg.cut.old = old /\ cfg.cut.new = new
  BY <1>1, ServerAssumption DEF TypeOK, Control
<1>b. /\ GoingOn(old, new) /\ old # new /\ cfg.marker = old
      /\ mode # "managed" => late = None
      /\ run.at = "dns" => cfg.server = old /\ run.cut
      /\ run.at # "dns" => late # old
      /\ run.at = "finish" => cfg.server = new
  BY <1>1, <1>a DEF Kept, Placed, FlipDone
<1>2. CASE UpdateDnsFails
  <2>1. PICK timedOut \in BOOLEAN, unread \in BOOLEAN :
          /\ MoveFails(new, timedOut)
          /\ run' = AfterDnsError[IF unread THEN "unknown" ELSE ReadMove(dns', old, new, timedOut)]
    BY <1>1, <1>2 DEF UpdateDnsFails
  <2> DEFINE move == IF unread THEN "unknown" ELSE ReadMove(dns', old, new, timedOut)
  <2>2. UNCHANGED <<node, base, mode, cfg>> /\ mode = "managed" /\ cfg.server = old
    BY <1>1, <1>2, <1>b DEF UpdateDnsFails, At
  <2>3. /\ \A n \in Name : dns'[n] = old => dns[n] = old
        /\ (\A n \in Name : dns'[n] = old) => seen' = seen
        /\ seen' \subseteq seen \cup {new} /\ seen \subseteq seen'
        /\ late' \in {None, new} /\ (~timedOut => late' = None)
    BY <1>a, <1>b, <2>1, Unseen
  <2>4. move \in {"old", "unknown", "partial", "moved"}
    BY <2>1 DEF ReadMove
  <2>5. /\ move = "old" => ~timedOut /\ \A n \in Name : dns'[n] = old
        /\ move \in {"partial", "moved"} => \E n \in Name : dns'[n] # old
    BY <1>b, <2>1 DEF ReadMove, Name
  <2>6. run' = AfterDnsError[move]
    BY <2>1
  <2>7. InFlight' /\ cfg'.cut = cfg.cut /\ cfg'.server = old /\ cfg'.marker = old
    BY <1>a, <1>b, <2>2 DEF InFlight
  <2>8. ASSUME \E n \in Name : dns'[n] # old
        PROVE  GoingOn(old, new)'
    <3>1. new \in seen' => \E n \in Name : dns'[n] # old
      BY <2>8
    <3>2. \A t \in Server \ {old, new} : Aside(t)'
      BY <1>b, <2>2, <2>3 DEF GoingOn, Aside, Spare, Gone
    <3>3. late' # old /\ late' \in {None, old, new}
      BY <1>a, <1>b, <2>3
    <3> QED
      BY <1>b, <2>2, <2>3, <2>7, <2>8, <3>2, <3>3
         DEF GoingOn, OldHeld, NotYet, Gone, Holds, Up
  <2>9. ASSUME \A n \in Name : dns'[n] = old
        PROVE  GoingOn(old, new)' /\ new \notin seen' /\ seen' = seen
    <3>1. seen' = seen /\ \A n \in Name : dns[n] = old
      BY <2>3, <2>9
    <3>2. new \notin seen
      BY <1>b, <2>2, <3>1 DEF GoingOn, NotYet
    <3>3. late' \in {None, old, new}
      BY <2>3
    <3> QED
      BY <1>b, <2>2, <2>7, <3>1, <3>2, <3>3
         DEF GoingOn, OldHeld, NotYet, Aside, Spare, Gone, Holds, Up
  <2>10. GoingOn(old, new)'
    BY <2>8, <2>9
  <2> HIDE DEF move
  <2>11. CASE move = "old"
    <3>1. run' = [run EXCEPT !.at = "unfence", !.undo = "cutover", !.named = FALSE]
      BY <2>6, <2>11 DEF AfterDnsError
    <3>2. /\ run'.at = "unfence" /\ run'.undo = "cutover" /\ ~run'.named
          /\ run'.old = old /\ run'.new = new /\ run'.cut = run.cut
      BY <1>1, <1>a, <3>1 DEF Run
    <3>3. late' = None /\ seen' = seen /\ new \notin seen' /\ \A n \in Name : dns'[n] = old
      BY <2>3, <2>5, <2>9, <2>11
    <3>4. GoingBack(cfg.cut.old, cfg.cut.new)' /\ GoingBack(run.old, run.new)'
      BY <1>a, <1>b, <2>2, <2>7, <3>2, <3>3
         DEF GoingOn, GoingBack, OldHeld, NotYet, Whole, Aside, Spare, Gone, Holds, Up
    <3>5. Placed'
      BY <1>a, <1>b, <2>2, <2>7, <3>4 DEF Placed
    <3>6. run.cut
      BY <1>2, <1>b DEF UpdateDnsFails, At
    <3>7. BackDone'
      BY <1>a, <1>b, <2>7, <3>2, <3>4, <3>6 DEF BackDone, GoingBack, Spare
    <3> QED
      BY <3>2, <3>5, <3>7 DEF Kept, EarlyDone, FlipDone, DeployDone, Early, Flip
  <2>12. CASE move = "unknown"
    <3>1. run' = Idle
      BY <2>6, <2>12 DEF AfterDnsError
    <3> QED
      BY <1>a, <1>b, <2>2, <2>7, <2>10, <3>1, LeftGoing
  <2>13. CASE move \in {"partial", "moved"}
    <3>1. run' = [run EXCEPT !.at = IF move = "partial" THEN "half" ELSE "mark"]
      BY <2>6, <2>13 DEF AfterDnsError
    <3>2. run'.at \in {"half", "mark"} /\ run'.old = old /\ run'.new = new
      BY <1>1, <1>a, <3>1 DEF Run
    <3> QED
      BY <1>a, <1>b, <2>2, <2>3, <2>7, <2>10, <3>2, GoesOn DEF Flip
  <2> QED
    BY <2>4, <2>11, <2>12, <2>13
<1>3. CASE SaveServersFails
  <2>1. PICK s \in {new, cfg.server} : cfg' = [cfg EXCEPT !.server = s]
    BY <1>1, <1>3 DEF SaveServersFails, Maybe
  <2>2. run' = Idle /\ UNCHANGED <<node, base, dns, late, seen, mode>> /\ late # old
    BY <1>1, <1>3, <1>b DEF SaveServersFails, End, dnsVars, At
  <2>3. InFlight' /\ cfg'.cut = cfg.cut /\ cfg'.server = s /\ cfg'.marker = old
    BY <1>a, <1>b, <2>1 DEF Config, InFlight
  <2>4. GoingOn(old, new)'
    BY <1>a, <1>b, <2>1, <2>2, <2>3
       DEF GoingOn, OldHeld, NotYet, Aside, Spare, Gone, Holds, Up
  <2> QED
    BY <1>a, <1>b, <2>2, <2>3, <2>4, LeftGoing
<1>4. CASE FinishStepFails
  <2> DEFINE step == NextFinish(cfg.cut.done)
  <2>1. /\ \/ node' = Finished(step) /\ base' = FinishedBase(step)
           \/ UNCHANGED <<node, base>>
        /\ UNCHANGED <<dns, late, seen, mode, cfg>> /\ run' = Idle /\ run.at = "finish"
    BY <1>4 DEF FinishStepFails, End, At, dnsVars
  <2>2. step \in Finish /\ (step # "demote" => "demote" \in cfg.cut.done)
    BY <1>4, FinishOrdered DEF FinishStepFails
  <2> HIDE DEF step
  <2>3. InFlight' /\ cfg'.cut = cfg.cut /\ cfg'.marker = old
    BY <1>a, <1>b, <2>1 DEF InFlight
  <2>4. GoingOn(old, new)'
    <3>1. CASE node' = Finished(step) /\ base' = FinishedBase(step)
      BY <1>1, <1>b, <2>1, <2>2, <3>1, FinishKeeps
    <3>2. CASE UNCHANGED <<node, base>>
      BY <1>b, <2>1, <3>2 DEF GoingOn, OldHeld, NotYet, Aside, Spare, Gone, Holds, Up
    <3> QED
      BY <2>1, <3>1, <3>2
  <2> QED
    BY <1>a, <1>b, <2>1, <2>3, <2>4, LeftGoing
<1>5. CASE RedoDnsFails
  <2>1. PICK timedOut \in BOOLEAN : MoveFails(new, timedOut)
    BY <1>1, <1>5 DEF RedoDnsFails
  <2>2. /\ run' = Idle /\ UNCHANGED <<node, base, mode, cfg>> /\ mode = "managed"
    BY <1>1, <1>5 DEF RedoDnsFails, End, At
  <2>3. /\ \A n \in Name : dns'[n] = old => dns[n] = old
        /\ (\A n \in Name : dns'[n] = old) => seen' = seen
        /\ seen' \subseteq seen \cup {new} /\ seen \subseteq seen' /\ late' \in {None, new}
    BY <1>a, <1>b, <2>1, Unseen
  <2>4. InFlight' /\ cfg'.cut = cfg.cut /\ cfg'.marker = old
    BY <1>a, <1>b, <2>2 DEF InFlight
  <2>5. \A t \in Server \ {old, new} : Aside(t)'
    BY <1>b, <2>2, <2>3 DEF GoingOn, Aside, Spare, Gone
  <2>6. cfg.server = old => NotYet(old, new)'
    BY <1>a, <1>b, <2>2, <2>3 DEF GoingOn, NotYet, Holds, Up
  <2>7. GoingOn(old, new)'
    BY <1>a, <1>b, <2>2, <2>3, <2>5, <2>6 DEF GoingOn, OldHeld, Gone, Holds, Up
  <2> QED
    BY <1>a, <1>b, <2>2, <2>4, <2>7, LeftGoing
<1> QED
  BY <1>2, <1>3, <1>4, <1>5

\* What a rollback finds: the database on the old server, which is on record;
\* no client was sent to the new one, or a journal says where to go back to.
LEMMA BackStands ==
  ASSUME TypeOK, Control, Kept, run.at \in Back
  PROVE  /\ Whole(run.old) /\ Spare(run.new) /\ run.old # run.new /\ cfg.server = run.old
         /\ cfg.marker \in {None, run.old} /\ ~run.named
         /\ run.old \in Server /\ run.new \in Server
         /\ mode # "managed" => late = None
         /\ InFlight => /\ cfg.cut.old = run.old /\ cfg.cut.new = run.new
                        /\ cfg.marker = run.old /\ run.cut
                        /\ mode = "managed" /\ \A n \in Name : dns[n] = run.old
<1>1. /\ run.old = cfg.server /\ run.new # run.old /\ ~run.named /\ Spare(run.new)
      /\ InFlight => /\ cfg.cut.old = run.old /\ cfg.cut.new = run.new /\ run.cut
                     /\ GoingBack(run.old, run.new)
      /\ Placed
  BY DEF Kept, BackDone
<1>2. run.old \in Server /\ run.new \in Server
  BY DEF Control
<1>3. CASE InFlight
  BY <1>1, <1>2, <1>3 DEF GoingBack, Placed
<1>4. CASE ~InFlight
  BY <1>1, <1>2, <1>4 DEF Placed
<1> QED
  BY <1>3, <1>4

\* A rollback that changes no data, no server but the old one for the better
\* and the new one for the worse, and the records only with the journal, goes on.
LEMMA BackOn ==
  ASSUME TypeOK, Control, Kept, run.at \in Back,
         NEW old \in Server, NEW new \in Server, old = run.old, new = run.new,
         \A t \in Server : node'[t].data = node[t].data,
         node'[old].life = node[old].life,
         \A t \in Server \ {old} : /\ node'[t].fence = node[t].fence
                                   /\ node'[t].cron = node[t].cron
                                   /\ node'[t].life \in {node[t].life, "gone"},
         UNCHANGED <<base, dns, late, seen, mode>>,
         cfg'.server = cfg.server,
         cfg'.marker = cfg.marker \/ (cfg'.marker = None /\ ~node'[old].fence),
         node'[old].fence => node[old].fence,
         InFlight' => cfg' = cfg,
         run'.at \in Back =>
           /\ run'.old = old /\ run'.new = new /\ run'.named = run.named
           /\ run'.cut = run.cut /\ (run'.undo = "resume" => mode = "managed")
           /\ run'.at = "repoint" => ~InFlight',
         run'.at \in Back \cup {"idle"}
  PROVE  Kept'
<1>1. /\ Whole(old) /\ Spare(new) /\ old # new /\ cfg.server = old
      /\ cfg.marker \in {None, old} /\ ~run.named
      /\ mode # "managed" => late = None
      /\ InFlight => /\ cfg.cut.old = old /\ cfg.cut.new = new
                     /\ cfg.marker = old /\ run.cut
                     /\ mode = "managed" /\ \A n \in Name : dns[n] = old
  BY BackStands
<1>2. Whole(old)' /\ Spare(new)'
  BY <1>1 DEF Whole, Aside, Spare, Gone, Holds, Up
<1>3. cfg'.server = old /\ cfg'.marker \in {None, old}
  BY <1>1
<1>4. InFlight' => InFlight /\ cfg' = cfg
  BY DEF InFlight
<1>5. InFlight' => GoingBack(old, new)'
  BY <1>1, <1>2, <1>4 DEF GoingBack
<1>6. /\ InFlight' => GoingBack(cfg.cut.old, cfg.cut.new)'
      /\ ~InFlight' => Whole(cfg.server)'
  BY <1>1, <1>2, <1>3, <1>4, <1>5 DEF GoingBack, Whole, Aside, Spare, Gone, Holds, Up
<1>7. Placed'
  BY <1>1, <1>3, <1>4, <1>6 DEF Placed
<1>8. run'.at \in Back => Spare(run.new)' /\ (InFlight' => GoingBack(run.old, run.new)')
  BY <1>2, <1>5 DEF GoingBack, Whole, Aside, Spare, Gone, Holds, Up
<1>9. BackDone'
  BY <1>1, <1>3, <1>4, <1>8 DEF BackDone
<1> QED
  BY <1>7, <1>9 DEF Kept, EarlyDone, FlipDone, DeployDone, Early, Flip, Back

\* The step a rollback goes to.
LEMMA UndoMoves ==
  ASSUME TypeOK, Control, run.at \in Back \ {"repoint", "keep"}, UndoStep
  PROVE  /\ run'.at \in Back /\ run'.undo = run.undo /\ run'.named = run.named
         /\ run'.old = run.old /\ run'.new = run.new /\ run'.cut = run.cut
         /\ run'.at = "repoint" => run.at = "unjournal"
<1>1. /\ run \in Run /\ UndoNext \in Back /\ run' = [run EXCEPT !.at = UndoNext]
      /\ run.undo \in {"fence", "cutover", "resume"} /\ run.at \in Path[run.undo]
  BY UndoSteps DEF UndoStep, Goto, TypeOK, Run, Control
<1>2. UndoNext = "repoint" => run.at = "unjournal"
  <2>1. CASE run.undo = "fence"
    BY <1>1, <2>1 DEF UndoNext, Undo, Path
  <2>2. CASE run.undo = "cutover"
    BY <1>1, <2>2 DEF UndoNext, Undo, Path
  <2>3. CASE run.undo = "resume"
    BY <1>1, <2>3 DEF UndoNext, Undo, Path
  <2> QED
    BY <1>1, <2>1, <2>2, <2>3
<1> QED
  BY <1>1, <1>2 DEF Run

\* The rollback.
LEMMA BackKeeps ==
  ASSUME TypeOK, Control, Kept, run.at \in Back,
         \/ Unfence \/ StartWriters \/ RestoreCron \/ ClearJournal \/ DeleteNew \/ Keep
         \/ UnfenceFails \/ StartWritersFails \/ RestoreCronFails \/ ClearJournalFails
         \/ DeleteNewFails
  PROVE  Kept'
<1>0. run.old \in Server /\ run.new \in Server
  BY DEF Control
<1>1. SUFFICES ASSUME NEW old \in Server, NEW new \in Server, old = run.old, new = run.new
               PROVE  Kept'
  BY <1>0
<1>a. /\ run \in Run /\ node \in [Server -> Node] /\ cfg \in Config
      /\ old # new /\ ~run.named /\ (InFlight => run.cut)
      /\ run.undo = "resume" => mode = "managed"
  BY <1>1, BackStands DEF TypeOK, Kept, BackDone
<1>b. ASSUME run.at \notin {"repoint", "keep"}, UndoStep
      PROVE  /\ run'.at \in Back /\ run'.old = old /\ run'.new = new /\ run'.cut = run.cut
             /\ run'.named = run.named /\ (run'.undo = "resume" => mode = "managed")
             /\ run'.at = "repoint" => run.at = "unjournal"
  BY <1>1, <1>a, <1>b, UndoMoves
<1>c. ASSUME End PROVE run'.at = "idle" /\ run'.at \notin Back
  BY <1>c DEF End, Idle, Back
<1>2. CASE Unfence
  <2>1. /\ node' = [node EXCEPT ![old].fence = FALSE] /\ UNCHANGED <<base, dns, late, seen, mode>>
        /\ cfg' = [cfg EXCEPT !.marker = None, !.cut = None] /\ UndoStep /\ run.at = "unfence"
    BY <1>1, <1>2 DEF Unfence, At, dnsVars
  <2>2. cfg'.server = cfg.server /\ cfg'.marker = None /\ ~InFlight'
    BY <1>a, <2>1 DEF Config, InFlight
  <2>3. /\ \A t \in Server : node'[t].data = node[t].data /\ node'[t].life = node[t].life
        /\ \A t \in Server \ {old} : node'[t] = node[t]
        /\ ~node'[old].fence
    BY <1>a, <2>1 DEF Node
  <2> QED
    BY <1>1, <1>b, <2>1, <2>2, <2>3, BackOn
<1>3. CASE UnfenceFails
  <2>1. PICK f \in Maybe(FALSE, node[old].fence) : node' = [node EXCEPT ![old].fence = f]
    BY <1>1, <1>3 DEF UnfenceFails
  <2>2. UNCHANGED <<base, dns, late, seen, mode, cfg>> /\ UndoStep /\ run.at = "unfence"
    BY <1>3 DEF UnfenceFails, At, dnsVars
  <2>3. /\ \A t \in Server : node'[t].data = node[t].data /\ node'[t].life = node[t].life
        /\ \A t \in Server \ {old} : node'[t] = node[t]
        /\ node'[old].fence => node[old].fence
    BY <1>a, <2>1 DEF Node, Maybe
  <2> QED
    BY <1>1, <1>b, <2>2, <2>3, BackOn
<1>4. CASE StartWriters \/ RestoreCron
  <2>1. /\ UNCHANGED <<base, dns, late, seen, mode, cfg>> /\ UndoStep
        /\ run.at \in {"start", "recron"}
    BY <1>4 DEF StartWriters, RestoreCron, At, dnsVars
  <2>2. \E b : node' = [node EXCEPT ![old].app = b] \/ node' = [node EXCEPT ![old].cron = b]
    BY <1>1, <1>4 DEF StartWriters, RestoreCron
  <2>3. /\ \A t \in Server : node'[t].data = node[t].data /\ node'[t].life = node[t].life
                             /\ node'[t].fence = node[t].fence
        /\ \A t \in Server \ {old} : node'[t] = node[t]
    BY <1>a, <2>2 DEF Node
  <2> QED
    BY <1>1, <1>b, <2>1, <2>3, BackOn
<1>5. CASE StartWritersFails \/ RestoreCronFails
  <2>1. /\ UNCHANGED <<base, dns, late, seen, mode, cfg>> /\ UndoStep
        /\ run.at \in {"start", "recron"}
    BY <1>5 DEF StartWritersFails, RestoreCronFails, At, dnsVars
  <2>2. node' = node \/ \E b : node' = [node EXCEPT ![old].app = b]
    BY <1>1, <1>5 DEF StartWritersFails, RestoreCronFails
  <2>3. /\ \A t \in Server : node'[t].data = node[t].data /\ node'[t].life = node[t].life
                             /\ node'[t].fence = node[t].fence
        /\ \A t \in Server \ {old} : node'[t] = node[t]
    BY <1>a, <2>2 DEF Node
  <2> QED
    BY <1>1, <1>b, <2>1, <2>3, BackOn
<1>6. CASE ClearJournal
  <2>1. /\ UNCHANGED <<node, base, dns, late, seen, mode>> /\ UndoStep /\ run.at = "unjournal"
        /\ cfg' = [cfg EXCEPT !.cut = IF run.cut THEN None ELSE @]
    BY <1>6 DEF ClearJournal, At, dnsVars
  <2>2. cfg'.server = cfg.server /\ cfg'.marker = cfg.marker /\ ~InFlight'
    BY <1>a, <2>1 DEF Config, InFlight
  <2> QED
    BY <1>1, <1>b, <2>1, <2>2, BackOn
<1>7. CASE ClearJournalFails
  <2>1. /\ UNCHANGED <<node, base, dns, late, seen, mode, cfg>>
        /\ End \/ run' = [run EXCEPT !.at = "keep"]
    BY <1>7 DEF ClearJournalFails, Goto, dnsVars
  <2>2. CASE End
    BY <1>1, <1>c, <2>1, <2>2, BackOn
  <2>3. CASE run' = [run EXCEPT !.at = "keep"]
    <3>1. /\ run'.at = "keep" /\ run'.old = old /\ run'.new = new /\ run'.cut = run.cut
          /\ run'.named = run.named /\ run'.undo = run.undo
      BY <1>1, <1>a, <2>3 DEF Run
    <3> QED
      BY <1>1, <1>a, <2>1, <3>1, BackOn DEF Back
  <2> QED
    BY <2>1, <2>2, <2>3
<1>8. CASE DeleteNew \/ DeleteNewFails
  <2>1. /\ UNCHANGED <<base, dns, late, seen, mode, cfg>> /\ run.at = "delete"
        /\ End \/ UndoStep
        /\ \E l \in Maybe("gone", node[new].life) : node' = [node EXCEPT ![new].life = l]
    BY <1>1, <1>8 DEF DeleteNew, DeleteNewFails, At, UndoStep, Maybe, dnsVars
  <2>2. /\ \A t \in Server : /\ node'[t].data = node[t].data /\ node'[t].fence = node[t].fence
                             /\ node'[t].cron = node[t].cron
                             /\ node'[t].life \in {node[t].life, "gone"}
        /\ node'[old].life = node[old].life
    BY <1>a, <2>1 DEF Node, Maybe
  <2>3. CASE End
    BY <1>1, <1>c, <2>1, <2>2, <2>3, BackOn
  <2>4. CASE UndoStep
    BY <1>1, <1>b, <2>1, <2>2, <2>4, BackOn
  <2> QED
    BY <2>1, <2>3, <2>4
<1>9. CASE Keep
  <2>1. UNCHANGED <<node, base, dns, late, seen, mode, cfg>> /\ End
    BY <1>a, <1>9 DEF Keep, dnsVars
  <2> QED
    BY <1>1, <1>c, <2>1, BackOn
<1> QED
  BY <1>2, <1>3, <1>4, <1>5, <1>6, <1>7, <1>8, <1>9

\* Clients, the cron, reboots, the provider and the operator do not move the database.
LEMMA WorldKeeps ==
  ASSUME TypeOK, Control, Kept,
         \/ LateDns
         \/ \E s \in Server : Reboot(s) \/ CronBackup(s) \/ OperatorPoints(s)
         \/ \E s \in Server, w \in Write : Commit(s, w)
  PROVE  Kept'
<1>a. /\ run \in Run /\ node \in [Server -> Node] /\ cfg \in Config
      /\ base \in [Server -> (SUBSET Write) \cup {None}]
      /\ dns \in [Name -> Server \cup {None}] /\ late \in Server \cup {None}
      /\ cfg.server \in Server /\ None \notin Server
  BY ServerAssumption DEF TypeOK, Config
<1>b. /\ run.at \in Early \cup Flip \cup Back => run.old \in Server /\ run.new \in Server
      /\ InFlight => cfg.cut.old \in Server /\ cfg.cut.new \in Server
      /\ run.at \in Flip => InFlight /\ cfg.cut.old = run.old /\ cfg.cut.new = run.new
  BY <1>a DEF Control, Config, Cutover, InFlight
<1>c. Placed /\ EarlyDone /\ FlipDone /\ BackDone /\ DeployDone
  BY DEF Kept
<1> USE DEF Early, Flip, Back
<1>1. CASE \E s \in Server : Reboot(s)
  <2>1. /\ UNCHANGED <<base, dns, late, seen, mode, cfg, run>>
        /\ \A t \in Server : /\ node'[t].life = node[t].life /\ node'[t].fence = node[t].fence
                             /\ node'[t].cron = node[t].cron /\ node'[t].role = node[t].role
                             /\ node'[t].data = node[t].data
    BY <1>1, <1>a DEF Reboot, Node, dnsVars
  <2>2. Placed'
    BY <1>a, <1>b, <1>c, <2>1
       DEF Placed, InFlight, Whole, GoingBack, GoingOn, OldHeld, NotYet, Aside, Spare, Gone,
           Holds, Up
  <2>3. EarlyDone'
    BY <1>a, <1>b, <1>c, <2>1 DEF EarlyDone, InFlight, Spare, Up
  <2>4. FlipDone'
    BY <1>a, <1>b, <1>c, <2>1
       DEF FlipDone, GoingOn, OldHeld, NotYet, Aside, Spare, Gone, Holds, Up
  <2>5. BackDone'
    BY <1>a, <1>b, <1>c, <2>1
       DEF BackDone, InFlight, GoingBack, Whole, Aside, Spare, Gone, Holds, Up
  <2> QED
    BY <1>c, <2>1, <2>2, <2>3, <2>4, <2>5 DEF Kept, DeployDone, InFlight
<1>2. CASE \E s \in Server : CronBackup(s)
  <2>1. PICK s \in Server : CronBackup(s)
    BY <1>2
  <2>2. /\ UNCHANGED <<node, dns, late, seen, mode, cfg, run>>
        /\ Up(s) /\ node[s].cron /\ node[s].role = "primary"
        /\ \A t \in Server : base'[t] = IF t = s THEN node[s].data ELSE base[t]
    BY <2>1, <1>a DEF CronBackup, dnsVars
  <2>3. Placed'
    BY <1>a, <1>b, <1>c, <2>2
       DEF Placed, InFlight, Whole, GoingBack, GoingOn, OldHeld, NotYet, Aside, Spare, Gone,
           Holds, Up
  <2>4. EarlyDone'
    BY <1>a, <1>b, <1>c, <2>2 DEF EarlyDone, InFlight, Spare, Up
  <2>5. FlipDone'
    BY <1>a, <1>b, <1>c, <2>2
       DEF FlipDone, GoingOn, OldHeld, NotYet, Aside, Spare, Gone, Holds, Up
  <2>6. BackDone'
    BY <1>a, <1>b, <1>c, <2>2
       DEF BackDone, InFlight, GoingBack, Whole, Aside, Spare, Gone, Holds, Up
  <2> QED
    BY <1>c, <2>2, <2>3, <2>4, <2>5, <2>6 DEF Kept, DeployDone, InFlight
<1>3. CASE \E s \in Server, w \in Write : Commit(s, w)
  <2>1. PICK s \in Server, w \in Write : Commit(s, w)
    BY <1>3
  <2>2. /\ UNCHANGED <<base, dns, late, seen, mode, cfg, run>>
        /\ s \in seen /\ Up(s) /\ ~node[s].fence
        /\ node' = [node EXCEPT ![s].data = @ \cup {w}]
    BY <2>1 DEF Commit, TakesWrites, dnsVars
  <2>3. node[s] \in Node
    BY <1>a
  <2>4. /\ \A t \in Server : /\ node'[t].life = node[t].life /\ node'[t].fence = node[t].fence
                             /\ node'[t].cron = node[t].cron /\ node'[t].role = node[t].role
        /\ \A t \in Server \ {s} : node'[t].data = node[t].data
        /\ node'[s].data = node[s].data \cup {w}
    BY <1>a, <2>2, <2>3 DEF Node
  <2>5. ASSUME NEW x \in Server, Whole(x) PROVE Whole(x)'
    <3>1. s = x
      BY <2>2, <2>5 DEF Whole, Aside, Spare, Gone, Up
    <3> QED
      BY <2>2, <2>4, <2>5, <3>1 DEF Whole, Aside, Spare, Gone, Holds, Up
  <2>6. ASSUME NEW old \in Server, NEW new \in Server, old # new, GoingOn(old, new)
        PROVE  GoingOn(old, new)'
    <3>1. s = new
      BY <2>2, <2>6 DEF GoingOn, OldHeld, Aside, Spare, Gone, Up
    <3> QED
      BY <2>2, <2>4, <2>6, <3>1 DEF GoingOn, OldHeld, NotYet, Aside, Spare, Gone, Holds, Up
  <2>7. ASSUME NEW old \in Server, NEW new \in Server, GoingBack(old, new)
        PROVE  GoingBack(old, new)'
    BY <2>2, <2>4, <2>5, <2>7 DEF GoingBack, Spare
  <2>8. Placed'
    <3>1. InFlight' = InFlight /\ cfg' = cfg
      BY <2>2 DEF InFlight
    <3>2. ~InFlight => Whole(cfg.server)'
      <4>1. SUFFICES ASSUME ~InFlight, NEW x \in Server, x = cfg.server PROVE Whole(x)'
        BY <1>a, <2>2 DEF Whole, Aside, Spare, Gone, Holds, Up
      <4> QED
        BY <1>c, <2>5, <4>1 DEF Placed
    <3>3. InFlight => GoingBack(cfg.cut.old, cfg.cut.new)' \/ GoingOn(cfg.cut.old, cfg.cut.new)'
      <4>1. SUFFICES ASSUME InFlight, NEW old \in Server, NEW new \in Server,
                            old = cfg.cut.old, new = cfg.cut.new
                     PROVE  GoingBack(old, new)' \/ GoingOn(old, new)'
        BY <1>b, <2>2 DEF GoingBack, Whole, GoingOn, OldHeld, NotYet, Aside, Spare, Gone, Holds, Up
      <4> QED
        BY <1>c, <2>6, <2>7, <4>1 DEF Placed
    <3> QED
      BY <1>c, <2>2, <3>1, <3>2, <3>3 DEF Placed
  <2>9. EarlyDone'
    BY <1>a, <1>b, <1>c, <2>2, <2>4 DEF EarlyDone, Placed, Whole, Aside, Gone, InFlight, Spare, Up
  <2>10. FlipDone'
    <3>1. run.at \in Flip => GoingOn(run.old, run.new)'
      <4>1. SUFFICES ASSUME run.at \in Flip, NEW old \in Server, NEW new \in Server,
                            old = run.old, new = run.new
                     PROVE  GoingOn(old, new)'
        BY <1>b, <2>2 DEF GoingOn, OldHeld, NotYet, Aside, Spare, Gone, Holds, Up
      <4> QED
        BY <1>b, <1>c, <2>6, <4>1 DEF FlipDone, Placed
    <3> QED
      BY <1>c, <2>2, <3>1 DEF FlipDone
  <2>11. BackDone'
    <3>1. run.at \in Back /\ InFlight => GoingBack(run.old, run.new)'
      <4>1. SUFFICES ASSUME run.at \in Back, InFlight, NEW old \in Server, NEW new \in Server,
                            old = run.old, new = run.new
                     PROVE  GoingBack(old, new)'
        BY <1>b, <2>2 DEF GoingBack, Whole, Aside, Spare, Gone, Holds, Up
      <4> QED
        BY <1>c, <2>7, <4>1 DEF BackDone
    <3> QED
      BY <1>b, <1>c, <2>2, <2>4, <3>1 DEF BackDone, InFlight, Spare
  <2> QED
    BY <1>c, <2>2, <2>8, <2>9, <2>10, <2>11 DEF Kept, DeployDone, InFlight
<1>4. CASE LateDns
  <2>1. /\ UNCHANGED <<node, base, mode, cfg, run>> /\ late # None /\ late' = None
        /\ seen' = seen \cup {late} /\ mode = "managed"
    BY <1>4, <1>c DEF LateDns, Placed
  <2>2. PICK N \in {{"wildcard"}, Name} : dns' = [n \in Name |-> IF n \in N THEN late ELSE dns[n]]
    BY <1>4 DEF LateDns
  <2>3. dns'["wildcard"] = late /\ dns'["apex"] \in {late, dns["apex"]}
    BY <2>2 DEF Name
  <2>4. Placed'
    BY <1>a, <1>b, <1>c, <2>1, <2>3
       DEF Placed, InFlight, Whole, GoingBack, GoingOn, OldHeld, NotYet, Aside, Spare, Gone,
           Holds, Up, Name
  <2>5. EarlyDone'
    BY <1>a, <1>b, <1>c, <2>1 DEF EarlyDone, Placed, Whole, InFlight, Spare, Up
  <2>6. FlipDone'
    BY <1>a, <1>b, <1>c, <2>1, <2>3
       DEF FlipDone, GoingOn, OldHeld, NotYet, Aside, Spare, Gone, Holds, Up, Name
  <2>7. BackDone'
    BY <1>a, <1>b, <1>c, <2>1, <2>3
       DEF BackDone, Placed, InFlight, GoingBack, Whole, Aside, Spare, Gone, Holds, Up, Name
  <2> QED
    BY <1>c, <2>1, <2>4, <2>5, <2>6, <2>7 DEF Kept, DeployDone, InFlight
<1>5. CASE \E s \in Server : OperatorPoints(s)
  <2>1. PICK s \in Server : OperatorPoints(s)
    BY <1>5
  <2>2. /\ UNCHANGED <<node, base, mode, cfg, run>> /\ mode # "managed"
        /\ seen' = seen \cup {s} /\ late' = None
        /\ s = cfg.server \/ (InFlight /\ s = cfg.cut.new)
    BY <2>1 DEF OperatorPoints, Asked, Move
  <2>3. InFlight => GoingOn(cfg.cut.old, cfg.cut.new) /\ cfg.cut.old # cfg.cut.new
    BY <1>c, <2>2 DEF Placed, GoingBack
  <2>4. ASSUME NEW old \in Server, NEW new \in Server, old # new, GoingOn(old, new), s \in {old, new}
        PROVE  GoingOn(old, new)'
    BY <1>a, <2>2, <2>4 DEF GoingOn, OldHeld, NotYet, Aside, Spare, Gone, Holds, Up
  <2>5. InFlight => GoingOn(cfg.cut.old, cfg.cut.new)'
    <3>1. SUFFICES ASSUME InFlight, NEW old \in Server, NEW new \in Server,
                          old = cfg.cut.old, new = cfg.cut.new
                   PROVE  GoingOn(old, new)'
      BY <1>b, <2>2 DEF GoingOn, OldHeld, NotYet, Aside, Spare, Gone, Holds, Up
    <3>2. s \in {old, new}
      BY <2>2, <2>3, <3>1 DEF GoingOn
    <3> QED
      BY <2>3, <2>4, <3>1, <3>2
  <2>6. Placed'
    BY <1>a, <1>c, <2>2, <2>5 DEF Placed, InFlight, Whole, Aside, Spare, Gone, Holds, Up
  <2>7. EarlyDone'
    BY <1>a, <1>b, <1>c, <2>2 DEF EarlyDone, InFlight, Spare, Up
  <2>8. FlipDone'
    <3>1. run.at \in Flip => GoingOn(run.old, run.new)'
      BY <1>b, <2>2, <2>5 DEF GoingOn, OldHeld, NotYet, Aside, Spare, Gone, Holds, Up
    <3> QED
      BY <1>a, <1>b, <1>c, <2>2, <3>1 DEF FlipDone
  <2>9. BackDone'
    BY <1>a, <1>b, <1>c, <2>2 DEF BackDone, InFlight, GoingBack, Spare
  <2> QED
    BY <1>c, <2>2, <2>6, <2>7, <2>8, <2>9 DEF Kept, DeployDone, InFlight
<1> QED
  BY <1>1, <1>2, <1>3, <1>4, <1>5

\* A database in its one place stays there under anything done to that server alone.
LEMMA WholeStays ==
  ASSUME NEW s \in Server, Whole(s),
         \A t \in Server : node'[t].data = node[t].data,
         \A t \in Server \ {s} : node'[t] = node[t] /\ base'[t] = base[t],
         node'[s].life = node[s].life, node'[s].fence => node[s].fence,
         cfg'.marker = cfg.marker \/ ~node'[s].fence,
         seen' \subseteq seen \cup {s}, late' \in {None, s}
  PROVE  Whole(s)'
BY DEF Whole, Aside, Spare, Gone, Holds, Up

\* No scale is under way, and no journal.
LEMMA Rests ==
  ASSUME NEW s \in Server, Whole(s)', cfg'.server = s, cfg'.marker \in {None, s}, ~InFlight',
         mode' # "managed" => late' = None,
         run'.at \notin Early \cup Flip \cup Back
  PROVE  Kept'
<1>1. Whole(cfg.server)'
  BY DEF Whole, Aside, Spare, Gone, Holds, Up
<1> QED
  BY <1>1 DEF Kept, Placed, EarlyDone, FlipDone, BackDone, DeployDone

\* What a failed update may have done.
LEMMA MayMove ==
  ASSUME NEW s, NEW timedOut, MoveFails(s, timedOut)
  PROVE  seen' \subseteq seen \cup {s} /\ late' \in {None, s}
BY DEF MoveFails

\* The rollback of a rerun ends with the records on the old server.
LEMMA RepointKeeps ==
  ASSUME TypeOK, Control, Kept, Repoint \/ RepointFails
  PROVE  Kept'
<1>0. run.at \in Back /\ run.at = "repoint"
  BY DEF Repoint, RepointFails, At, Back
<1>1. SUFFICES ASSUME NEW s \in Server, s = cfg.server PROVE Kept'
  BY DEF TypeOK, Config
<1>2. /\ Whole(s) /\ ~InFlight /\ cfg.marker \in {None, s} /\ mode = "managed"
  <2>1. BackDone /\ run.undo = "resume"
    BY <1>0 DEF Kept, Control, Path, TypeOK, Run
  <2> QED
    BY <1>0, <1>1, <2>1, BackStands DEF BackDone
<1>3. UNCHANGED <<node, base, mode, cfg>> /\ run' = Idle
  BY DEF Repoint, RepointFails, End
<1>4. seen' \subseteq seen \cup {s} /\ late' \in {None, s}
  BY <1>1, MayMove DEF Repoint, RepointFails, Move
<1>5. Whole(s)'
  BY <1>2, <1>3, <1>4, WholeStays
<1>6. run'.at \notin Early \cup Flip \cup Back
  BY <1>3 DEF Idle, Early, Flip, Back
<1> QED
  BY <1>1, <1>2, <1>3, <1>5, <1>6, Rests DEF InFlight

\* A rerun goes back when both records answer for the old server, and on otherwise.
LEMMA ResumeKeeps ==
  ASSUME TypeOK, Control, Kept, ~LateAnytime, Resume
  PROVE  Kept'
<1>1. /\ cfg \in Config /\ InFlight /\ late' = None
      /\ UNCHANGED <<node, base, dns, seen, mode, cfg>>
  BY DEF Resume, TypeOK
<1>2. SUFFICES ASSUME NEW old \in Server, NEW new \in Server,
                      old = cfg.cut.old, new = cfg.cut.new
               PROVE  Kept'
  BY <1>1 DEF InFlight, Config, Cutover
<1>3. old # new /\ cfg.marker = old /\ (GoingBack(old, new) \/ GoingOn(old, new))
  BY <1>1, <1>2 DEF Kept, Placed
<1>4. InFlight' /\ cfg' = cfg /\ mode \in {"managed", "manual", "none"}
  BY <1>1, ModesAssumption DEF InFlight, TypeOK
<1>5. CASE "old" \in Reads /\ run' = Resumed("delete")
  <2>1. mode = "managed" /\ cfg.server # new /\ \A n \in Name : dns[n] = old
    BY <1>2, <1>4, <1>5 DEF Reads, Recorded, ReadMove
  <2>2. GoingBack(old, new)'
    BY <1>1, <1>3, <1>4, <2>1
       DEF GoingBack, GoingOn, OldHeld, NotYet, Whole, Aside, Spare, Gone, Holds, Up
  <2>3. /\ run'.at = "delete" /\ run'.old = old /\ run'.new = new /\ run'.cut /\ ~run'.named
    BY <1>2, <1>5 DEF Resumed, Idle
  <2>4. GoingBack(cfg.cut.old, cfg.cut.new)' /\ GoingBack(run.old, run.new)'
    BY <1>2, <1>4, <2>2, <2>3 DEF GoingBack, Whole, Aside, Spare, Gone, Holds, Up
  <2>5. Placed'
    BY <1>1, <1>2, <1>3, <1>4, <2>4 DEF Placed
  <2>6. BackDone'
    BY <1>1, <1>2, <1>3, <1>4, <2>1, <2>3, <2>4 DEF BackDone, GoingBack
  <2> QED
    BY <2>3, <2>5, <2>6 DEF Kept, EarlyDone, FlipDone, DeployDone, Early, Flip
<1>6. CASE Reads \cap {"moved", "partial"} # {} /\ run' = Resumed(Adopt)
  <2>1. cfg.server = new \/ mode # "managed" \/ \E n \in Name : dns[n] # old
    <3>1. SUFFICES ASSUME cfg.server # new, mode = "managed", \A n \in Name : dns[n] = old
                   PROVE  Reads = {"old"}
      BY <1>6
    <3>2. ~\A n \in Name : dns[n] = new
      BY <1>3, <3>1 DEF Name
    <3> QED
      BY <1>2, <3>1, <3>2 DEF Reads, Recorded, ReadMove
  <2>2. GoingOn(old, new)
    BY <1>2, <1>3, <2>1 DEF GoingBack
  <2>3. GoingOn(old, new)'
    BY <1>1, <2>2, ServerAssumption
       DEF GoingOn, OldHeld, NotYet, Aside, Spare, Gone, Holds, Up
  <2>4. /\ run'.at = Adopt /\ run'.old = old /\ run'.new = new
    BY <1>2, <1>6 DEF Resumed, Idle
  <2>5. Adopt \in {"redns", "finish", "save"} /\ (Adopt = "finish" => cfg.server = new)
    BY <1>2 DEF Adopt, Recorded
  <2> QED
    BY <1>1, <1>2, <1>3, <1>4, <2>3, <2>4, <2>5, GoesOn, ServerAssumption DEF Flip
<1> QED
  BY <1>5, <1>6 DEF Resume

\* A replacement a scale is handed, new or left over, is spare until the scale
\* says otherwise.
LEMMA Handed ==
  ASSUME TypeOK, Kept, NEW s \in Server, s # cfg.server, Prepare(s) \/ PrepareFails(s)
  PROVE  /\ Spare(s) /\ \A t \in Server \ {s} : node'[t] = node[t]
         /\ node'[s].fence = node[s].fence /\ node'[s].cron = node[s].cron
         /\ node'[s].data = node[s].data
         /\ Prepare(s) => node'[s].life = "up"
<1>1. node \in [Server -> Node] /\ ~InFlight /\ cfg.server \in Server
  BY DEF Prepare, PrepareFails, TypeOK, Config
<1>2. node[s].life \in {"unmade", "up"}
  BY DEF Prepare, PrepareFails, Replacement, Bears, Up
<1>3. Spare(s)
  BY <1>1, <1>2 DEF Kept, Placed, Whole, Aside, Gone
<1>4. PICK l, a : node' = [node EXCEPT ![s].life = l, ![s].temp = TRUE, ![s].app = a]
                  /\ (Prepare(s) => l = "up")
  <2>1. CASE Prepare(s)
    BY <2>1 DEF Prepare
  <2>2. CASE PrepareFails(s) /\ ~Prepare(s)
    BY <2>2 DEF PrepareFails
  <2> QED
    BY <2>1, <2>2
<1>5. node' = [node EXCEPT ![s] = [node[s] EXCEPT !.life = l, !.temp = TRUE, !.app = a]]
  BY <1>1, <1>4
<1>6. node[s] \in Node
  BY <1>1
<1> DEFINE made == [node[s] EXCEPT !.life = l, !.temp = TRUE, !.app = a]
<1>7. /\ made.life = l /\ made.fence = node[s].fence /\ made.cron = node[s].cron
      /\ made.data = node[s].data
  BY <1>6 DEF Node
<1> HIDE DEF made
<1>8. node'[s] = made /\ \A t \in Server \ {s} : node'[t] = node[t]
  BY <1>1, <1>5 DEF made
<1> QED
  BY <1>3, <1>4, <1>7, <1>8

LEMMA PrepareKeeps ==
  ASSUME TypeOK, Control, Kept, NEW s \in Server, Prepare(s) \/ PrepareFails(s), ~used'.self
  PROVE  Kept'
<1>1. /\ ~InFlight /\ cfg.server \in Server /\ UNCHANGED <<base, dns, late, seen, mode, cfg>>
  BY DEF Prepare, PrepareFails, TypeOK, Config, dnsVars
<1>2. SUFFICES ASSUME NEW x \in Server, x = cfg.server PROVE Kept'
  BY <1>1
<1>3. Whole(x) /\ cfg.marker \in {None, x} /\ (mode # "managed" => late = None)
  BY <1>1, <1>2 DEF Kept, Placed
<1>4. s # x
  BY <1>2, Handing
<1>5. /\ Spare(s) /\ \A t \in Server \ {s} : node'[t] = node[t]
      /\ node'[s].fence = node[s].fence /\ node'[s].cron = node[s].cron
      /\ node'[s].data = node[s].data
      /\ Prepare(s) => node'[s].life = "up"
  BY <1>2, <1>4, Handed
<1>6. Spare(s)' /\ Whole(x)'
  BY <1>1, <1>3, <1>4, <1>5 DEF Whole, Aside, Spare, Gone, Holds, Up
<1>7. CASE Prepare(s)
  <2>1. /\ run' = [Idle EXCEPT !.at = "marker", !.old = cfg.server, !.undo = "fence", !.new = s]
        /\ node'[s].life = "up"
    BY <1>5, <1>7 DEF Prepare
  <2>2. run'.at = "marker" /\ run'.old = x /\ run'.new = s /\ ~run'.named
    BY <1>2, <2>1 DEF Idle
  <2>3. Placed'
    <3>1. Whole(cfg.server)'
      BY <1>1, <1>2, <1>6 DEF Whole, Aside, Spare, Gone, Holds, Up
    <3> QED
      BY <1>1, <1>2, <1>3, <3>1 DEF Placed, InFlight
  <2>4. EarlyDone'
    <3>1. Spare(run.new)' /\ Up(run.new)'
      BY <1>6, <2>1, <2>2 DEF Spare, Up
    <3> QED
      BY <1>1, <1>2, <1>4, <1>5, <2>2, <3>1 DEF EarlyDone, InFlight
  <2> QED
    BY <2>2, <2>3, <2>4 DEF Kept, FlipDone, BackDone, DeployDone, Flip, Back
<1>8. CASE PrepareFails(s)
  <2>1. run' = run /\ run.at = "idle"
    BY <1>8 DEF PrepareFails, At
  <2> QED
    BY <1>1, <1>2, <1>3, <1>6, <2>1, Rests DEF InFlight, Early, Flip, Back
<1> QED
  BY <1>7, <1>8

\* A deploy and a backup work on the server of record.
LEMMA DeployKeeps ==
  ASSUME TypeOK, Control, Kept,
         Deploy \/ BringUp \/ BringUpFails \/ ProbeWritable \/ ProbeWritableFails \/ Backup
  PROVE  Kept'
<1>1. /\ node \in [Server -> Node] /\ cfg \in Config /\ base \in [Server -> (SUBSET Write) \cup {None}]
      /\ ~InFlight /\ late \in Server \cup {None}
  BY DEF Deploy, BringUp, BringUpFails, ProbeWritable, ProbeWritableFails, Backup, At, TypeOK,
         Kept, DeployDone
<1>2. SUFFICES ASSUME NEW s \in Server, s = cfg.server PROVE Kept'
  BY <1>1 DEF Config
<1>3. /\ Whole(s) /\ cfg.marker \in {None, s} /\ (mode # "managed" => late = None)
      /\ late \in {None, s}
  BY <1>1, <1>2 DEF Kept, Placed, Whole
<1>4. /\ mode' = mode /\ run'.at \notin Early \cup Flip \cup Back
  <2>1. mode' = mode
    BY DEF Deploy, BringUp, BringUpFails, ProbeWritable, ProbeWritableFails, Backup
  <2>2. run'.at \in {"idle", "up", "probe"}
    BY DEF Deploy, BringUp, BringUpFails, ProbeWritable, ProbeWritableFails, Backup, At,
           End, Goto, Idle, TypeOK, Run
  <2> QED
    BY <2>1, <2>2 DEF Early, Flip, Back
<1>5. ASSUME cfg' = cfg \/ cfg' = Unmarked
      PROVE  cfg'.server = s /\ cfg'.marker \in {None, s} /\ ~InFlight'
  BY <1>1, <1>2, <1>3, <1>5 DEF Unmarked, InFlight, Config
<1>6. ASSUME node' = node \/ node' = Lifted
      PROVE  /\ \A t \in Server : node'[t].data = node[t].data
             /\ \A t \in Server \ {s} : node'[t] = node[t]
             /\ node'[s].life = node[s].life /\ (node'[s].fence => node[s].fence)
             /\ node' = Lifted => ~node'[s].fence
  BY <1>1, <1>2, <1>6 DEF Lifted, Node
<1>7. CASE Deploy \/ ProbeWritable \/ ProbeWritableFails
  <2>1. UNCHANGED <<base, dns, late, seen>>
    BY <1>7 DEF Deploy, ProbeWritable, ProbeWritableFails, dnsVars
  <2>2. /\ node' = node \/ node' = Lifted
        /\ cfg' = cfg \/ (cfg' = Unmarked /\ (node' = Lifted \/ ~node[s].fence))
    <3>1. CASE Deploy
      BY <1>2, <1>3, <3>1 DEF Deploy, Maybe, Whole
    <3>2. CASE ProbeWritable \/ ProbeWritableFails
      BY <1>2, <3>2 DEF ProbeWritable, ProbeWritableFails, Maybe
    <3> QED
      BY <1>7, <3>1, <3>2
  <2>3. Whole(s)'
    BY <1>3, <1>6, <2>1, <2>2, WholeStays
  <2> QED
    BY <1>3, <1>4, <1>5, <2>1, <2>2, <2>3, Rests
<1>8. CASE BringUp \/ BringUpFails
  <2>1. UNCHANGED <<base, cfg>>
    BY <1>8 DEF BringUp, BringUpFails
  <2>2. PICK a, c \in BOOLEAN : node' = [node EXCEPT ![s].app = @ \/ a, ![s].cron = @ \/ c]
                               \/ node' = [node EXCEPT ![s].app = TRUE, ![s].cron = TRUE]
    BY <1>2, <1>8 DEF BringUp, BringUpFails
  <2>3. /\ \A t \in Server : node'[t].data = node[t].data
        /\ \A t \in Server \ {s} : node'[t] = node[t]
        /\ node'[s].life = node[s].life /\ (node'[s].fence => node[s].fence)
    BY <1>1, <2>2 DEF Node
  <2>4. \/ mode = "managed" /\ seen' \subseteq seen \cup {s} /\ late' \in {None, s}
        \/ UNCHANGED <<late, seen>>
    BY <1>2, <1>8, MayMove DEF BringUp, BringUpFails, Move, dnsVars
  <2>5. Whole(s)'
    BY <1>3, <2>1, <2>3, <2>4, WholeStays
  <2> QED
    BY <1>3, <1>4, <1>5, <2>1, <2>4, <2>5, Rests
<1>9. CASE Backup
  <2>1. /\ UNCHANGED <<node, late, seen, cfg>> /\ base' = [base EXCEPT ![s] = node[s].data]
    BY <1>2, <1>9 DEF Backup, dnsVars
  <2>2. \A t \in Server \ {s} : base'[t] = base[t]
    BY <1>1, <2>1
  <2>3. Whole(s)'
    BY <1>3, <2>1, <2>2, WholeStays
  <2> QED
    BY <1>3, <1>4, <1>5, <2>1, <2>3, Rests
<1> QED
  BY <1>7, <1>8, <1>9

\* A command that dies leaves what is on record.
LEMMA KillKeeps == ASSUME Kept, Kill PROVE Kept'
<1>1. /\ UNCHANGED <<node, base, dns, late, seen, mode, cfg>> /\ run' = Idle
  BY DEF Kill, End, dnsVars
<1>2. Placed'
  BY <1>1 DEF Kept, Placed, InFlight, Whole, GoingBack, GoingOn, OldHeld, NotYet, Aside, Spare,
              Gone, Holds, Up
<1> QED
  BY <1>1, <1>2, Ended DEF Kept, Idle

\* What spends a promise spends it for good: a failed save of the journal, or a
\* scale that is handed the server of record.
LEMMA Slips ==
  ASSUME TypeOK, [Next]_vars, Promised'
  PROVE  Promised /\ ~WriteJournalFails /\ ~MarkDnsFails
<1> USE DEF Promised
<1>a. used \in Counts
  BY DEF TypeOK, Counts
<1>b. ASSUME UNCHANGED used \/ Fault \/ \E s \in Server : FaultAt(s)
      PROVE  used'.slip = used.slip /\ used'.self = used.self
  BY <1>b, Spending
<1>1. ~WriteJournalFails /\ ~MarkDnsFails
  BY Spending DEF WriteJournalFails, MarkDnsFails
<1>2. CASE UNCHANGED vars
  BY <1>1, <1>2 DEF vars
<1>3. CASE Work
  BY <1>1, <1>3
     DEF Work, WriteMarker, StopWriters, FenceDatabase, AwaitArchive, PushFinalBase, RestoreBase,
         RemoveCron, WriteJournal, UpdateDns, MarkDns, SaveServers, SaveHalfMoved, FinishStep,
         CloseCutover, Rename, Unfence, StartWriters, RestoreCron, ClearJournal, DeleteNew,
         Repoint, Keep, RedoDns, BringUp, ProbeWritable
<1>4. CASE Kill
  BY <1>a, <1>1, <1>4 DEF Kill, Counts
<1>5. CASE Trouble /\ ~Kill
  <2>1. UNCHANGED used \/ Fault \/ (\E s : FaultAt(s))
    BY <1>1, <1>5
       DEF Trouble, WriteMarkerFails, StopWritersFails, FenceDatabaseFails, AwaitArchiveFails,
           PushFinalBaseFails, RestoreBaseFails, RemoveCronFails, UpdateDnsFails, SaveServersFails,
           FinishStepFails, RenameFails, UnfenceFails, StartWritersFails, RestoreCronFails,
           ClearJournalFails, DeleteNewFails, RepointFails, RedoDnsFails, BringUpFails,
           ProbeWritableFails
  <2> QED
    BY <1>1, <2>1, Spending DEF FaultAt
<1>6. CASE World
  <2>1. UNCHANGED used \/ Fault
    BY <1>6 DEF World, Backup, LateDns, Reboot, CronBackup, OperatorPoints, Commit
  <2> QED
    BY <1>b, <1>1, <2>1
<1>7. CASE Operator
  <2>1. CASE Resume \/ Deploy
    <3>1. UNCHANGED used \/ Fault \/ FaultAt(cfg.server)
      BY <2>1 DEF Resume, Deploy
    <3> QED
      BY <1>1, <3>1, Spending DEF FaultAt
  <2>2. ASSUME NEW s \in Server, Prepare(s) \/ PrepareFails(s)
        PROVE  used'.slip = used.slip /\ (used.self => used'.self)
    BY <2>2, Handing
  <2> QED
    BY <1>1, <1>7, <2>1, <2>2 DEF Operator
<1> QED
  BY <1>2, <1>3, <1>4, <1>5, <1>6, <1>7 DEF Next

\* While every save of the journal lands, and a scale is handed another server
\* than the one of record, no step loses the database.
LEMMA KeptStep ==
  ASSUME TypeOK, Control, Kept, ~LateAnytime, Promised', [Next]_vars
  PROVE  Kept'
<1>0. ~WriteJournalFails /\ ~MarkDnsFails
  BY Slips
<1>1. CASE UNCHANGED vars
  BY <1>1 DEF vars, Kept, Placed, EarlyDone, FlipDone, BackDone, DeployDone, InFlight, Whole,
              GoingBack, GoingOn, OldHeld, NotYet, Aside, Spare, Gone, Holds, Up
<1>2. CASE \/ WriteMarker \/ StopWriters \/ FenceDatabase \/ AwaitArchive \/ PushFinalBase
           \/ RestoreBase \/ RemoveCron
  <2>1. run.at \in Early
    BY <1>2 DEF WriteMarker, StopWriters, FenceDatabase, AwaitArchive, PushFinalBase,
       RestoreBase, RemoveCron, At, Early
  <2> QED
    BY <1>2, <2>1, EarlyKeeps
<1>3. CASE \/ WriteMarkerFails \/ StopWritersFails \/ FenceDatabaseFails \/ AwaitArchiveFails
           \/ PushFinalBaseFails \/ RestoreBaseFails \/ RemoveCronFails
  <2>1. run.at \in Early
    BY <1>3 DEF WriteMarkerFails, StopWritersFails, FenceDatabaseFails, AwaitArchiveFails,
       PushFinalBaseFails, RestoreBaseFails, RemoveCronFails, At, Early
  <2> QED
    BY <1>3, <2>1, EarlyFailKeeps
<1>4. CASE UpdateDns \/ MarkDns \/ SaveServers \/ SaveHalfMoved \/ FinishStep \/ RedoDns
  <2>1. run.at \in Flip
    BY <1>4 DEF UpdateDns, MarkDns, SaveServers, SaveHalfMoved, FinishStep, RedoDns, At, Flip
  <2> QED
    BY <1>4, <2>1, FlipKeeps
<1>5. CASE UpdateDnsFails \/ SaveServersFails \/ FinishStepFails \/ RedoDnsFails
  <2>1. run.at \in Flip
    BY <1>5 DEF UpdateDnsFails, SaveServersFails, FinishStepFails, RedoDnsFails, At, Flip
  <2> QED
    BY <1>5, <2>1, FlipFailKeeps
<1>6. CASE \/ Unfence \/ StartWriters \/ RestoreCron \/ ClearJournal \/ DeleteNew \/ Keep
           \/ UnfenceFails \/ StartWritersFails \/ RestoreCronFails \/ ClearJournalFails
           \/ DeleteNewFails
  <2>1. run.at \in Back
    BY <1>6 DEF Unfence, StartWriters, RestoreCron, ClearJournal, DeleteNew, Keep, UnfenceFails,
       StartWritersFails, RestoreCronFails, ClearJournalFails, DeleteNewFails, At, Back
  <2> QED
    BY <1>6, <2>1, BackKeeps
<1>7. CASE Repoint \/ RepointFails
  BY <1>7, RepointKeeps
<1>8. CASE WriteJournal \/ CloseCutover \/ Rename \/ RenameFails
  BY <1>8, JournalKeeps, CloseKeeps, RenameKeeps
<1>9. CASE Kill
  BY <1>9, KillKeeps
<1>10. CASE BringUp \/ BringUpFails \/ ProbeWritable \/ ProbeWritableFails \/ Backup \/ Deploy
  BY <1>10, DeployKeeps
<1>11. CASE World /\ ~Backup
  BY <1>11, WorldKeeps DEF World
<1>12. CASE Operator /\ ~Deploy
  BY <1>12, ResumeKeeps, PrepareKeeps DEF Operator, Promised
<1> QED
  BY <1>0, <1>1, <1>2, <1>3, <1>4, <1>5, <1>6, <1>7, <1>8, <1>9, <1>10, <1>11, <1>12
     DEF Next, Work, Trouble, World, Operator

\* The one server starts whole.
LEMMA InitKept == Init => Kept
<1> SUFFICES ASSUME NEW s \in Server,
               /\ node = [t \in Server |-> IF t = s THEN Serving ELSE Unmade]
               /\ base = [t \in Server |-> None]
               /\ dns = [n \in Name |-> s] /\ late = None /\ seen = {s} /\ mode \in DnsModes
               /\ cfg = [server |-> s, marker |-> None, cut |-> None]
               /\ run = Idle /\ used = [faults |-> 0, kills |-> 0, slip |-> FALSE, self |-> FALSE]
             PROVE  Kept
  BY DEF Init
<1>1. Whole(s)
  BY DEF Whole, Serving, Unmade, Up, Holds, Aside, Spare
<1> QED
  BY <1>1 DEF Kept, Placed, InFlight, EarlyDone, FlipDone, BackDone, DeployDone, Idle, Early,
              Flip, Back

-----------------------------------------------------------------------------
(* The theorems.                                                           *)

\* Every variable keeps its type, also over failed saves of the journal.
THEOREM CutoverTypeCorrect == Spec => []TypeOK
<1>1. Init => TypeOK /\ Control
  BY InitTypes
<1>2. TypeOK /\ Control /\ [Next]_vars => TypeOK' /\ Control'
  BY TypesStep
<1> QED
  BY <1>1, <1>2, PTL DEF Spec

\* The database is on the server of record, or a journal names the server it
\* comes from and the one it goes to, and which of the two has everything.
THEOREM CutoverInvariant == Spec => []CutoverInv
<1>1. Init => CutoverInv
  BY InitTypes, InitKept DEF CutoverInv
<1>2. CutoverInv /\ [Next]_vars => CutoverInv'
  <2> SUFFICES ASSUME TypeOK, Control, Sound => Kept, [Next]_vars PROVE CutoverInv'
    BY DEF CutoverInv
  <2>1. TypeOK' /\ Control'
    BY TypesStep
  <2>2. ASSUME ~LateAnytime, Promised' PROVE Kept'
    <3>1. Promised
      BY <2>2, Slips
    <3> QED
      BY <2>2, <3>1, KeptStep DEF Sound
  <2> QED
    BY <2>1, <2>2 DEF CutoverInv, Sound
<1> QED
  BY <1>1, <1>2, PTL DEF Spec

\* Some server the record names holds everything and runs; the others neither
\* take writes nor push as primary.
LEMMA Keepers ==
  ASSUME TypeOK, Kept
  PROVE  \E h \in OnRecord :
           /\ h \in Server /\ Up(h) /\ node[h].data = Acked
           /\ \A t \in Server \ {h} : ~TakesWrites(t) /\ (Up(t) => ~node[t].cron)
<1>1. cfg.server \in Server /\ (InFlight => cfg.cut.old \in Server /\ cfg.cut.new \in Server)
  BY DEF TypeOK, Config, Cutover, InFlight
<1>2. ASSUME NEW h \in Server, Holds(h) PROVE node[h].data = Acked
  BY <1>2 DEF Holds, Acked
<1>3. ASSUME NEW h \in Server, Whole(h)
      PROVE  /\ Up(h) /\ node[h].data = Acked
             /\ \A t \in Server \ {h} : ~TakesWrites(t) /\ (Up(t) => ~node[t].cron)
  BY <1>2, <1>3 DEF Whole, Aside, Spare, Gone, Up, TakesWrites
<1>4. ASSUME NEW old \in Server, NEW new \in Server, GoingOn(old, new)
      PROVE  /\ Up(new) /\ node[new].data = Acked
             /\ \A t \in Server \ {new} : ~TakesWrites(t) /\ (Up(t) => ~node[t].cron)
  BY <1>2, <1>4 DEF GoingOn, OldHeld, Aside, Spare, Gone, Up, TakesWrites
<1>5. CASE ~InFlight
  BY <1>1, <1>3, <1>5 DEF Kept, Placed, OnRecord
<1>6. CASE InFlight
  <2>1. GoingBack(cfg.cut.old, cfg.cut.new) \/ GoingOn(cfg.cut.old, cfg.cut.new)
    BY <1>6 DEF Kept, Placed
  <2> QED
    BY <1>1, <1>3, <1>4, <1>6, <2>1 DEF OnRecord, GoingBack
<1> QED
  BY <1>5, <1>6

\* The invariant says what the runs check, state by state.
LEMMA KeptPromises ==
  ASSUME TypeOK, Promised => Kept
  PROVE  NoForkedWrites /\ RecordHoldsAll /\ FenceOnRecord /\ NextBaseHoldsAll /\ ArchivesAlone
<1>1. CASE ~Promised
  BY <1>1 DEF NoForkedWrites, RecordHoldsAll, FenceOnRecord, NextBaseHoldsAll, ArchivesAlone
<1>2. CASE Promised
  <2>1. PICK h \in OnRecord :
           /\ h \in Server /\ Up(h) /\ node[h].data = Acked
           /\ \A t \in Server \ {h} : ~TakesWrites(t) /\ (Up(t) => ~node[t].cron)
    BY <1>2, Keepers
  <2>2. NoForkedWrites /\ RecordHoldsAll /\ NextBaseHoldsAll
    BY <2>1 DEF NoForkedWrites, RecordHoldsAll, RecordReachesAll, NextBaseHoldsAll
  <2>3. cfg.server \in Server /\ (InFlight => cfg.cut.old \in Server /\ cfg.cut.new \in Server)
    BY DEF TypeOK, Config, Cutover, InFlight
  <2>4. /\ ~InFlight => Whole(cfg.server)
        /\ InFlight => /\ cfg.marker = cfg.cut.old
                       /\ GoingBack(cfg.cut.old, cfg.cut.new) \/ GoingOn(cfg.cut.old, cfg.cut.new)
    BY <1>2 DEF Kept, Placed
  <2>5. FenceOnRecord
    BY <2>3, <2>4 DEF FenceOnRecord, GoingBack, GoingOn, OldHeld, Whole, Aside, Spare, Gone, Up
  <2>6. ArchivesAlone
    BY <2>3, <2>4 DEF ArchivesAlone, GoingBack, GoingOn, OldHeld, NotYet, Whole, Aside, Spare,
                      Gone, Up
  <2> QED
    BY <2>2, <2>5, <2>6
<1> QED
  BY <1>1, <1>2

\* Below, a DNS write that timed out lands before a rerun reads the records
\* back, or never; and each statement holds until a save of the journal fails or
\* a scale is handed the server of record as its replacement (Promised): runs
\* show what becomes of the record after either.

\* Wherever a client may still be sent, a server that takes writes holds every
\* write ever acknowledged.
THEOREM CutoverForksNoWrites == ASSUME ~LateAnytime PROVE Spec => []NoForkedWrites
<1>1. CutoverInv => NoForkedWrites
  BY KeptPromises DEF CutoverInv, Sound
<1> QED
  BY <1>1, CutoverInvariant, PTL

\* Some server the record names runs and holds every write, also when the
\* replacement was a leftover: a failed save and the server of record taken for
\* its own replacement are the only ways to lose it.
THEOREM CutoverRecordHoldsAll == ASSUME ~LateAnytime PROVE Spec => []RecordHoldsAll
<1>1. CutoverInv => RecordHoldsAll
  BY KeptPromises DEF CutoverInv, Sound
<1> QED
  BY <1>1, CutoverInvariant, PTL

\* A running server whose database refuses writes has its marker.
THEOREM CutoverFenceOnRecord == ASSUME ~LateAnytime PROVE Spec => []FenceOnRecord
<1>1. CutoverInv => FenceOnRecord
  BY KeptPromises DEF CutoverInv, Sound
<1> QED
  BY <1>1, CutoverInvariant, PTL

\* A cron that pushes as primary pushes every write.
THEOREM CutoverNextBaseHoldsAll == ASSUME ~LateAnytime PROVE Spec => []NextBaseHoldsAll
<1>1. CutoverInv => NextBaseHoldsAll
  BY KeptPromises DEF CutoverInv, Sound
<1> QED
  BY <1>1, CutoverInvariant, PTL

\* Two servers with a base never archive side by side.
THEOREM CutoverArchivesAlone == ASSUME ~LateAnytime PROVE Spec => []ArchivesAlone
<1>1. CutoverInv => ArchivesAlone
  BY KeptPromises DEF CutoverInv, Sound
<1> QED
  BY <1>1, CutoverInvariant, PTL

-----------------------------------------------------------------------------
(* One database that moves between servers.                                *)

\* h has everything; no other server takes writes, whatever starts its app.
Keeper(h) ==
  Holds(h) /\ \A t \in Server \ {h} : t \notin seen \/ ~Up(t) \/ node[t].fence

\* Nothing moves when no server and no resolver changes.
LEMMA Stutters ==
  ASSUME node' = node, seen' = seen
  PROVE  Moved!Step
<1>1. {s \in Server : TakesWrites(s)}' = {s \in Server : TakesWrites(s)}
  BY DEF TakesWrites, Up
<1>2. [s \in Server |-> node[s].data]' = [s \in Server |-> node[s].data]
  OBVIOUS
<1> QED
  BY <1>1, <1>2 DEF Moved!Step

\* With one keeper before and after, and no data written, it goes on serving,
\* starts or stops.
LEMMA KeeperServes ==
  ASSUME TypeOK, NEW h \in Server, Keeper(h),
         \A t \in Server : node'[t].data = node[t].data,
         \A t \in Server \ {h} : t \notin seen' \/ node'[t].life # "up" \/ node'[t].fence
  PROVE  Moved!Step
<1> DEFINE W == {s \in Server : TakesWrites(s)}
           H == [s \in Server |-> node[s].data]
<1>2. H' = H
  OBVIOUS
<1>3. W \subseteq {h} /\ W' \subseteq {h}
  BY DEF Keeper, TakesWrites, Up
<1>4. \A t \in Server : H[t] \subseteq H[h]
  BY DEF Keeper, Holds
<1>5. CASE W' = W
  BY <1>2, <1>5 DEF Moved!Step
<1>6. CASE W' = {}
  BY <1>2, <1>6 DEF Moved!Step, Moved!Next, Moved!Stop
<1>7. CASE W = {} /\ W' = {h}
  BY <1>2, <1>4, <1>7 DEF Moved!Step, Moved!Next, Moved!Serve
<1> QED
  BY <1>3, <1>5, <1>6, <1>7

\* It is kept by the server it is whole on.
LEMMA WholeKeeps == ASSUME NEW s \in Server, Whole(s) PROVE Keeper(s)
BY DEF Whole, Keeper, Aside, Spare, Gone, Up

\* It is at the new server, and the old one is held.
LEMMA GoingKeeps ==
  ASSUME NEW old \in Server, NEW new \in Server, GoingOn(old, new)
  PROVE  Keeper(new) /\ (~Up(old) \/ node[old].fence)
BY DEF GoingOn, OldHeld, Keeper, Aside, Spare, Gone, Up

\* A command works at its one server, or deletes the new one.
LEMMA WorkServes ==
  ASSUME TypeOK, NEW h \in Server, Keeper(h),
         seen' \subseteq seen \cup {h},
         \/ \E b : \/ node' = [node EXCEPT ![h].app = b] \/ node' = [node EXCEPT ![h].fence = b]
                   \/ node' = [node EXCEPT ![h].cron = b]
         \/ \E a, c : node' = [node EXCEPT ![h].app = a, ![h].cron = c]
         \/ \E t \in Server \ {h} : \/ node' = [node EXCEPT ![t].life = "gone"]
                                    \/ node' = [node EXCEPT ![t].role = "standby"]
         \/ node' = node
  PROVE  Moved!Step
<1>1. node \in [Server -> Node]
  BY DEF TypeOK
<1>2. /\ \A t \in Server : node'[t].data = node[t].data
      /\ \A t \in Server \ {h} : /\ node'[t].fence = node[t].fence
                                 /\ node'[t].life \in {node[t].life, "gone"}
  <2>1. CASE \E b : \/ node' = [node EXCEPT ![h].app = b]
                   \/ node' = [node EXCEPT ![h].fence = b]
                   \/ node' = [node EXCEPT ![h].cron = b]
    BY <1>1, <2>1 DEF Node
  <2>2. CASE \E a, c : node' = [node EXCEPT ![h].app = a, ![h].cron = c]
    <3>1. PICK a, c : node' = [node EXCEPT ![h].app = a, ![h].cron = c]
      BY <2>2
    <3>2. node[h] \in Node
      BY <1>1
    <3> QED
      BY <1>1, <3>1, <3>2 DEF Node
  <2>3. CASE \E t \in Server \ {h} : \/ node' = [node EXCEPT ![t].life = "gone"]
                                     \/ node' = [node EXCEPT ![t].role = "standby"]
    BY <1>1, <2>3 DEF Node
  <2>4. CASE node' = node
    BY <2>4
  <2> QED
    BY <2>1, <2>2, <2>3, <2>4
<1>3. \A t \in Server \ {h} : t \notin seen' \/ node'[t].life # "up" \/ node'[t].fence
  BY <1>2 DEF Keeper, Up
<1> QED
  BY <1>2, <1>3, KeeperServes

\* Before the journal, and in a rollback, it is at the old server.
LEMMA OldMoves ==
  ASSUME TypeOK, Control, Kept, run.at \in Early \cup Back,
         \/ StopWriters \/ FenceDatabase \/ RemoveCron \/ StopWritersFails \/ FenceDatabaseFails
         \/ RemoveCronFails
         \/ Unfence \/ StartWriters \/ RestoreCron \/ UnfenceFails \/ StartWritersFails
         \/ DeleteNew \/ DeleteNewFails
  PROVE  Moved!Step
<1>1. run.old \in Server /\ run.new \in Server
  BY DEF Control
<1>2. SUFFICES ASSUME NEW old \in Server, NEW new \in Server, old = run.old, new = run.new
               PROVE  Moved!Step
  BY <1>1
<1>3. Whole(old) /\ old # new
  <2>1. CASE run.at \in Early
    BY <1>2, <2>1 DEF Kept, Placed, EarlyDone
  <2>2. CASE run.at \in Back
    BY <1>2, <2>2, BackStands
  <2> QED
    BY <2>1, <2>2
<1>4. seen' = seen
  BY DEF StopWriters, FenceDatabase, RemoveCron, StopWritersFails, FenceDatabaseFails,
         RemoveCronFails, Unfence, StartWriters, RestoreCron, UnfenceFails, StartWritersFails,
         DeleteNew, DeleteNewFails, dnsVars
<1>5. CASE \/ StopWriters \/ FenceDatabase \/ RemoveCron \/ StopWritersFails \/ FenceDatabaseFails
           \/ RemoveCronFails
           \/ Unfence \/ StartWriters \/ RestoreCron \/ UnfenceFails \/ StartWritersFails
  <2>1. \E b : \/ node' = [node EXCEPT ![old].app = b] \/ node' = [node EXCEPT ![old].fence = b]
               \/ node' = [node EXCEPT ![old].cron = b]
    BY <1>2, <1>5
       DEF StopWriters, FenceDatabase, RemoveCron, StopWritersFails, FenceDatabaseFails,
           RemoveCronFails, Unfence, StartWriters, RestoreCron, UnfenceFails, StartWritersFails
  <2> QED
    BY <1>3, <1>4, <2>1, WholeKeeps, WorkServes
<1>6. CASE DeleteNew \/ DeleteNewFails
  <2>1. node \in [Server -> Node]
    BY DEF TypeOK
  <2>2. node' = [node EXCEPT ![new].life = "gone"] \/ node' = node
    BY <1>2, <1>6, <2>1 DEF DeleteNew, DeleteNewFails, Maybe, Node
  <2> QED
    BY <1>3, <1>4, <2>2, WholeKeeps, WorkServes
<1> QED
  BY <1>5, <1>6

\* The restore copies the old server's every write to one no client reaches; one
\* that fails may have wiped what an earlier restore left there.
LEMMA RestoreMoves ==
  ASSUME TypeOK, Control, Kept, RestoreBase \/ RestoreBaseFails
  PROVE  Moved!Step \/ \E s \in Server \ seen : Moved!Wipe(s)
<1>1. /\ run.old \in Server /\ run.new \in Server /\ run.at = "restore"
      /\ node \in [Server -> Node] /\ base \in [Server -> (SUBSET Write) \cup {None}]
  BY DEF RestoreBase, RestoreBaseFails, At, Control, TypeOK, Early
<1>2. SUFFICES ASSUME NEW old \in Server, NEW new \in Server, old = run.old, new = run.new
               PROVE  Moved!Step \/ \E s \in Server \ seen : Moved!Wipe(s)
  BY <1>1
<1>3. /\ new \notin seen /\ old # new /\ base[old] = node[old].data
      /\ node[new].data \subseteq node[old].data
  <2>1. ~InFlight /\ cfg.server = old /\ new \notin seen /\ old # new /\ base[old] = node[old].data
    BY <1>1, <1>2 DEF Kept, EarlyDone, Early, Spare
  <2>2. Holds(old)
    BY <2>1 DEF Kept, Placed, Whole
  <2> QED
    BY <2>1, <2>2 DEF Holds
<1>4. seen' = seen
  BY DEF RestoreBase, RestoreBaseFails, dnsVars
<1>5. /\ \A t \in Server \ {new} : node'[t] = node[t]
      /\ node'[new].data \in {node[old].data, {}, node[new].data}
  <2>1. CASE RestoreBase
    <3>1. node' = [node EXCEPT ![new] = [node[new] EXCEPT !.data = base[old], !.app = TRUE,
                                                         !.fence = FALSE]]
      BY <1>2, <2>1 DEF RestoreBase, Restored
    <3>2. node[new] \in Node
      BY <1>1
    <3> QED
      BY <1>1, <1>3, <3>1, <3>2 DEF Node
  <2>2. CASE RestoreBaseFails
    <3>1. PICK d \in {base[old], {}, node[new].data}, a \in BOOLEAN :
            node' = [node EXCEPT ![new].data = d, ![new].app = a]
      BY <1>2, <2>2 DEF RestoreBaseFails
    <3>2. (\A t \in Server \ {new} : node'[t] = node[t]) /\ node'[new].data = d
      BY <1>1, <3>1 DEF Node
    <3> QED
      BY <1>3, <3>1, <3>2
  <2> QED
    BY <2>1, <2>2
<1> DEFINE W == {s \in Server : TakesWrites(s)}
           H == [s \in Server |-> node[s].data]
<1>6. W' = W /\ new \notin W
  BY <1>3, <1>4, <1>5 DEF TakesWrites, Up
<1>7. CASE node'[new].data = node[new].data
  <2>1. H' = H
    BY <1>5, <1>7
  <2> QED
    BY <1>6, <2>1 DEF Moved!Step
<1>8. CASE node'[new].data = {}
  <2>1. H' = [H EXCEPT ![new] = {}] /\ H[new] \subseteq H[old] /\ old \in Server \ {new}
    BY <1>3, <1>5, <1>8
  <2>2. W # {new}
    BY <1>6
  <2>3. Moved!Wipe(new)
    BY <1>6, <2>1, <2>2 DEF Moved!Wipe
  <2> QED
    BY <1>3, <2>3
<1>9. CASE node'[new].data = node[old].data
  <2>1. H' = [H EXCEPT ![new] = H[old]] /\ H[new] \subseteq H[old]
    BY <1>3, <1>5, <1>9
  <2>2. W # {new}
    BY <1>6
  <2>3. Moved!Copy(old, new)
    BY <1>6, <2>1, <2>2 DEF Moved!Copy
  <2> QED
    BY <2>3 DEF Moved!Step, Moved!Next
<1> QED
  BY <1>5, <1>7, <1>8, <1>9

\* From the journal on, until it goes back, it is at the new server.
LEMMA NewMoves ==
  ASSUME TypeOK, Control, Kept, run.at \in Flip,
         \/ UpdateDns \/ UpdateDnsFails \/ RedoDns \/ RedoDnsFails \/ FinishStep \/ FinishStepFails
  PROVE  Moved!Step
<1>1. run.old \in Server /\ run.new \in Server
  BY DEF Control
<1>2. SUFFICES ASSUME NEW old \in Server, NEW new \in Server, old = run.old, new = run.new
               PROVE  Moved!Step
  BY <1>1
<1>3. GoingOn(old, new) /\ old # new
  BY <1>2 DEF Kept, Placed, FlipDone, Control
<1>4. CASE UpdateDns \/ UpdateDnsFails \/ RedoDns \/ RedoDnsFails
  <2>1. seen' \subseteq seen \cup {new} /\ node' = node
    BY <1>2, <1>4, MayMove DEF UpdateDns, UpdateDnsFails, RedoDns, RedoDnsFails, Move, dnsVars
  <2> QED
    BY <1>3, <2>1, GoingKeeps, WorkServes
<1>5. CASE FinishStep \/ FinishStepFails
  <2>1. PICK step \in Finish : node' = Finished(step) \/ node' = node
    BY <1>5, FinishOrdered DEF FinishStep, FinishStepFails
  <2>2. \/ node' = [node EXCEPT ![old].role = "standby"] \/ node' = [node EXCEPT ![old].life = "gone"]
        \/ node' = [node EXCEPT ![new].app = TRUE] \/ node' = [node EXCEPT ![new].cron = TRUE]
        \/ node' = node
    BY <1>2, <2>1 DEF Finish, Finished
  <2>3. seen' = seen
    BY <1>5 DEF FinishStep, FinishStepFails, dnsVars
  <2> QED
    BY <1>3, <2>2, <2>3, GoingKeeps, WorkServes
<1> QED
  BY <1>4, <1>5

\* A deploy and the end of a rollback work at the server of record.
LEMMA RecordMoves ==
  ASSUME TypeOK, Control, Kept,
         Repoint \/ RepointFails \/ Deploy \/ BringUp \/ BringUpFails \/ ProbeWritable
         \/ ProbeWritableFails
  PROVE  Moved!Step
<1>1. SUFFICES ASSUME NEW s \in Server, s = cfg.server PROVE Moved!Step
  BY DEF TypeOK, Config
<1>2. Whole(s)
  <2>1. CASE Repoint \/ RepointFails
    BY <1>1, <2>1, BackStands DEF Repoint, RepointFails, At, Back
  <2>2. CASE Deploy \/ BringUp \/ BringUpFails \/ ProbeWritable \/ ProbeWritableFails
    <3>1. ~InFlight
      BY <2>2 DEF Deploy, BringUp, BringUpFails, ProbeWritable, ProbeWritableFails, At, Kept,
                  DeployDone
    <3> QED
      BY <1>1, <3>1 DEF Kept, Placed
  <2> QED
    BY <2>1, <2>2
<1>3. seen' \subseteq seen \cup {s}
  BY <1>1, MayMove
     DEF Repoint, RepointFails, Deploy, BringUp, BringUpFails, ProbeWritable, ProbeWritableFails,
         Move, dnsVars
<1>4. \/ \E b : node' = [node EXCEPT ![s].fence = b]
      \/ \E a, c : node' = [node EXCEPT ![s].app = a, ![s].cron = c]
      \/ node' = node
  <2>1. CASE Repoint \/ RepointFails \/ Deploy \/ ProbeWritable \/ ProbeWritableFails
    BY <1>1, <2>1 DEF Repoint, RepointFails, Deploy, ProbeWritable, ProbeWritableFails, Lifted,
                      Maybe
  <2>2. CASE BringUp
    BY <1>1, <2>2 DEF BringUp
  <2>3. CASE BringUpFails
    <3>1. PICK a, c \in BOOLEAN : node' = [node EXCEPT ![s].app = @ \/ a, ![s].cron = @ \/ c]
      BY <1>1, <2>3 DEF BringUpFails
    <3> DEFINE app == node[s].app \/ a
               cron == [node EXCEPT ![s].app = app][s].cron \/ c
    <3>2. node' = [node EXCEPT ![s].app = app, ![s].cron = cron]
      BY <3>1
    <3> HIDE DEF app, cron
    <3> QED
      BY <3>2
  <2> QED
    BY <2>1, <2>2, <2>3
<1> QED
  BY <1>2, <1>3, <1>4, WholeKeeps, WorkServes

\* Who keeps the database, and that DNS, moved late or by hand, goes to the
\* keeper or to a server that is held.
LEMMA KeeperStands ==
  ASSUME TypeOK, Kept
  PROVE  \E h \in Server :
           /\ Keeper(h)
           /\ late \in {None, h} \/ (late \in Server /\ (~Up(late) \/ node[late].fence))
           /\ mode # "managed" =>
                \A s \in OnRecord \ {h} : ~Up(s) \/ node[s].fence
<1>1. cfg.server \in Server /\ (InFlight => cfg.cut.old \in Server /\ cfg.cut.new \in Server)
  BY DEF TypeOK, Config, Cutover, InFlight
<1>2. CASE ~InFlight
  <2>1. Whole(cfg.server)
    BY <1>2 DEF Kept, Placed
  <2> QED
    BY <1>1, <1>2, <2>1, WholeKeeps DEF Whole, OnRecord
<1>3. CASE InFlight /\ GoingBack(cfg.cut.old, cfg.cut.new)
  BY <1>1, <1>3, WholeKeeps DEF GoingBack, Whole
<1>4. CASE InFlight /\ GoingOn(cfg.cut.old, cfg.cut.new)
  <2>1. /\ Keeper(cfg.cut.new) /\ (~Up(cfg.cut.old) \/ node[cfg.cut.old].fence)
        /\ late \in {None, cfg.cut.old, cfg.cut.new} /\ cfg.server \in {cfg.cut.old, cfg.cut.new}
    BY <1>1, <1>4, GoingKeeps DEF GoingOn
  <2>2. \A s \in OnRecord \ {cfg.cut.new} : s = cfg.cut.old
    BY <1>4, <2>1 DEF OnRecord
  <2>3. late = cfg.cut.old => late \in Server /\ (~Up(late) \/ node[late].fence)
    BY <1>1, <1>4, <2>1
  <2> QED
    BY <1>1, <1>4, <2>1, <2>2, <2>3
<1> QED
  BY <1>2, <1>3, <1>4 DEF Kept, Placed

\* What goes on by itself, and the name of a server.
LEMMA WorldMoves ==
  ASSUME TypeOK, Control, Kept,
         \/ LateDns \/ Rename \/ RenameFails
         \/ \E s \in Server : Reboot(s) \/ CronBackup(s) \/ OperatorPoints(s)
         \/ \E s \in Server, w \in Write : Commit(s, w)
  PROVE  Moved!Step
<1>1. PICK h \in Server :
           /\ Keeper(h)
           /\ late \in {None, h} \/ (late \in Server /\ (~Up(late) \/ node[late].fence))
           /\ mode # "managed" =>
                \A s \in OnRecord \ {h} : ~Up(s) \/ node[s].fence
  BY KeeperStands
<1>2. node \in [Server -> Node]
  BY DEF TypeOK
<1>3. CASE LateDns
  <2>1. node' = node /\ seen' = seen \cup {late} /\ late # None
    BY <1>3 DEF LateDns
  <2>2. \A t \in Server \ {h} : t \notin seen' \/ node'[t].life # "up" \/ node'[t].fence
    BY <1>1, <2>1 DEF Keeper, Up
  <2> QED
    BY <1>1, <2>1, <2>2, KeeperServes
<1>4. CASE Rename \/ RenameFails \/ \E s \in Server : Reboot(s)
  <2>1. seen' = seen /\ \A t \in Server : /\ node'[t].data = node[t].data
                                          /\ node'[t].life = node[t].life
                                          /\ node'[t].fence = node[t].fence
    <3>1. CASE \E s \in Server : Reboot(s)
      BY <1>2, <3>1 DEF Reboot, Node, dnsVars
    <3>2. CASE Rename \/ RenameFails
      <4>1. seen' = seen /\ \E t : node' = [node EXCEPT ![run.new].temp = t]
        BY <3>2 DEF Rename, RenameFails, dnsVars
      <4> QED
        BY <1>2, <4>1 DEF Node
    <3> QED
      BY <1>4, <3>1, <3>2
  <2> QED
    BY <1>1, <2>1, KeeperServes DEF Keeper, Up
<1>5. CASE \E s \in Server : CronBackup(s)
  BY <1>5, Stutters DEF CronBackup, dnsVars
<1>6. CASE \E s \in Server : OperatorPoints(s)
  <2>1. PICK s \in Server : OperatorPoints(s)
    BY <1>6
  <2>2. /\ node' = node /\ seen' = seen \cup {s} /\ mode # "managed" /\ s \in OnRecord
    BY <2>1 DEF OperatorPoints, Asked, Move, OnRecord
  <2>3. \A t \in Server \ {h} : t \notin seen' \/ node'[t].life # "up" \/ node'[t].fence
    BY <1>1, <2>2 DEF Keeper, Up
  <2> QED
    BY <1>1, <2>2, <2>3, KeeperServes
<1>7. CASE \E s \in Server, w \in Write : Commit(s, w)
  <2>1. PICK s \in Server, w \in Write : Commit(s, w)
    BY <1>7
  <2>2. /\ s = h /\ TakesWrites(h) /\ seen' = seen
        /\ node' = [node EXCEPT ![h].data = @ \cup {w}] /\ w \notin Acked
    BY <1>1, <2>1 DEF Commit, TakesWrites, Keeper, dnsVars
  <2>3. node[h] \in Node
    BY <1>2
  <2>4. /\ \A t \in Server : /\ node'[t].life = node[t].life /\ node'[t].app = node[t].app
                             /\ node'[t].fence = node[t].fence
        /\ \A t \in Server \ {h} : node'[t].data = node[t].data
        /\ node'[h].data = node[h].data \cup {w}
    BY <1>2, <2>2, <2>3 DEF Node
  <2> DEFINE W == {t \in Server : TakesWrites(t)}
             H == [t \in Server |-> node[t].data]
  <2>5. W = {h} /\ W' = W
    BY <1>1, <2>2, <2>4 DEF Keeper, TakesWrites, Up
  <2>6. H' = [H EXCEPT ![h] = @ \cup {w}] /\ \A t \in Server : w \notin H[t]
    <3>1. \A t \in Server : w \notin node[t].data
      BY <2>2 DEF Acked
    <3>2. H' = [H EXCEPT ![h] = H[h] \cup {w}]
      BY <2>4
    <3> QED
      BY <3>1, <3>2
  <2>7. Moved!Commit(h, w)
    BY <2>5, <2>6 DEF Moved!Commit
  <2> QED
    BY <2>7 DEF Moved!Step, Moved!Next
<1> QED
  BY <1>3, <1>4, <1>5, <1>6, <1>7

\* A replacement is handed out where no client is.
LEMMA PrepareMoves ==
  ASSUME TypeOK, Control, Kept, NEW s \in Server, Prepare(s) \/ PrepareFails(s), ~used'.self
  PROVE  Moved!Step
<1>1. /\ ~InFlight /\ cfg.server \in Server /\ seen' = seen
  BY DEF Prepare, PrepareFails, TypeOK, Config, dnsVars
<1>2. SUFFICES ASSUME NEW x \in Server, x = cfg.server PROVE Moved!Step
  BY <1>1
<1>3. Keeper(x)
  BY <1>1, <1>2, WholeKeeps DEF Kept, Placed
<1>4. s # x
  BY <1>2, Handing
<1>5. /\ s \notin seen /\ \A t \in Server \ {s} : node'[t] = node[t]
      /\ node'[s].data = node[s].data
  BY <1>2, <1>4, Handed DEF Spare
<1>6. \A t \in Server : node'[t].data = node[t].data
  BY <1>5
<1>7. \A t \in Server \ {x} : t \notin seen' \/ node'[t].life # "up" \/ node'[t].fence
  BY <1>1, <1>3, <1>5 DEF Keeper, Up
<1> QED
  BY <1>3, <1>6, <1>7, KeeperServes

\* Every step that keeps the promise is one of the one database's.
LEMMA MovesStep ==
  ASSUME TypeOK, Control, Kept, Promised', [Next]_vars
  PROVE  Moved!Step \/ \E s \in Server \ seen : Moved!Wipe(s)
<1>0. ~WriteJournalFails /\ ~MarkDnsFails /\ ~used'.self
  BY Slips DEF Promised
<1>1. CASE \/ UNCHANGED vars
           \/ WriteMarker \/ AwaitArchive \/ PushFinalBase \/ WriteJournal \/ MarkDns
           \/ SaveServers \/ SaveHalfMoved \/ CloseCutover \/ ClearJournal \/ Keep
           \/ WriteMarkerFails \/ AwaitArchiveFails \/ PushFinalBaseFails \/ SaveServersFails
           \/ RestoreCronFails \/ ClearJournalFails \/ Kill \/ Backup \/ Resume
  <2>1. node' = node /\ seen' = seen
    BY <1>1 DEF vars, WriteMarker, AwaitArchive, PushFinalBase, WriteJournal, MarkDns, SaveServers,
       SaveHalfMoved, CloseCutover, ClearJournal, Keep, WriteMarkerFails, AwaitArchiveFails,
       PushFinalBaseFails, SaveServersFails, RestoreCronFails, ClearJournalFails, Kill, Backup,
       Resume, dnsVars
  <2> QED
    BY <2>1, Stutters
<1>2. CASE \/ StopWriters \/ FenceDatabase \/ RemoveCron \/ StopWritersFails \/ FenceDatabaseFails
           \/ RemoveCronFails
           \/ Unfence \/ StartWriters \/ RestoreCron \/ UnfenceFails \/ StartWritersFails
           \/ DeleteNew \/ DeleteNewFails
  <2>1. run.at \in Early \cup Back
    BY <1>2 DEF StopWriters, FenceDatabase, RemoveCron, StopWritersFails, FenceDatabaseFails,
       RemoveCronFails, Unfence, StartWriters, RestoreCron, UnfenceFails, StartWritersFails,
       DeleteNew, DeleteNewFails, At, Early, Back
  <2> QED
    BY <1>2, <2>1, OldMoves
<1>3. CASE UpdateDns \/ UpdateDnsFails \/ RedoDns \/ RedoDnsFails \/ FinishStep \/ FinishStepFails
  <2>1. run.at \in Flip
    BY <1>3 DEF UpdateDns, UpdateDnsFails, RedoDns, RedoDnsFails, FinishStep, FinishStepFails, At,
       Flip
  <2> QED
    BY <1>3, <2>1, NewMoves
<1>4. CASE Repoint \/ RepointFails \/ Deploy \/ BringUp \/ BringUpFails \/ ProbeWritable
           \/ ProbeWritableFails
  BY <1>4, RecordMoves
<1>5. CASE RestoreBase \/ RestoreBaseFails
  BY <1>5, RestoreMoves
<1>6. CASE (World /\ ~Backup) \/ Rename \/ RenameFails
  BY <1>6, WorldMoves DEF World
<1>7. CASE Operator /\ ~Resume /\ ~Deploy
  BY <1>0, <1>7, PrepareMoves DEF Operator
<1> QED
  BY <1>0, <1>1, <1>2, <1>3, <1>4, <1>5, <1>6, <1>7 DEF Next, Work, Trouble, World, Operator

\* To its clients the environment is one database that moves between servers,
\* until a save of the journal fails or a scale is handed the server of record:
\* every step is one of OneWriter, or wipes a replacement no client was sent to
\* while the server of record has all it had.
THEOREM CutoverMovesOneWriter == ASSUME ~LateAnytime PROVE Spec => MovesOneWriter
<1>1. Init => Moved!Init
  <2> SUFFICES ASSUME NEW s \in Server,
                 /\ node = [t \in Server |-> IF t = s THEN Serving ELSE Unmade]
                 /\ seen = {s}
               PROVE  Moved!Init
    BY DEF Init
  <2> DEFINE W == {t \in Server : TakesWrites(t)}
             H == [t \in Server |-> node[t].data]
  <2>1. W = {s}
    BY DEF TakesWrites, Up, Serving, Unmade
  <2>2. H = [t \in Server |-> {}]
    BY DEF Serving, Unmade
  <2> QED
    BY <2>1, <2>2 DEF Moved!Init
<1>2. CutoverInv /\ [Next]_vars
        => (Promised' => Moved!Step \/ \E s \in Server \ seen : Moved!Wipe(s))
  <2> SUFFICES ASSUME TypeOK, Control, Sound => Kept, [Next]_vars, Promised'
               PROVE  Moved!Step \/ \E s \in Server \ seen : Moved!Wipe(s)
    BY DEF CutoverInv
  <2>1. Promised
    BY Slips
  <2> QED
    BY <2>1, MovesStep DEF Sound
<1> QED
  BY <1>1, <1>2, CutoverInvariant, PTL DEF Spec, MovesOneWriter
=============================================================================
