---------------------------- MODULE ScaleCutover ----------------------------
(***************************************************************************)
(* vibecarbon scale on compose: the primary's database moves to a new      *)
(* server.  The old one is fenced, its final base restored on the new one, *)
(* DNS flipped, the old server destroyed.  Before the flip a failure rolls *)
(* back; from the cutover journal on, a rerun finishes or rolls back.      *)
(* Deploy lifts the fence of a scale that died before its journal.  One    *)
(* command runs at a time and may die between any two steps.               *)
(***************************************************************************)
EXTENDS Naturals, FiniteSets

CONSTANTS
  Server,     \* the first server and the replacements scales may create
  Write,      \* what clients commit
  None,       \* "not set", "no record", "no base"
  DnsModes,   \* how an instance's DNS is run, see mode
  LateAnytime, \* TRUE: a DNS write that timed out may land after a rerun has
               \* read the records back
  MaxFaults,  \* bound: calls that fail, reboots
  MaxKills    \* bound: commands that die half way

ASSUME ServerAssumption == Server # {} /\ None \notin Server
ASSUME ModesAssumption ==
  DnsModes # {} /\ DnsModes \subseteq {"managed", "manual", "none"}
ASSUME LateAssumption == LateAnytime \in BOOLEAN
ASSUME BoundAssumption == MaxFaults \in Nat /\ MaxKills \in Nat

VARIABLES
  node,    \* node[s]: server s, see Node
  base,    \* base[s]: what the newest base backup of s's timeline holds
  dns,     \* dns[n]: the server record n points at
  late,    \* the server a timed-out DNS update may still move records to
  seen,    \* history: every server a record ever pointed at: a resolver may
           \* still answer with it
  mode,    \* "managed": a DNS provider; "manual": a domain the operator
           \* points by hand; "none": no domain, clients use the address
  cfg,     \* the environment's record in .vibecarbon.json
  run,     \* the running command
  used     \* what is spent of MaxFaults and MaxKills; slip: the journal, or
           \* the step the flip adds to it, could not be saved; self: a scale
           \* was handed the server of record for its own replacement

vars == <<node, base, dns, late, seen, mode, cfg, run, used>>

Name == {"apex", "wildcard"}
Finish == {"demote", "recreate", "push", "cron", "destroy"}

Node ==
  [life: {"unmade", "up", "gone"},
   temp: BOOLEAN,                \* named <project>-<env>-new at the provider
   app: BOOLEAN,                 \* the app and its add-ons run
   fence: BOOLEAN,               \* default_transaction_read_only
   cron: BOOLEAN,                \* the backup cron is installed
   role: {"primary", "standby"}, \* the wal-g role file
   data: SUBSET Write]

\* What ha.writeFence.cutover keeps for a rerun.
Cutover == [old: Server, new: Server, stopped: BOOLEAN, done: SUBSET (Finish \cup {"dns"})]

Config == [server: Server,                    \* servers[]: the one of record
           marker: Server \cup {None},        \* ha.writeFence.ip
           cut: Cutover \cup {None}]          \* ha.writeFence.cutover

ASSUME NoneAssumption == None \notin Cutover /\ \A D \in SUBSET Write : None # D

Step == {"idle", "marker", "stop", "fence", "wal", "base", "restore", "uncron", "journal",
         "dns", "mark", "save", "half", "finish", "redns",
         "rename", "unfence", "start", "recron", "unjournal", "delete", "repoint", "keep",
         "up", "probe"}

Run ==
  [at: Step,
   undo: {"none", "fence", "cutover", "resume"},  \* which rollback would run
   old: Server \cup {None}, new: Server \cup {None},
   stopped: BOOLEAN,   \* the stop named containers the rollback starts
   cron: BOOLEAN,      \* the old server's cron was taken
   cut: BOOLEAN,       \* the journal was written
   named: BOOLEAN]     \* server._replacement is set

TypeOK ==
  /\ node \in [Server -> Node]
  /\ base \in [Server -> (SUBSET Write) \cup {None}]
  /\ dns \in [Name -> Server \cup {None}]
  /\ late \in Server \cup {None} /\ seen \subseteq Server /\ mode \in DnsModes
  /\ cfg \in Config /\ run \in Run
  /\ used \in [faults: 0 .. MaxFaults, kills: 0 .. MaxKills,
               slip: BOOLEAN, self: BOOLEAN]

Acked == UNION {node[s].data : s \in Server}
Up(s) == node[s].life = "up"
TakesWrites(s) == s \in seen /\ Up(s) /\ node[s].app /\ ~node[s].fence
InFlight == cfg.cut # None

Idle == [at |-> "idle", undo |-> "none", old |-> None, new |-> None, stopped |-> FALSE,
            cron |-> FALSE, cut |-> FALSE, named |-> FALSE]
Unmade == [life |-> "unmade", temp |-> FALSE, app |-> FALSE, fence |-> FALSE, cron |-> FALSE,
           role |-> "primary", data |-> {}]
Serving == [Unmade EXCEPT !.life = "up", !.app = TRUE, !.cron = TRUE]

Init ==
  \E s \in Server :
    /\ node = [t \in Server |-> IF t = s THEN Serving ELSE Unmade]
    /\ base = [t \in Server |-> None]
    /\ dns = [n \in Name |-> s] /\ late = None /\ seen = {s} /\ mode \in DnsModes
    /\ cfg = [server |-> s, marker |-> None, cut |-> None]
    /\ run = Idle /\ used = [faults |-> 0, kills |-> 0, slip |-> FALSE, self |-> FALSE]

At(step) == run.at = step
Goto(step) == run' = [run EXCEPT !.at = step]
End == run' = Idle
Fault == used.faults < MaxFaults /\ used' = [used EXCEPT !.faults = @ + 1]
SaveFails ==
  /\ used.faults < MaxFaults
  /\ used' = [used EXCEPT !.faults = @ + 1, !.slip = TRUE]
\* A call to server s failed; one that is gone answers none.
FaultAt(s) == Fault \/ (~Up(s) /\ UNCHANGED used)
\* A failed call may have taken effect.
Maybe(done, undone) == {done, undone}

dnsVars == <<dns, late, seen>>

\* A rollback's steps: of a fence that did not take, of a cutover that failed
\* before the flip, of a rerun that finds DNS never moved.  There the new
\* server goes first.
Undo ==
  [fence   |-> [unfence |-> "start", start |-> "delete", delete |-> "keep"],
   cutover |-> [unfence |-> "start", start |-> "recron", recron |-> "unjournal",
                unjournal |-> "delete", delete |-> "keep"],
   resume  |-> [delete |-> "unfence", unfence |-> "start", start |-> "recron",
                recron |-> "unjournal", unjournal |-> "repoint"]]
UndoNext == Undo[run.undo][run.at]
RollBack(undo, stopped) ==
  run' = [run EXCEPT !.at = IF run.at = "marker" THEN "delete" ELSE "unfence",
                     !.undo = undo, !.stopped = stopped]

-----------------------------------------------------------------------------
(* Scale, up to the flip.                                                  *)

\* createServer by a fixed name: a server that bears it already is handed out
\* again, a leftover or, where its rename was missed, the server of record.
Bears(s) == Up(s) /\ node[s].temp
Replacement(s) == IF \E t \in Server : Bears(t) THEN Bears(s) ELSE node[s].life = "unmade"
Reuse(s) == [used EXCEPT !.self = @ \/ s = cfg.server]

\* createReplacementServer, prepareReplacementServer: a running stack, new with
\* an empty database.  A marker without a journal does not stop a scale.
Prepare(s) ==
  /\ At("idle") /\ ~InFlight /\ Replacement(s) /\ used' = Reuse(s)
  /\ node' = [node EXCEPT ![s].life = "up", ![s].temp = TRUE, ![s].app = TRUE]
  /\ run' = [Idle EXCEPT !.at = "marker", !.old = cfg.server, !.undo = "fence", !.new = s]
  /\ UNCHANGED <<base, dnsVars, mode, cfg>>

\* The replacement is deleted again, or left behind.
PrepareFails(s) ==
  /\ At("idle") /\ ~InFlight /\ Replacement(s)
  /\ used.faults < MaxFaults /\ used' = [Reuse(s) EXCEPT !.faults = @ + 1]
  /\ \E l \in Maybe("gone", "up"), a \in Maybe(TRUE, node[s].app) :
       node' = [node EXCEPT ![s].life = l, ![s].temp = TRUE, ![s].app = a]
  /\ UNCHANGED <<base, dnsVars, mode, cfg, run>>

\* Recorded before anything is stopped or fenced.
WriteMarker ==
  /\ At("marker") /\ cfg' = [cfg EXCEPT !.marker = run.old] /\ Goto("stop")
  /\ UNCHANGED <<node, base, dnsVars, mode, used>>
WriteMarkerFails ==
  /\ At("marker") /\ Fault /\ RollBack("fence", FALSE)
  /\ UNCHANGED <<node, base, dnsVars, mode, cfg>>

\* docker stop; what the rollback starts is what was live before it.
StoppedLive(was) == was
StopWriters ==
  /\ At("stop") /\ Up(run.old) /\ node' = [node EXCEPT ![run.old].app = FALSE]
  /\ run' = [run EXCEPT !.at = "fence", !.stopped = StoppedLive(node[run.old].app)]
  /\ UNCHANGED <<base, dnsVars, mode, cfg, used>>

\* An answer that never came names nothing.
StopWritersFails ==
  /\ At("stop") /\ FaultAt(run.old)
  /\ \E a \in Maybe(FALSE, node[run.old].app), named \in BOOLEAN :
       /\ named => node[run.old].app /\ ~a
       /\ node' = [node EXCEPT ![run.old].app = a] /\ RollBack("fence", named)
  /\ UNCHANGED <<base, dnsVars, mode, cfg>>

\* Mutant: only the writers are stopped.
FenceDatabaseForgotten ==
  /\ At("fence") /\ Goto("wal") /\ UNCHANGED <<node, base, dnsVars, mode, cfg, used>>
FenceDatabase ==
  /\ At("fence") /\ node' = [node EXCEPT ![run.old].fence = TRUE] /\ Goto("wal")
  /\ UNCHANGED <<base, dnsVars, mode, cfg, used>>

FenceDatabaseFails ==
  /\ At("fence") /\ Fault /\ RollBack("fence", run.stopped)
  /\ \E f \in Maybe(TRUE, node[run.old].fence) :
       node' = [node EXCEPT ![run.old].fence = f]
  /\ UNCHANGED <<base, dnsVars, mode, cfg>>

\* The WAL of the fence is archived, or the deadline passes.
AwaitArchive ==
  /\ At("wal") /\ Goto("base") /\ UNCHANGED <<node, base, dnsVars, mode, cfg, used>>
AwaitArchiveFails ==
  /\ At("wal") /\ Fault /\ RollBack("fence", run.stopped)
  /\ UNCHANGED <<node, base, dnsVars, mode, cfg>>

\* backupCompose must report a pushed base, and the bucket must list it.
PushFinalBase ==
  /\ At("base") /\ base' = [base EXCEPT ![run.old] = node[run.old].data] /\ Goto("restore")
  /\ UNCHANGED <<node, dnsVars, mode, cfg, used>>
PushFinalBaseFails ==
  /\ At("base") /\ Fault /\ RollBack("cutover", run.stopped)
  /\ \E b \in Maybe(node[run.old].data, base[run.old]) : base' = [base EXCEPT ![run.old] = b]
  /\ UNCHANGED <<node, dnsVars, mode, cfg>>

\* The base of the fenced server carries its fence: the restore strips it.
Restored == [node[run.new] EXCEPT !.data = base[run.old], !.app = TRUE, !.fence = FALSE]
RestoreBase ==
  /\ At("restore") /\ node' = [node EXCEPT ![run.new] = Restored] /\ Goto("uncron")
  /\ UNCHANGED <<base, dnsVars, mode, cfg, used>>
RestoreBaseFails ==
  /\ At("restore") /\ Fault /\ RollBack("cutover", run.stopped)
  /\ \E d \in {base[run.old], {}, node[run.new].data}, a \in BOOLEAN :
       node' = [node EXCEPT ![run.new].data = d, ![run.new].app = a]
  /\ UNCHANGED <<base, dnsVars, mode, cfg>>

\* Mutant: the cron stays.
RemoveCronSkipped ==
  /\ At("uncron") /\ Goto("journal") /\ UNCHANGED <<node, base, dnsVars, mode, cfg, used>>
RemoveCron ==
  /\ At("uncron") /\ node' = [node EXCEPT ![run.old].cron = FALSE]
  /\ run' = [run EXCEPT !.at = "journal", !.cron = TRUE]
  /\ UNCHANGED <<base, dnsVars, mode, cfg, used>>
RemoveCronFails ==
  /\ At("uncron") /\ Fault
  /\ run' = [run EXCEPT !.at = "unfence", !.undo = "cutover", !.cron = TRUE]
  /\ \E c \in Maybe(FALSE, node[run.old].cron) : node' = [node EXCEPT ![run.old].cron = c]
  /\ UNCHANGED <<base, dnsVars, mode, cfg>>

\* With no domain the flip is the save of the new server's address.
WriteJournal ==
  /\ At("journal")
  /\ cfg' = [cfg EXCEPT !.cut = [old |-> run.old, new |-> run.new, stopped |-> run.stopped,
                                 done |-> {}]]
  /\ run' = [run EXCEPT !.at = IF mode = "none" THEN "save" ELSE "dns",
                        !.cut = TRUE, !.named = TRUE]
  /\ UNCHANGED <<node, base, dnsVars, mode, used>>
WriteJournalFails ==
  /\ At("journal") /\ SaveFails
  /\ run' = [run EXCEPT !.at = "unfence", !.undo = "cutover", !.named = TRUE]
  /\ UNCHANGED <<node, base, dnsVars, mode, cfg>>

-----------------------------------------------------------------------------
(* The flip.                                                               *)

\* What an earlier update timed out on lands before the next one or never.
Move(s) == dns' = [n \in Name |-> s] /\ seen' = seen \cup {s} /\ late' = None

\* The provider is asked for apex, then wildcard; it may delete a record and
\* not create it, and may still apply what it timed out on.
Torn(s) ==
  {[n \in Name |-> IF n = "apex" THEN a ELSE w] :
     a \in {dns["apex"], None, s}, w \in {dns["wildcard"], None, s}}
MoveFails(s, timedOut) ==
  /\ \E d \in Torn(s) :
       /\ d["wildcard"] # dns["wildcard"] => d["apex"] = s
       /\ dns' = d /\ seen' = seen \cup (IF s \in {d["apex"], d["wildcard"]} THEN {s} ELSE {})
  /\ late' \in {None} \cup IF timedOut THEN {s} ELSE {}

\* Mutant: the apex stands for both records.
ReadMoveApex(d, old, new, timedOut) ==
  IF d["apex"] = old THEN IF timedOut THEN "unknown" ELSE "old"
  ELSE IF d["apex"] = new THEN "moved"
  ELSE "partial"
\* Mutant: an update that timed out is over.
ReadMoveTrusting(d, old, new, timedOut) ==
  IF \A n \in Name : d[n] = old THEN "old"
  ELSE IF \A n \in Name : d[n] = new THEN "moved" ELSE "partial"

\* readDnsMove, when the provider answers: where the records d point.
ReadMove(d, old, new, timedOut) ==
  IF \A n \in Name : d[n] = old THEN IF timedOut THEN "unknown" ELSE "old"
  ELSE IF \A n \in Name : d[n] = new THEN "moved"
  ELSE "partial"

\* Mutant: an answer that cannot be read goes on to the save, of no server.
AfterDnsErrorSaves ==
  [old |-> [run EXCEPT !.at = "unfence", !.undo = "cutover", !.named = FALSE],
   unknown |-> [Idle EXCEPT !.at = "save"],
   partial |-> [run EXCEPT !.at = "half"],
   moved |-> [run EXCEPT !.at = "mark"]]
\* Where a failed update leaves the scale: back, held for a rerun, past the
\* flip and failed, or past it.
AfterDnsError ==
  [old |-> [run EXCEPT !.at = "unfence", !.undo = "cutover", !.named = FALSE],
   unknown |-> Idle,
   partial |-> [run EXCEPT !.at = "half"],
   moved |-> [run EXCEPT !.at = "mark"]]

UpdateDns ==
  /\ At("dns") /\ Goto("mark")
  /\ IF mode = "managed" THEN Move(run.new) ELSE UNCHANGED dnsVars
  /\ UNCHANGED <<node, base, mode, cfg, used>>
UpdateDnsFails ==
  /\ At("dns") /\ mode = "managed" /\ Fault
  /\ \E timedOut, unread \in BOOLEAN :
       /\ MoveFails(run.new, timedOut)
       /\ run' = AfterDnsError[IF unread THEN "unknown"
                               ELSE ReadMove(dns', run.old, run.new, timedOut)]
  /\ UNCHANGED <<node, base, mode, cfg>>

\* The step is journaled; public resolvers are polled, without a verdict.
MarkDns ==
  /\ At("mark") /\ cfg' = [cfg EXCEPT !.cut.done = @ \cup {"dns"}] /\ Goto("save")
  /\ UNCHANGED <<node, base, dnsVars, mode, used>>
MarkDnsFails ==
  /\ At("mark") /\ SaveFails /\ RollBack("cutover", run.stopped)
  /\ UNCHANGED <<node, base, dnsVars, mode, cfg>>

\* saveScaledServers: from here every command reaches the new server.
SaveServers ==
  /\ At("save") /\ cfg' = [cfg EXCEPT !.server = run.new] /\ Goto("finish")
  /\ UNCHANGED <<node, base, dnsVars, mode, used>>
\* Tried once more when the arms have settled.
SaveServersFails ==
  /\ At("save") /\ Fault
  /\ \E s \in Maybe(run.new, cfg.server) : cfg' = [cfg EXCEPT !.server = s]
  /\ End /\ UNCHANGED <<node, base, dnsVars, mode>>

\* Some records moved: the new server is recorded, the scale fails.
SaveHalfMoved ==
  /\ At("half") /\ cfg' = [cfg EXCEPT !.server = run.new] /\ End
  /\ UNCHANGED <<node, base, dnsVars, mode, used>>

-----------------------------------------------------------------------------
(* finishComposeCutover: each step is journaled as it lands.               *)

\* Mutant: the base is pushed before the old server is demoted.
FinishOrderPushFirst == <<"push", "demote", "recreate", "cron", "destroy">>
FinishOrder == <<"demote", "recreate", "push", "cron", "destroy">>
Pending(done) == {i \in 1 .. 5 : FinishOrder[i] \notin done}
NextFinish(done) == FinishOrder[CHOOSE i \in Pending(done) : \A j \in Pending(done) : i <= j]

\* What a finish step does to the servers and to the bucket.
Finished(step) ==
  CASE step = "demote"   -> [node EXCEPT ![run.old].role = "standby"]
    [] step = "recreate" -> [node EXCEPT ![run.new].app = TRUE]
    [] step = "push"     -> node
    [] step = "cron"     -> [node EXCEPT ![run.new].cron = TRUE]
    [] step = "destroy"  -> [node EXCEPT ![run.old].life = "gone"]
FinishedBase(step) ==
  IF step = "push" THEN [base EXCEPT ![run.new] = node[run.new].data] ELSE base
\* The backup of a server whose wal-g role is standby is skipped, and the push
\* fails on it.
Skips(step) == step = "push" /\ node[run.new].role = "standby"

FinishStep ==
  /\ At("finish") /\ ~(Finish \subseteq cfg.cut.done)
  /\ LET step == NextFinish(cfg.cut.done) IN
       /\ step \in {"recreate", "push", "cron"} => Up(run.new)
       /\ ~Skips(step)
       /\ node' = Finished(step) /\ base' = FinishedBase(step)
       /\ cfg' = [cfg EXCEPT !.cut.done = @ \cup {step}]
  /\ UNCHANGED <<dnsVars, mode, run, used>>
\* Both servers are kept and the journal names what is left.
FinishStepFails ==
  /\ At("finish") /\ ~(Finish \subseteq cfg.cut.done)
  /\ LET step == NextFinish(cfg.cut.done) IN
       \/ /\ FaultAt(run.new) /\ ~Skips(step)
          /\ node' = Finished(step) /\ base' = FinishedBase(step)
       \/ (FaultAt(run.new) \/ (Skips(step) /\ UNCHANGED used)) /\ UNCHANGED <<node, base>>
  /\ End /\ UNCHANGED <<dnsVars, mode, cfg>>

\* Mutant: nothing is cleared.
CloseCutoverForgotten ==
  /\ At("finish") /\ Finish \subseteq cfg.cut.done /\ Goto("rename")
  /\ UNCHANGED <<node, base, dnsVars, mode, cfg, used>>
\* The fenced server is gone, and its marker and journal with it.
CloseCutover ==
  /\ At("finish") /\ Finish \subseteq cfg.cut.done
  /\ cfg' = [cfg EXCEPT !.marker = None, !.cut = None] /\ Goto("rename")
  /\ UNCHANGED <<node, base, dnsVars, mode, used>>

\* renameReplacement, to the permanent name; a failure is swallowed.
Rename ==
  /\ At("rename") /\ End /\ node' = [node EXCEPT ![run.new].temp = FALSE]
  /\ UNCHANGED <<base, dnsVars, mode, cfg, used>>
RenameFails ==
  /\ At("rename") /\ Fault /\ End
  /\ \E t \in Maybe(FALSE, node[run.new].temp) : node' = [node EXCEPT ![run.new].temp = t]
  /\ UNCHANGED <<base, dnsVars, mode, cfg>>

-----------------------------------------------------------------------------
(* The rollback, of a running scale and of a rerun.  A step that cannot be *)
(* proven is a problem line; the next one runs all the same.               *)

UndoStep == Goto(UndoNext)

\* Clearing the marker takes the journal on it along.
Unfence ==
  /\ At("unfence") /\ Up(run.old) /\ node' = [node EXCEPT ![run.old].fence = FALSE]
  /\ cfg' = [cfg EXCEPT !.marker = None, !.cut = None] /\ UndoStep
  /\ UNCHANGED <<base, dnsVars, mode, used>>
\* The marker stays, for deploy.
UnfenceFails ==
  /\ At("unfence") /\ FaultAt(run.old) /\ UndoStep
  /\ \E f \in Maybe(FALSE, node[run.old].fence) : node' = [node EXCEPT ![run.old].fence = f]
  /\ UNCHANGED <<base, dnsVars, mode, cfg>>

StartWriters ==
  /\ At("start") /\ UndoStep
  /\ node' = [node EXCEPT ![run.old].app = @ \/ run.stopped]
  /\ UNCHANGED <<base, dnsVars, mode, cfg, used>>
StartWritersFails ==
  /\ At("start") /\ run.stopped /\ Fault /\ UndoStep
  /\ \E a \in Maybe(TRUE, node[run.old].app) : node' = [node EXCEPT ![run.old].app = a]
  /\ UNCHANGED <<base, dnsVars, mode, cfg>>

RestoreCron ==
  /\ At("recron") /\ UndoStep
  /\ node' = [node EXCEPT ![run.old].cron = @ \/ run.cron]
  /\ UNCHANGED <<base, dnsVars, mode, cfg, used>>
RestoreCronFails ==
  /\ At("recron") /\ run.cron /\ Fault /\ UndoStep
  /\ UNCHANGED <<node, base, dnsVars, mode, cfg>>

\* Mutant: the marker goes with the journal.
ClearJournalAll ==
  /\ At("unjournal") /\ UndoStep
  /\ cfg' = [cfg EXCEPT !.marker = None, !.cut = None]
  /\ UNCHANGED <<node, base, dnsVars, mode, used>>
\* A fence that could not be lifted keeps its marker.
ClearJournal ==
  /\ At("unjournal") /\ UndoStep
  /\ cfg' = [cfg EXCEPT !.cut = IF run.cut THEN None ELSE @]
  /\ UNCHANGED <<node, base, dnsVars, mode, used>>
\* The rollback ends there: the new server is kept, and recorded if named.
ClearJournalFails ==
  /\ At("unjournal") /\ run.cut /\ Fault
  /\ IF run.undo = "resume" THEN End ELSE Goto("keep")
  /\ UNCHANGED <<node, base, dnsVars, mode, cfg>>

DeleteNew ==
  /\ At("delete") /\ UndoStep
  /\ node' = [node EXCEPT ![run.new].life = "gone"]
  /\ UNCHANGED <<base, dnsVars, mode, cfg, used>>
\* A scale says so and goes on; a rerun stops, and the old server stays fenced.
DeleteNewFails ==
  /\ At("delete") /\ Fault
  /\ \E l \in Maybe("gone", node[run.new].life) : node' = [node EXCEPT ![run.new].life = l]
  /\ IF run.undo = "resume" THEN End ELSE Goto(UndoNext)
  /\ UNCHANGED <<base, dnsVars, mode, cfg>>

\* A rerun points DNS at the old server again.
Repoint ==
  /\ At("repoint") /\ Move(cfg.server) /\ End
  /\ UNCHANGED <<node, base, mode, cfg, used>>
RepointFails ==
  /\ At("repoint") /\ Fault /\ (\E timedOut \in BOOLEAN : MoveFails(cfg.server, timedOut)) /\ End
  /\ UNCHANGED <<node, base, mode, cfg>>

\* "Old server is still running."  A scale that failed records the servers
\* that took over.
Keep ==
  /\ At("keep")
  /\ cfg' = IF run.named THEN [cfg EXCEPT !.server = run.new] ELSE cfg
  /\ End /\ UNCHANGED <<node, base, dnsVars, mode, used>>

-----------------------------------------------------------------------------
(* resumeComposeCutover: the rerun of a scale with a journal.              *)

Recorded == cfg.server = cfg.cut.new
Resumed(step) ==
  [Idle EXCEPT !.at = step, !.old = cfg.cut.old, !.undo = "resume", !.new = cfg.cut.new,
     !.stopped = cfg.cut.stopped, !.cron = TRUE, !.cut = TRUE]
\* A domain is read back through a provider, or is unknown.
Reads ==
  IF Recorded \/ mode = "none" THEN {"moved"}
  ELSE IF mode = "manual" THEN {"unknown"}
  ELSE {ReadMove(dns, cfg.cut.old, cfg.cut.new, FALSE)}
Adopt ==
  IF mode # "none" /\ "dns" \notin cfg.cut.done THEN "redns"
  ELSE IF Recorded THEN "finish" ELSE "save"

Resume ==
  /\ At("idle") /\ InFlight
  /\ \/ "old" \in Reads /\ run' = Resumed("delete")
     \/ Reads \cap {"moved", "partial"} # {} /\ run' = Resumed(Adopt)
  /\ late' = IF LateAnytime THEN late ELSE None
  /\ UNCHANGED <<node, base, dns, seen, mode, cfg, used>>

RedoDns ==
  /\ At("redns")
  /\ IF mode = "managed" THEN Move(run.new) ELSE UNCHANGED dnsVars
  /\ cfg' = [cfg EXCEPT !.cut.done = @ \cup {"dns"}]
  /\ Goto(IF cfg.server = run.new THEN "finish" ELSE "save")
  /\ UNCHANGED <<node, base, mode, used>>
RedoDnsFails ==
  /\ At("redns") /\ mode = "managed" /\ Fault
  /\ (\E timedOut \in BOOLEAN : MoveFails(run.new, timedOut))
  /\ End /\ UNCHANGED <<node, base, mode, cfg>>

-----------------------------------------------------------------------------
(* Deploy: refused while a cutover is journaled.                           *)

Lifted == [node EXCEPT ![cfg.server].fence = FALSE]
Unmarked == [cfg EXCEPT !.marker = None, !.cut = None]

\* The entry lift of a marker on the server of record; a lift that fails is a
\* warning, and a marker on another server is stale.
Deploy ==
  /\ At("idle") /\ ~InFlight
  /\ run' = [Idle EXCEPT !.at = "up"]
  /\ \/ cfg.marker = None /\ UNCHANGED <<node, cfg, used>>
     \/ cfg.marker \notin {None, cfg.server} /\ cfg' = Unmarked /\ UNCHANGED <<node, used>>
     \/ cfg.marker = cfg.server /\ Up(cfg.server) /\ node' = Lifted /\ cfg' = Unmarked
        /\ UNCHANGED used
     \/ cfg.marker = cfg.server /\ FaultAt(cfg.server) /\ node' \in Maybe(Lifted, node)
        /\ UNCHANGED cfg
  /\ UNCHANGED <<base, dnsVars, mode>>

\* The A records, unless an earlier deploy wrote them; the stack and the cron.
BringUp ==
  /\ At("up") /\ Up(cfg.server) /\ Goto("probe")
  /\ node' = [node EXCEPT ![cfg.server].app = TRUE, ![cfg.server].cron = TRUE]
  /\ \/ mode = "managed" /\ Move(cfg.server)
     \/ UNCHANGED dnsVars
  /\ UNCHANGED <<base, mode, cfg, used>>
BringUpFails ==
  /\ At("up") /\ FaultAt(cfg.server) /\ End
  /\ \E a, c \in BOOLEAN :
       node' = [node EXCEPT ![cfg.server].app = @ \/ a, ![cfg.server].cron = @ \/ c]
  /\ \/ mode = "managed" /\ \E timedOut \in BOOLEAN : MoveFails(cfg.server, timedOut)
     \/ UNCHANGED dnsVars
  /\ UNCHANGED <<base, mode, cfg>>

\* assertRolePrimaryWritable, after bring-up.
ProbeWritable ==
  /\ At("probe") /\ End
  /\ IF node[cfg.server].fence THEN node' = Lifted /\ cfg' = Unmarked
     ELSE UNCHANGED <<node, cfg>>
  /\ UNCHANGED <<base, dnsVars, mode, used>>
ProbeWritableFails ==
  /\ At("probe") /\ Fault /\ End
  /\ node' \in Maybe(Lifted, node)
  /\ UNCHANGED <<base, dnsVars, mode, cfg>>

-----------------------------------------------------------------------------
(* What goes on by itself.                                                 *)

Commit(s, w) ==
  /\ TakesWrites(s) /\ w \notin Acked
  /\ node' = [node EXCEPT ![s].data = @ \cup {w}]
  /\ UNCHANGED <<base, dnsVars, mode, cfg, run, used>>

\* The unit of the stack starts every container again.
Reboot(s) ==
  /\ Up(s) /\ ~node[s].app /\ Fault
  /\ node' = [node EXCEPT ![s].app = TRUE]
  /\ UNCHANGED <<base, dnsVars, mode, cfg, run>>

\* The cron, and vibecarbon backup, which a journal refuses.
CronBackup(s) ==
  /\ Up(s) /\ node[s].cron /\ node[s].role = "primary"
  /\ base' = [base EXCEPT ![s] = node[s].data]
  /\ UNCHANGED <<node, dnsVars, mode, cfg, run, used>>
Backup ==
  /\ At("idle") /\ ~InFlight /\ Up(cfg.server)
  /\ base' = [base EXCEPT ![cfg.server] = node[cfg.server].data]
  /\ UNCHANGED <<node, dnsVars, mode, cfg, run, used>>

\* The provider applies, at last, what it timed out on.
LateDns ==
  /\ late # None /\ late' = None /\ seen' = seen \cup {late}
  /\ \E N \in {{"wildcard"}, Name} : dns' = [n \in Name |-> IF n \in N THEN late ELSE dns[n]]
  /\ UNCHANGED <<node, base, mode, cfg, run, used>>

\* By hand: to the server of record, or to the one a scale asked for.
Asked == {cfg.server} \cup IF mode = "manual" /\ InFlight THEN {cfg.cut.new} ELSE {}
OperatorPoints(s) ==
  /\ mode # "managed" /\ s \in Asked /\ Move(s)
  /\ UNCHANGED <<node, base, mode, cfg, run, used>>

Kill ==
  /\ ~At("idle") /\ used.kills < MaxKills
  /\ used' = [used EXCEPT !.kills = @ + 1] /\ End
  /\ UNCHANGED <<node, base, dnsVars, mode, cfg>>

-----------------------------------------------------------------------------
\* A command's own steps, the calls that fail, the rest of the world.
Work ==
  \/ WriteMarker \/ StopWriters \/ FenceDatabase \/ AwaitArchive \/ PushFinalBase
  \/ RestoreBase \/ RemoveCron \/ WriteJournal \/ UpdateDns \/ MarkDns \/ SaveServers
  \/ SaveHalfMoved \/ FinishStep \/ CloseCutover \/ Rename
  \/ Unfence \/ StartWriters \/ RestoreCron \/ ClearJournal \/ DeleteNew \/ Repoint \/ Keep
  \/ RedoDns \/ BringUp \/ ProbeWritable
Trouble ==
  \/ WriteMarkerFails \/ StopWritersFails \/ FenceDatabaseFails \/ AwaitArchiveFails
  \/ PushFinalBaseFails \/ RestoreBaseFails \/ RemoveCronFails \/ WriteJournalFails
  \/ UpdateDnsFails \/ MarkDnsFails \/ SaveServersFails \/ FinishStepFails \/ RenameFails
  \/ UnfenceFails \/ StartWritersFails \/ RestoreCronFails \/ ClearJournalFails
  \/ DeleteNewFails \/ RepointFails
  \/ RedoDnsFails \/ BringUpFails \/ ProbeWritableFails \/ Kill
World ==
  \/ Backup \/ LateDns
  \/ \E s \in Server : Reboot(s) \/ CronBackup(s) \/ OperatorPoints(s)
  \/ \E s \in Server, w \in Write : Commit(s, w)
Operator ==
  \/ Resume \/ Deploy
  \/ \E s \in Server : Prepare(s) \/ PrepareFails(s)

Next == Work \/ Trouble \/ World \/ Operator
Spec == Init /\ [][Next]_vars

\* A running command goes on; a scale with a journal is rerun, a marker
\* without one gets a deploy.
FairSpec ==
  /\ Spec /\ WF_vars(Work) /\ WF_vars(Resume)
  /\ WF_vars(cfg.marker # None /\ Deploy)

-----------------------------------------------------------------------------
(* Properties.  A cutover stands on its journal and on two servers: what    *)
(* follows is promised until a save of the journal fails, which the scale     *)
(* undoes as if DNS had not moved and the new server were not to be recorded, *)
(* or a scale takes the server of record for its own replacement.             *)

Promised == ~used.slip /\ ~used.self

\* Wherever a client may still be sent, a server that takes writes holds
\* every write ever acknowledged: old and new never diverge (scale.js:907).
NoForkedWrites == Promised => \A s \in Server : TakesWrites(s) => node[s].data = Acked

\* Some server the record names holds everything: the one of record, or one
\* of a journaled cutover (scale.js:1964).
OnRecord == {cfg.server} \cup IF InFlight THEN {cfg.cut.old, cfg.cut.new} ELSE {}
RecordReachesAll == \E s \in OnRecord : Up(s) /\ node[s].data = Acked
RecordHoldsAll == Promised => RecordReachesAll
\* The same whatever saves fail: "a server that took over is recorded even
\* though the scale failed" (scale.js:1964).
TakeoverIsRecorded == ~used.self => RecordReachesAll
\* The same whatever the server of record is called: with the temporary name it
\* "works fine" (scale.js:1455).
TempNameHarmless == ~used.slip => RecordReachesAll

\* A fenced server is never forgotten: the marker on it is there for deploy,
\* or the journal for scale, wherever the command died (write-fence.js:3).
FenceOnRecord ==
  Promised => \A s \in Server : Up(s) /\ node[s].fence => cfg.marker = s

\* The next base is whole: a server whose cron pushes as primary holds every
\* acknowledged write, also while a cutover is under way or given up.  The
\* newest base is the one a restore takes (scale.js:1677, destroy.js:398).
NextBaseHoldsAll ==
  Promised => \A s \in Server :
    Up(s) /\ node[s].cron /\ node[s].role = "primary" => node[s].data = Acked

\* Once the new server's timeline has its first base, the old server's
\* wal-g no longer archives (scale.js:711).
ArchivesAlone ==
  Promised => \A s, t \in Server :
    /\ Up(s) /\ node[s].role = "primary" /\ base[s] # None
    /\ Up(t) /\ node[t].role = "primary" /\ base[t] # None
    => s = t

\* To its clients the environment is one database that moves between servers.
\* Only a replacement no client was ever sent to, which an earlier scale left
\* with a restored database, may lose it to the next restore.
Moved == INSTANCE OneWriter WITH
  Side <- Server, writer <- {s \in Server : TakesWrites(s)},
  has <- [s \in Server |-> node[s].data]
MovesOneWriter ==
  /\ Moved!Init
  /\ [][Promised' => Moved!Step \/ \E s \in Server \ seen : Moved!Wipe(s)]_vars

\* Every fence is lifted or its server gone in the end, the scale that left
\* it finished or rolled back; not so with a domain pointed by hand.
Resolved == cfg.marker = None
FenceResolves == cfg.marker # None /\ mode # "manual" ~> Resolved \/ ~Promised

=============================================================================
