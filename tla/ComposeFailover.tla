--------------------------- MODULE ComposeFailover ---------------------------
(***************************************************************************)
(* `vibecarbon failover <env>` on compose-ha (failoverComposeHA in         *)
(* src/lib/deploy/compose/ha.js), and its -abort on this backend.  A       *)
(* planned run stops the primary's writers, fences its database, proves    *)
(* the standby holds everything, arms it, journals, promotes, restarts     *)
(* the standby's app, and swaps the roles in the config last.  Unplanned,  *)
(* it promotes what the standby has and stops the old writers afterwards.  *)
(***************************************************************************)
EXTENDS ComposePair

FailoverPc ==
  {"ready", "lift", "check", "stop", "mark", "fence", "capture", "replayed", "reseed",
   "reseedSwap", "reseedUp", "arm", "disarm", "journal", "send", "issue", "poll", "unfence", "startApp", "clear",
   "restart", "stopOld", "holdOld", "demote", "flip", "swap", "retire"}

-----------------------------------------------------------------------------
(* The gates, before anything changes.                                     *)

\* assertNoComposeHaRoleSwap: on a swapped pair the standby is the retired
\* server.  A pair failed back onto the stacks of its birth gets past it.
FailoverStart ==
  /\ ~(Inverted /\ cfg.swapped)
  /\ Begin("ready")
  /\ IF cfg.journal # None \/ cfg.swapped THEN used' = used
     ELSE used.runs < MaxRuns /\ used' = [used EXCEPT !.runs = @ + 1]
  /\ Kept

\* isPrimaryReachable: a primary that answers makes the run planned.
ProbePrimary ==
  /\ Goto("ready", IF DbAnswers(Primary) THEN "lift" ELSE "check")
  /\ run' = [run EXCEPT !.planned = DbAnswers(Primary)]
  /\ used' = used /\ Kept

LiftAtFailover == LiftStranded("lift", "check", "idle")

Forced == [unplanned: BOOLEAN, unproven: BOOLEAN, degraded: BOOLEAN]
StandbyReadings ==
  {[streams |-> Streaming, named |-> TRUE], [streams |-> FALSE, named |-> FALSE]}

\* assertFailoverClassified: a standby that streams proves the primary alive.
Classified(f, standby) == run.planned \/ ~standby.streams \/ f.unplanned

\* assertFailoverPreconditions.  Both sides are of one database, so an
\* identifier tells apart only whether it was read.
ResumeAllowed(standby) ==
  /\ ~node[Standby].rec
  /\ cfg.journal # None
  /\ standby.named
  /\ cfg.journal.named \/ cfg.known
PromoteAllowed(f, standby, named) ==
  /\ node[Standby].rec
  /\ \/ f.unproven
     \/ /\ standby.named
        /\ cfg.known \/ (run.planned /\ standby.streams /\ named)
Gate(f, standby, named) ==
  /\ Classified(f, standby)
  /\ ~(f.unproven /\ run.planned)
  /\ f.degraded => f.unproven
  /\ ~cfg.swapped
  /\ cfg.degraded => f.unproven /\ f.degraded
  /\ ResumeAllowed(standby) \/ PromoteAllowed(f, standby, named)

\* The standby and, planned, the primary are read; a refusal ends the run.
Check ==
  /\ pc = "check"
  /\ \/ Failed(DbAnswers(Standby)) /\ Exit("check")
     \/ /\ DbAnswers(Standby)
        /\ \E f \in Forced, standby \in StandbyReadings, named \in BOOLEAN :
             LET answers == run.planned /\ DbAnswers(Primary)
             IN /\ named => answers
                /\ IF ~standby.named \/ (answers /\ ~named)
                   THEN MayFault /\ Spent ELSE used' = used
                /\ IF Gate(f, standby, named)
                   THEN /\ run' = [run EXCEPT !.journaled = cfg.journal # None,
                                              !.resume = ~node[Standby].rec,
                                              !.journal.named = standby.named]
                        /\ pc' = IF run.planned THEN "stop"
                                 ELSE IF run'.resume THEN "restart" ELSE "arm"
                   ELSE Exit("check")
  /\ Kept

-----------------------------------------------------------------------------
(* Step 0a, planned: stop the writers, fence the database.                 *)

\* unfence: nothing to lift, or an earlier run's promote may still land.
UndoTo ==
  IF run.journaled \/ ~(run.stopped \/ run.tried) THEN "idle"
  ELSE IF run.tried THEN "unfence" ELSE "startApp"
Undo(from) ==
  /\ Goto(from, IF UndoTo = "idle" /\ run.unsent THEN "clear" ELSE UndoTo)
  /\ run' = IF pc' = "idle" THEN NoRun ELSE run

\* A fence that is not proven aborts a promote; a resumed run goes on.
NotFenced(stopped) ==
  LET to == IF (~stopped /\ ~run.tried) \/ run.journaled THEN "idle"
            ELSE IF run.tried THEN "unfence" ELSE "startApp"
  IN /\ pc' = IF run.resume THEN "restart" ELSE to
     /\ run' = IF pc' = "idle" THEN NoRun ELSE [run EXCEPT !.stopped = stopped]

\* stopOldPrimaryWriters; a stop whose answer is lost names no container.
StopWriters ==
  /\ pc = "stop"
  /\ \/ /\ Succeeded(Answers(Primary)) /\ Set(Primary, WithApp(Primary, FALSE))
        /\ pc' = "mark" /\ run' = [run EXCEPT !.stopped = node[Primary].app]
     \/ /\ Failed(Answers(Primary))
        /\ \/ node' = node
           \/ Answers(Primary) /\ Set(Primary, WithApp(Primary, FALSE))
        /\ NotFenced(FALSE)
  /\ UNCHANGED <<link, dns, cfg>>

\* Recorded before it is applied.
Mark ==
  /\ pc = "mark"
  /\ \/ /\ Saved([cfg EXCEPT !.marker = Primary])
        /\ pc' = "fence" /\ run' = [run EXCEPT !.tried = TRUE]
     \/ SaveFailed /\ NotFenced(run.stopped)
  /\ UNCHANGED <<node, link, dns>>

\* fenceDatabaseWrites: the setting, and every session that is older.
Fence ==
  /\ pc = "fence"
  /\ \/ /\ Succeeded(DbAnswers(Primary)) /\ Set(Primary, Fenced(Primary))
        /\ pc' = IF run.resume THEN "restart" ELSE "capture"
        /\ run' = [run EXCEPT !.fenced = TRUE]
     \/ /\ Failed(DbAnswers(Primary))
        /\ node' = node \/ (DbAnswers(Primary) /\ Set(Primary, Fenced(Primary)))
        /\ NotFenced(run.stopped)
  /\ UNCHANGED <<link, dns, cfg>>

-----------------------------------------------------------------------------
(* Steps 0b to 1: prove the standby's data, arm it, journal, promote.      *)

\* waitForStandbyCaughtUp: the primary's WAL position, then whether the
\* standby streams; a reading that fails counts as not streaming.
Capture ==
  /\ pc = "capture"
  /\ \/ /\ DbAnswers(Primary)
        /\ \E streams \in BOOLEAN :
             /\ streams => Streaming /\ DbAnswers(Standby)
             /\ IF ~streams /\ Streaming /\ DbAnswers(Standby)
                THEN MayFault /\ Spent ELSE used' = used
             /\ pc' = IF streams THEN "replayed" ELSE "reseed"
        /\ run' = [run EXCEPT !.journal.lsn = TRUE]
     \/ Failed(DbAnswers(Primary)) /\ Undo("capture")
  /\ Kept

CaughtUpAssumed == TRUE
CaughtUp == node[Primary].data \subseteq node[Standby].data
Replayed ==
  /\ pc = "replayed"
  /\ \/ /\ Succeeded(DbAnswers(Standby)) /\ CaughtUp
        /\ pc' = "arm" /\ run' = [run EXCEPT !.journal.proof = "caughtUp"]
     \/ /\ \/ ~DbAnswers(Standby) /\ used' = used
           \/ ~Streaming /\ ~CaughtUp /\ used' = used
           \/ MayFault /\ Spent
        /\ Undo("replayed")
  /\ Kept

\* Step 0c: a full copy of the fenced primary, read back as a replica, its
\* identifier recorded, the fence proven off.
Reseed ==
  /\ \/ StopForReseed /\ Step("reseed", "reseedSwap")
     \/ StopFails /\ Undo("reseed")
  /\ UNCHANGED <<dns, cfg>>
SwapReseed ==
  /\ \/ SwapDirs /\ Step("reseedSwap", "reseedUp")
     \/ SwapFails /\ Undo("reseedSwap")
  /\ UNCHANGED <<dns, cfg>>
ProveReseed ==
  /\ \/ /\ StartReseeded /\ Goto("reseedUp", "arm")
        /\ cfg' = [cfg EXCEPT !.known = TRUE]
        /\ run' = [run EXCEPT !.journal.named = TRUE, !.journal.proof = "reseeded"]
     \/ /\ StartFails /\ Undo("reseedUp")
        /\ cfg' \in {cfg, [cfg EXCEPT !.known = TRUE]}
  /\ dns' = dns

\* An abort past the arm disarms the standby, unless an earlier run's promote
\* may still land on it.
NotArmed(from) == IF run.journaled THEN Undo(from) ELSE Step(from, "disarm")
Arm ==
  /\ \/ /\ Succeeded(Answers(Standby)) /\ Set(Standby, WithRole(Standby, "primary"))
        /\ Step("arm", "journal")
     \/ /\ Failed(Answers(Standby))
        /\ \/ node' = node
           \/ Answers(Standby) /\ Set(Standby, WithRole(Standby, "primary"))
        /\ NotArmed("arm")
  /\ UNCHANGED <<link, dns, cfg>>
Disarm ==
  /\ Call(Answers(Standby), Standby, WithRole(Standby, "standby"))
  /\ Undo("disarm")
  /\ UNCHANGED <<link, dns, cfg>>

WriteJournal ==
  /\ \/ Saved([cfg EXCEPT !.journal = run.journal]) /\ Step("journal", "send")
     \/ SaveFailed /\ NotArmed("journal")
  /\ UNCHANGED <<node, link, dns>>

\* promoteWithProof reads the standby in recovery right before it sends; else
\* nothing was sent, and a first run undoes everything.
ReadBeforePromote ==
  /\ pc = "send"
  /\ \/ /\ Succeeded(DbAnswers(Standby)) /\ node[Standby].rec
        /\ pc' = "issue" /\ run' = run
     \/ /\ \/ DbAnswers(Standby) /\ ~node[Standby].rec /\ used' = used
           \/ Failed(DbAnswers(Standby))
        /\ IF ~run.journaled
           THEN /\ run' = [run EXCEPT !.unsent = TRUE]
                /\ pc' = IF run.planned THEN "unfence" ELSE "clear"
           ELSE IF run.fenced THEN Exit("send") ELSE Step("send", "holdOld")
  /\ Kept

\* Sent: it lands, is lost, or lands although the call failed.
Promoting(s) == [node[s] EXCEPT !.pending = node[s].rec]
IssuePromote ==
  /\ Step("issue", "poll")
  /\ Call(DbAnswers(Standby), Standby, Promoting(Standby))
  /\ UNCHANGED <<link, dns, cfg>>

\* Only a reading out of recovery is an answer.  Without one the old primary's
\* app stays, or is, stopped.
Poll ==
  /\ pc = "poll"
  /\ \/ /\ Succeeded(DbAnswers(Standby)) /\ ~node[Standby].rec
        /\ Step("poll", "restart")
     \/ /\ \/ node[Standby].rec /\ used' = used
           \/ Failed(DbAnswers(Standby))
        /\ IF run.fenced THEN Exit("poll") ELSE Step("poll", "holdOld")
  /\ Kept
HoldOld ==
  /\ Exit("holdOld")
  /\ Call(Answers(Primary), Primary, WithApp(Primary, FALSE))
  /\ UNCHANGED <<link, dns, cfg>>

-----------------------------------------------------------------------------
(* unfence: lift the fence and then its marker, start what was stopped;     *)
(* then the journal of a promote that was never sent goes.                 *)

AfterUndo(from) ==
  /\ Goto(from, IF run.unsent THEN "clear" ELSE "idle")
  /\ run' = IF run.unsent THEN run ELSE NoRun
Unfence ==
  /\ pc = "unfence"
  /\ \/ /\ DbAnswers(Primary) /\ Set(Primary, Unfenced(Primary))
        /\ \/ Saved([cfg EXCEPT !.marker = None]) /\ Step("unfence", "startApp")
           \/ SaveFailed /\ AfterUndo("unfence")
     \/ /\ Failed(DbAnswers(Primary)) /\ cfg' = cfg
        /\ node' = node \/ (DbAnswers(Primary) /\ Set(Primary, Unfenced(Primary)))
        /\ Step("unfence", "startApp")
  /\ UNCHANGED <<link, dns>>
StartApp ==
  /\ AfterUndo("startApp")
  /\ \/ run.stopped /\ Call(Answers(Primary), Primary, WithApp(Primary, TRUE))
     \/ ~run.stopped /\ UNCHANGED <<node, used>>
  /\ UNCHANGED <<link, dns, cfg>>
ClearJournal ==
  /\ Exit("clear")
  /\ Save([cfg EXCEPT !.journal = None])
  /\ UNCHANGED <<node, link, dns>>

-----------------------------------------------------------------------------
(* After the promote: best effort up to the save of the swap.              *)

RestartApp ==
  /\ Step("restart", IF run.fenced THEN "demote" ELSE "stopOld")
  /\ Call(Answers(Standby), Standby, WithApp(Standby, TRUE))
  /\ UNCHANGED <<link, dns, cfg>>
StopOld ==
  /\ Step("stopOld", "demote")
  /\ Call(Answers(Primary), Primary, WithApp(Primary, FALSE))
  /\ UNCHANGED <<link, dns, cfg>>
Demote ==
  /\ Step("demote", "flip")
  /\ Call(Answers(Primary), Primary, WithRole(Primary, "standby"))
  /\ UNCHANGED <<link, dns, cfg>>
FlipDns ==
  /\ Step("flip", "swap")
  /\ \/ dns' = Standby /\ used' = used
     \/ dns' \in {dns, Standby} /\ MayFault /\ Spent
  /\ UNCHANGED <<node, link, cfg>>

\* swapComposeHaRoles: roles, posture and journal in one save.
SwapRoles ==
  /\ pc = "swap"
  /\ \/ /\ Saved([cfg EXCEPT !.primary = Standby, !.degraded = TRUE, !.swapped = TRUE,
                             !.journal = None, !.marker = None, !.discard = None])
        /\ pc' = "retire" /\ run' = run
     \/ SaveFailed /\ Exit("swap")
  /\ UNCHANGED <<node, link, dns>>
RetireOld ==
  /\ Exit("retire")
  /\ Retire(Standby)
  /\ UNCHANGED <<link, dns, cfg>>

FailoverStep ==
  \/ ProbePrimary \/ LiftAtFailover \/ Check \/ StopWriters \/ Mark \/ Fence
  \/ Capture \/ Replayed \/ Reseed \/ SwapReseed \/ ProveReseed \/ Arm \/ Disarm \/ WriteJournal
  \/ ReadBeforePromote \/ IssuePromote \/ Poll \/ HoldOld
  \/ Unfence \/ StartApp \/ ClearJournal
  \/ RestartApp \/ StopOld \/ Demote \/ FlipDns \/ SwapRoles \/ RetireOld

-----------------------------------------------------------------------------
(* `failover -abort` (abortFailover over composeFailoverAbortBackend): the  *)
(* standby's database is proven down before the primary serves again.      *)

AbortPc == {"lineage", "stopDb", "calledOff", "repoint", "reach", "rearm", "writers", "record"}

AbortStart ==
  /\ cfg.journal # None
  /\ Begin("lineage")
  /\ used' = used /\ Kept

\* Best effort: which copy the promote made of the standby.
ReadLineage ==
  /\ Goto("lineage", "stopDb")
  /\ \/ /\ Succeeded(DbAnswers(Standby))
        /\ run' = [run EXCEPT !.reading = IF node[Standby].rec THEN None ELSE CopyOf(Standby)]
     \/ Failed(DbAnswers(Standby)) /\ run' = run
  /\ Kept

\* Read as stopped, or the abort refuses.  A promoted copy is given up here.
GivesUp == IF node[Standby].rec THEN used ELSE [used EXCEPT !.lost = TRUE]
StopStandbyDb ==
  /\ pc = "stopDb"
  /\ \/ /\ Answers(Standby) /\ used' = GivesUp
        /\ Set(Standby, DbStopped(Standby)) /\ link' = FALSE
        /\ pc' = "calledOff" /\ run' = run
     \/ /\ Failed(Answers(Standby))
        /\ \/ UNCHANGED <<node, link>>
           \/ Answers(Standby) /\ Set(Standby, DbStopped(Standby)) /\ link' = FALSE
        /\ Exit("stopDb")
  /\ UNCHANGED <<dns, cfg>>

DisarmStandby ==
  /\ Step("calledOff", "repoint")
  /\ \/ /\ Succeeded(Answers(Standby))
        /\ Set(Standby, [WithRole(Standby, "standby") EXCEPT !.app = FALSE])
     \/ /\ Failed(Answers(Standby))
        /\ \/ node' = node
           \/ Answers(Standby) /\ Set(Standby, WithApp(Standby, FALSE))
           \/ Answers(Standby) /\ Set(Standby, WithRole(Standby, "standby"))
  /\ UNCHANGED <<link, dns, cfg>>
RepointDns ==
  /\ Step("repoint", "reach")
  /\ \/ dns' = Primary /\ used' = used
     \/ dns' \in {dns, Primary} /\ MayFault /\ Spent
  /\ UNCHANGED <<node, link, cfg>>

\* Only where the old primary answers.
UnfencePrimary ==
  /\ pc = "reach"
  /\ \/ /\ Succeeded(DbAnswers(Primary)) /\ Set(Primary, Unfenced(Primary))
        /\ run' = [run EXCEPT !.lifted = TRUE] /\ pc' = "rearm"
     \/ /\ DbAnswers(Primary) /\ MayFault /\ Spent
        /\ node' = node \/ Set(Primary, Unfenced(Primary))
        /\ Step("reach", "rearm")
     \/ /\ ~DbAnswers(Primary) /\ used' = used /\ node' = node
        /\ Step("reach", "record")
  /\ UNCHANGED <<link, dns, cfg>>
ArmPrimary ==
  /\ Step("rearm", "writers")
  /\ Call(Answers(Primary), Primary, WithRole(Primary, "primary"))
  /\ UNCHANGED <<link, dns, cfg>>
StartPrimaryWriters ==
  /\ Step("writers", "record")
  /\ Call(Answers(Primary), Primary, WithApp(Primary, TRUE))
  /\ UNCHANGED <<link, dns, cfg>>

\* One save; the marker stays unless the lift is proven.
KeptMarkerNever == None
KeptMarker == IF run.lifted THEN None ELSE cfg.marker
RecordAbort ==
  /\ Exit("record")
  /\ Save([cfg EXCEPT !.journal = None, !.known = FALSE, !.degraded = TRUE,
                      !.marker = KeptMarker, !.discard = run.reading])
  /\ UNCHANGED <<node, link, dns>>

AbortStep ==
  \/ ReadLineage \/ StopStandbyDb \/ DisarmStandby \/ RepointDns \/ UnfencePrimary
  \/ ArmPrimary \/ StartPrimaryWriters \/ RecordAbort
=============================================================================
