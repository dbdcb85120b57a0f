----------------------------- MODULE HaFailover -----------------------------
(***************************************************************************)
(* `vibecarbon failover <env>` on k8s-ha (failoverHA, src/failover.js): a  *)
(* planned switchover when the primary answers, an unplanned one when it   *)
(* does not.  Planned, it stops the app, fences the primary's database,    *)
(* proves the standby has everything, arms the standby's wal-g role,       *)
(* journals, promotes, and swaps the roles in the config last.  Any step   *)
(* may fail or be the command's last; a rerun resumes from the journal.    *)
(***************************************************************************)
EXTENDS HaPair

CONSTANT ProbeLies   \* may isPrimaryPostgresReady say no of a ready primary?

ASSUME ProbeLiesAssumption == ProbeLies \in BOOLEAN

VARIABLE fo   \* the locals of the running failover, see Failover

Failover ==
  [planned: BOOLEAN,      \* the primary answered this run
   journaled: BOOLEAN,    \* journalAtEntry: an earlier run left a journal
   resume: BOOLEAN,       \* mode = resume: the standby is promoted already
   tried: BOOLEAN,        \* dbFenceAttempted
   lsn: BOOLEAN,          \* the primary's WAL position was captured
   proof: Proof,          \* of the standby's data, see HaPair
   seen: Id \cup {None},  \* the standby's system identifier, as read or seeded
   undo: BOOLEAN,         \* unquiesce runs for a promote never sent
   hold: BOOLEAN]         \* oldPrimaryStillWriting

NoFailover ==
  [planned |-> FALSE, journaled |-> FALSE, resume |-> FALSE, tried |-> FALSE,
   lsn |-> FALSE, proof |-> "none", seen |-> None, undo |-> FALSE, hold |-> FALSE]

FailoverPc ==
  {"ready", "lift", "check", "quiesce", "drained", "mark", "fence", "terminate",
   "capture", "replayed", "reseed", "source", "copy", "unfenced", "arm", "journal",
   "disarm", "unfence", "restart", "clear",
   "send", "issue", "poll",
   "demote", "scaleUp", "scaleDown", "addons", "flip", "swap", "retire"}

\* Exits: the command reports and ends.
Exit(from) == Goto(from, "idle") /\ fo' = NoFailover

\* pg_isready on a primary, by ssh: no answer, or any error, reads as not ready.
PrimaryReady(answer) ==
  IF answer THEN Succeeded(DbAnswers(Primary))
  ELSE \/ ~DbAnswers(Primary) /\ used' = used
       \/ ProbeLies /\ DbAnswers(Primary) /\ MayFault /\ Spent

-----------------------------------------------------------------------------
(* The gates, before anything changes.                                     *)

\* On a swapped pair the preconditions refuse, see Reconcile in HaDeploy.
FailoverStart ==
  /\ Starts("ready")
  /\ ~cfg.swapped
  /\ UNCHANGED <<node, link, dns, cfg, fo>>

\* The probe that makes the run planned or unplanned.
ProbePrimary ==
  /\ pc = "ready"
  /\ \E answer \in BOOLEAN :
       /\ PrimaryReady(answer)
       /\ pc' = IF answer THEN "lift" ELSE "check"
       /\ fo' = [fo EXCEPT !.planned = answer]
  /\ UNCHANGED <<node, link, dns, cfg>>

\* Planned: an interrupted run's fence comes off first, unless its journal
\* owns it (liftStrandedWriteFence, which refuses to go on when it cannot).
LiftStranded ==
  /\ pc = "lift"
  /\ \/ /\ cfg.marker = None \/ cfg.journal # None
        /\ pc' = "check"
        /\ UNCHANGED <<node, cfg, used, fo>>
     \/ /\ cfg.marker = Standby /\ cfg.journal = None
        /\ Saved([cfg EXCEPT !.marker = None])
        /\ pc' = "check"
        /\ UNCHANGED <<node, fo>>
     \/ /\ cfg.marker = Primary /\ cfg.journal = None
        /\ \/ /\ Succeeded(DbAnswers(Primary))
              /\ Set(Primary, Unfenced(node[Primary]))
              /\ cfg' = [cfg EXCEPT !.marker = None]
              /\ pc' = "check" /\ fo' = fo
           \/ /\ Failed(DbAnswers(Primary))
              /\ \/ node' = node
                 \/ DbAnswers(Primary) /\ Set(Primary, Unfenced(node[Primary]))
              /\ Exit("lift") /\ cfg' = cfg
  /\ UNCHANGED <<link, dns>>

\* What the operator asked for, and the preconditions gate on what is read.
Forced == [unplanned: BOOLEAN, unproven: BOOLEAN, degraded: BOOLEAN]

\* What readReplicaState makes of a standby: whether it streams and its
\* identifier, either of which may be unreadable.
StandbyReadings ==
  {[streams |-> Streaming, id |-> node[Standby].id], [streams |-> FALSE, id |-> None]}

\* assertFailoverClassified: a streaming receiver proves the primary alive.
Classified(f, standby) == fo.planned \/ ~standby.streams \/ f.unplanned

\* assertFailoverPreconditions; primaryId is None unless planned and read.
ResumeAllowedAsRecorded(standby) ==
  ~node[Standby].rec /\ cfg.journal # None /\ standby.id = cfg.sysid
ResumeAllowed(standby) ==
  /\ ~node[Standby].rec /\ cfg.journal # None
  /\ standby.id = IF cfg.journal.id # None THEN cfg.journal.id ELSE cfg.sysid
  /\ standby.id # None

PromoteAllowed(f, standby, primaryId) ==
  /\ node[Standby].rec
  /\ \/ f.unproven
     \/ /\ IF cfg.sysid # None THEN standby.id = cfg.sysid
           ELSE fo.planned /\ standby.streams /\ primaryId # None
        /\ primaryId # None => standby.id = primaryId

Gate(f, standby, primaryId) ==
  /\ Classified(f, standby)
  /\ ~(f.unproven /\ fo.planned)
  /\ f.degraded => f.unproven
  /\ cfg.degraded => f.unproven /\ f.degraded
  /\ ResumeAllowed(standby) \/ PromoteAllowed(f, standby, primaryId)

\* The standby is read, its recovery state at least; the gate decides on that
\* and on the primary's identifier; then worker capacity is provisioned on the
\* standby.  A refusal or a failed provision ends the run.
Check ==
  /\ pc = "check"
  /\ \/ Failed(DbAnswers(Standby)) /\ Exit("check")
     \/ /\ DbAnswers(Standby)
        /\ \E f \in Forced, standby \in StandbyReadings, read \in BOOLEAN :
             LET answer == fo.planned /\ DbAnswers(Primary)
                 primaryId == IF read THEN node[Primary].id ELSE None
             IN /\ read => answer
                /\ IF standby.id = None \/ (answer /\ ~read)
                   THEN MayFault /\ Spent ELSE used' = used
                /\ IF Gate(f, standby, primaryId)
                   THEN /\ fo' = [fo EXCEPT !.journaled = cfg.journal # None,
                                            !.resume = ~node[Standby].rec,
                                            !.seen = standby.id]
                        /\ pc' = IF fo.planned THEN "quiesce"
                                 ELSE IF fo'.resume THEN "demote" ELSE "reseed"
                   ELSE Exit("check")
  /\ UNCHANGED <<node, link, dns, cfg>>

-----------------------------------------------------------------------------
(* STEP 3, planned: stop the writers, then fence the database.             *)

\* Until this run's journal is written, a throw lifts the fence and restarts
\* the app, unless an earlier run's journal may still promote (unquiesce).
AbortedToAlways == IF ~fo.planned THEN "idle" ELSE IF fo.tried THEN "unfence" ELSE "restart"
AbortedTo ==
  IF ~fo.planned \/ fo.journaled THEN "idle"
  ELSE IF fo.tried THEN "unfence" ELSE "restart"
Aborts(from) ==
  /\ Goto(from, AbortedTo)
  /\ fo' = IF AbortedTo = "idle" THEN NoFailover ELSE fo

\* A fence that cannot be proven aborts a promote; a resumed run goes on.
NotFenced(from) ==
  IF fo.resume THEN Goto(from, "demote") /\ fo' = fo ELSE Aborts(from)

Quiesce ==
  /\ pc = "quiesce" /\ pc' = "drained"
  /\ Scale(Primary, ScaledDown)
  /\ UNCHANGED <<link, dns, cfg, fo>>

\* waitForAppTierGone: every pod of the tier gone, read as such.
Remaining == node[Primary].app = "up" \/ node[Primary].addon
Drained ==
  /\ pc = "drained"
  /\ \/ /\ Succeeded(Answers(Primary))
        /\ node[Primary].app = "zero" /\ ~node[Primary].addon
        /\ pc' = "mark" /\ fo' = fo
     \/ /\ Remaining \/ ~Answers(Primary)
        /\ used' = used
        /\ NotFenced("drained")
     \/ Answers(Primary) /\ MayFault /\ Spent /\ NotFenced("drained")
  /\ UNCHANGED <<node, link, dns, cfg>>

\* Recorded before it is applied.
Mark ==
  /\ pc = "mark"
  /\ \/ /\ Saved([cfg EXCEPT !.marker = Primary])
        /\ pc' = "fence" /\ fo' = [fo EXCEPT !.tried = TRUE]
     \/ SaveFailed /\ NotFenced("mark")
  /\ UNCHANGED <<node, link, dns>>

\* fenceDatabaseWrites, first half: the setting, read back from a new session.
Fencing(n) == [n EXCEPT !.fence = IF @ = "on" THEN @ ELSE "set"]
Fence ==
  /\ pc = "fence"
  /\ \/ /\ Succeeded(DbAnswers(Primary))
        /\ Set(Primary, Fencing(node[Primary]))
        /\ pc' = "terminate" /\ fo' = fo
     \/ /\ Failed(DbAnswers(Primary))
        /\ \/ node' = node
           \/ /\ DbAnswers(Primary)
              /\ Set(Primary, Fencing(node[Primary]))
        /\ NotFenced("fence")
  /\ UNCHANGED <<link, dns, cfg>>

\* Second half: no session opened before the setting is left.
Terminate ==
  /\ pc = "terminate"
  /\ \/ /\ Succeeded(DbAnswers(Primary))
        /\ Set(Primary, [node[Primary] EXCEPT !.fence = "on"])
        /\ pc' = IF fo.resume THEN "demote" ELSE "capture"
        /\ fo' = fo
     \/ /\ Failed(DbAnswers(Primary))
        /\ node' = node
        /\ NotFenced("terminate")
  /\ UNCHANGED <<link, dns, cfg>>

-----------------------------------------------------------------------------
(* STEP 4: prove the standby's data, arm it, journal, promote.             *)

\* waitForStandbyCaughtUp reads the primary's WAL position, then whether the
\* standby streams.  A failed read of the latter counts as not streaming.
Capture ==
  /\ pc = "capture"
  /\ \/ /\ DbAnswers(Primary)
        /\ \E streams \in BOOLEAN :
             /\ streams => Streaming /\ DbAnswers(Standby)
             /\ IF ~streams /\ Streaming /\ DbAnswers(Standby)
                THEN MayFault /\ Spent ELSE used' = used
             /\ fo' = [fo EXCEPT !.lsn = TRUE,
                                 !.proof = IF streams THEN "none" ELSE "behind"]
             /\ pc' = IF streams THEN "replayed" ELSE "reseed"
     \/ Failed(DbAnswers(Primary)) /\ Aborts("capture")
  /\ UNCHANGED <<node, link, dns, cfg>>

\* The standby's replay reaches that position, or the deadline passes.  The
\* primary is fenced, so its position is its last.
CaughtUpAssumed == TRUE
CaughtUp == node[Primary].data \subseteq node[Standby].data
Replayed ==
  /\ pc = "replayed"
  /\ \/ /\ Succeeded(DbAnswers(Standby))
        /\ CaughtUp
        /\ fo' = [fo EXCEPT !.proof = "caughtUp"]
        /\ pc' = "reseed"
     \/ /\ \/ ~DbAnswers(Standby) /\ used' = used
           \/ ~Streaming /\ ~CaughtUp /\ used' = used
           \/ MayFault /\ Spent
        /\ Aborts("replayed")
  /\ UNCHANGED <<node, link, dns, cfg>>

\* reseedStandbyOrAbort: nothing to do for a standby read streaming, unless
\* the gate found it behind;
SkipReseed ==
  /\ pc = "reseed"
  /\ \/ /\ fo.proof # "behind"
        /\ Succeeded(DbAnswers(Standby) /\ Streaming)
        /\ pc' = "arm"
     \/ /\ fo.proof = "behind" /\ used' = used
        /\ pc' = "source"
     \/ /\ fo.proof # "behind"
        /\ Failed(DbAnswers(Standby) /\ Streaming)
        /\ pc' = "source"
  /\ UNCHANGED <<node, link, dns, cfg, fo>>

\* skipped as well when the primary is not ready to be copied;
ProbeSource ==
  /\ pc = "source"
  /\ \/ PrimaryReady(TRUE) /\ pc' = "copy" /\ fo' = fo
     \/ /\ PrimaryReady(FALSE) /\ pc' = "arm"
        /\ fo' = [fo EXCEPT !.proof = IF @ = "caughtUp" THEN @ ELSE "skipped"]
  /\ UNCHANGED <<node, link, dns, cfg>>

\* else a full copy.  Its guards want the standby in recovery, now and at the
\* restart, and a source whose intent is primary.  A failure may come after
\* the swap.  The stage asks the primary once more, from the standby and once
\* only: with no answer on that path nothing is copied, and the failover goes
\* on with what the standby holds (RESEED_SKIPPED).
CanReseed ==
  /\ DbAnswers(Primary) /\ DbAnswers(Standby)
  /\ node[Standby].rec /\ node[Primary].intent = "primary"
SkippedProof ==
  IF fo.proof = "caughtUp" THEN "caughtUp" ELSE IF CaughtUp THEN "level" ELSE "skipped"
SkipMidProbe ==
  /\ DbAnswers(Standby) /\ node[Standby].rec /\ node[Primary].intent = "primary"
  /\ Running(Primary) => MayFault
  /\ used' = [used EXCEPT !.faults = IF Running(Primary) THEN @ + 1 ELSE @,
                          !.behind = @ \/ SkippedProof = "skipped"]
  /\ fo' = [fo EXCEPT !.proof = SkippedProof]
  /\ pc' = "arm"
  /\ UNCHANGED <<node, link, cfg>>
Reseed ==
  /\ pc = "copy"
  /\ \/ /\ Succeeded(CanReseed)
        /\ Set(Standby, Reseeded(node[Standby], node[Primary]))
        /\ link' = TRUE
        /\ cfg' = [cfg EXCEPT !.sysid = node[Primary].id]
        /\ fo' = [fo EXCEPT !.proof = "reseeded", !.seen = node[Primary].id]
        /\ pc' = IF fo.planned THEN "unfenced" ELSE "arm"
     \/ /\ Failed(CanReseed)
        /\ \/ UNCHANGED <<node, link>>
           \/ /\ CanReseed
              /\ Set(Standby, Reseeded(node[Standby], node[Primary]))
              /\ link' = TRUE
        /\ Aborts("copy") /\ cfg' = cfg
     \/ SkipMidProbe
  /\ dns' = dns

\* assertStandbyNotWriteFenced, read from the reseeded standby's settings.
AssertUnfenced ==
  /\ pc = "unfenced"
  /\ \/ /\ Succeeded(DbAnswers(Standby)) /\ node[Standby].fence = "off"
        /\ pc' = "arm" /\ fo' = fo
     \/ /\ \/ Failed(DbAnswers(Standby))
           \/ node[Standby].fence # "off" /\ used' = used
        /\ Aborts("unfenced")
  /\ UNCHANGED <<node, link, dns, cfg>>

\* An abort after the arm disarms the standby, unless an earlier run's promote
\* may still land.
NotArmedGoesOn(from) == Goto(from, "journal") /\ fo' = fo
NotArmedDisarms(from) == Goto(from, "disarm") /\ fo' = fo
NotArmed(from) ==
  IF fo.journaled THEN Aborts(from) ELSE Goto(from, "disarm") /\ fo' = fo

\* D2: the intent and the live file; a half arm is an abort.
Arm ==
  /\ pc = "arm"
  /\ \/ /\ Succeeded(DbAnswers(Standby))
        /\ Set(Standby, WithRole(node[Standby], "primary", TRUE))
        /\ pc' = "journal" /\ fo' = fo
     \/ /\ Failed(DbAnswers(Standby))
        /\ \/ node' = node
           \/ Answers(Standby) /\ Set(Standby, WithRole(node[Standby], "primary", FALSE))
           \/ DbAnswers(Standby) /\ Set(Standby, WithRole(node[Standby], "primary", TRUE))
        /\ NotArmed("arm")
  /\ UNCHANGED <<link, dns, cfg>>

\* disarmStandby, best effort.
Disarm ==
  /\ pc = "disarm"
  /\ \/ /\ Succeeded(Answers(Standby))
        /\ Set(Standby, WithRole(node[Standby], "standby", Running(Standby)))
     \/ /\ Failed(Answers(Standby))
        /\ \/ node' = node
           \/ Answers(Standby) /\ Set(Standby, WithRole(node[Standby], "standby", FALSE))
  /\ Aborts("disarm")
  /\ UNCHANGED <<link, dns, cfg>>

\* R2: immediately before the promote.
WriteJournal ==
  /\ pc = "journal"
  /\ \/ /\ Saved([cfg EXCEPT !.journal =
                    [lsn |-> fo.lsn, id |-> fo.seen, proof |-> fo.proof]])
        /\ pc' = "send" /\ fo' = fo
     \/ SaveFailed /\ NotArmed("journal")
  /\ UNCHANGED <<node, link, dns>>

\* promoteWithProof reads the standby in recovery right before it sends: else
\* nothing was sent, and a run with no journal at its entry undoes everything.
ReadBeforePromote ==
  /\ pc = "send"
  /\ \/ /\ Succeeded(DbAnswers(Standby)) /\ node[Standby].rec
        /\ pc' = "issue" /\ fo' = fo
     \/ /\ \/ DbAnswers(Standby) /\ ~node[Standby].rec /\ used' = used
           \/ Failed(DbAnswers(Standby))
        /\ IF fo.journaled THEN Exit("send")
           ELSE /\ Goto("send", IF fo.planned THEN "unfence" ELSE "clear")
                /\ fo' = [fo EXCEPT !.undo = TRUE]
  /\ UNCHANGED <<node, link, dns, cfg>>

\* A server that is out of recovery ignores a promote.
Promoting(n) == [n EXCEPT !.pending = IF n.rec THEN TRUE ELSE @]

\* Sent: it lands, is lost, or lands although the call failed.
IssuePromote ==
  /\ Goto("issue", "poll")
  /\ \/ /\ Succeeded(DbAnswers(Standby))
        /\ Set(Standby, Promoting(node[Standby]))
     \/ /\ Failed(DbAnswers(Standby))
        /\ \/ node' = node
           \/ /\ DbAnswers(Standby)
              /\ Set(Standby, Promoting(node[Standby]))
  /\ UNCHANGED <<link, dns, cfg, fo>>

\* Only a proven out-of-recovery reading is an answer; the deadline is not.
Poll ==
  /\ pc = "poll"
  /\ \/ /\ Succeeded(DbAnswers(Standby)) /\ ~node[Standby].rec
        /\ pc' = "demote" /\ fo' = fo
     \/ /\ node[Standby].rec \/ ~DbAnswers(Standby)
        /\ used' = used /\ Exit("poll")
     \/ Failed(DbAnswers(Standby)) /\ Exit("poll")
  /\ UNCHANGED <<node, link, dns, cfg>>

-----------------------------------------------------------------------------
(* unquiesce: lift the fence, clear the marker when that is proven, scale   *)
(* the app up; then the journal goes when nothing was sent.                *)

AfterUndo(from) ==
  /\ Goto(from, IF fo.undo THEN "clear" ELSE "idle")
  /\ fo' = IF fo.undo THEN fo ELSE NoFailover

\* A marker that cannot be cleared ends unquiesce: the app stays down.
Unfence ==
  /\ pc = "unfence"
  /\ \/ /\ DbAnswers(Primary)
        /\ Set(Primary, Unfenced(node[Primary]))
        /\ \/ Saved([cfg EXCEPT !.marker = None]) /\ pc' = "restart" /\ fo' = fo
           \/ SaveFailed /\ AfterUndo("unfence")
     \/ /\ Failed(DbAnswers(Primary))
        /\ \/ node' = node
           \/ DbAnswers(Primary) /\ Set(Primary, Unfenced(node[Primary]))
        /\ cfg' = cfg /\ pc' = "restart" /\ fo' = fo
  /\ UNCHANGED <<link, dns>>

RestartApp ==
  /\ pc = "restart"
  /\ Scale(Primary, ScaledUp)
  /\ AfterUndo("restart")
  /\ UNCHANGED <<link, dns, cfg>>

ClearJournal ==
  /\ Exit("clear")
  /\ Saved([cfg EXCEPT !.journal = None]) \/ SaveFailed
  /\ UNCHANGED <<node, link, dns>>

-----------------------------------------------------------------------------
(* After the promote: everything below is best effort up to the swap.      *)

\* STEP 4b: the old primary's intent and live role, where it answers.
Demote ==
  /\ Goto("demote", "scaleUp")
  /\ \/ /\ Succeeded(Answers(Primary))
        /\ Set(Primary, WithRole(node[Primary], "standby", Running(Primary)))
     \/ /\ Failed(Answers(Primary))
        /\ \/ node' = node
           \/ Answers(Primary) /\ Set(Primary, WithRole(node[Primary], "standby", FALSE))
  /\ UNCHANGED <<link, dns, cfg, fo>>

\* STEP 5: the promoted app tier, without the primary-only add-ons.
ScaleUpPromoted ==
  /\ Goto("scaleUp", IF fo.planned THEN "addons" ELSE "scaleDown")
  /\ \/ Succeeded(Answers(Standby)) /\ Set(Standby, ScaledUp(node[Standby], TRUE, FALSE))
     \/ /\ Failed(Answers(Standby))
        /\ \/ node' = node
           \/ Answers(Standby) /\ Set(Standby, ScaledUp(node[Standby], TRUE, FALSE))
  /\ UNCHANGED <<link, dns, cfg, fo>>

\* STEP 6b, unplanned: the old app tier, if its cluster answers.  One that
\* answered and did not scale everything down holds the add-ons back.
ScaleDownOld ==
  /\ Goto("scaleDown", "addons")
  /\ Scale(Primary, ScaledDown)
  /\ \E hold \in BOOLEAN :
       /\ hold => used'.faults > used.faults
       /\ fo' = [fo EXCEPT !.hold = hold]
  /\ used'.faults > used.faults => fo'.hold \/ node' = node
  /\ UNCHANGED <<link, dns, cfg>>

\* STEP 6c.
StartAddons ==
  /\ Goto("addons", "flip")
  /\ \/ fo.hold /\ used' = used /\ node' = node
     \/ /\ ~fo.hold
        /\ \/ Succeeded(Answers(Standby)) /\ Set(Standby, ScaledUp(node[Standby], FALSE, TRUE))
           \/ /\ Failed(Answers(Standby))
              /\ \/ node' = node
                 \/ Answers(Standby) /\ Set(Standby, ScaledUp(node[Standby], FALSE, TRUE))
  /\ UNCHANGED <<link, dns, cfg, fo>>

\* STEP 7: the provider's API; a flip not confirmed is reported at the end.
FlipDns ==
  /\ Goto("flip", "swap")
  /\ \/ dns' = Standby /\ used' = used
     \/ dns' \in {dns, Standby} /\ MayFault /\ Spent
  /\ UNCHANGED <<node, link, cfg, fo>>

\* The terminal save: the roles, the posture, the journal, in one write.
SwapHaRoles ==
  /\ pc = "swap"
  /\ \/ /\ Saved([cfg EXCEPT !.primary = Standby, !.degraded = TRUE, !.swapped = TRUE,
                              !.journal = None, !.marker = None, !.discard = None])
        /\ pc' = "retire" /\ fo' = fo
     \/ SaveFailed /\ Exit("swap")
  /\ UNCHANGED <<node, link, dns>>

\* The old primary is fenced now, if it answers.
RetireOld ==
  /\ Exit("retire")
  /\ Retire(Standby)
  /\ UNCHANGED <<link, dns, cfg>>

FailoverStep ==
  \/ ProbePrimary \/ LiftStranded \/ Check
  \/ Quiesce \/ Drained \/ Mark \/ Fence \/ Terminate
  \/ Capture \/ Replayed \/ SkipReseed \/ ProbeSource \/ Reseed \/ AssertUnfenced
  \/ Arm \/ Disarm \/ WriteJournal \/ ReadBeforePromote \/ IssuePromote \/ Poll
  \/ Unfence \/ RestartApp \/ ClearJournal
  \/ Demote \/ ScaleUpPromoted \/ ScaleDownOld \/ StartAddons \/ FlipDns
  \/ SwapHaRoles \/ RetireOld
=============================================================================
