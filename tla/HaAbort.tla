------------------------------ MODULE HaAbort ------------------------------
(***************************************************************************)
(* `vibecarbon failover <env> -abort` (abortFailover in                    *)
(* src/lib/deploy/failover-abort.js, on the k8s backend of failover.js):   *)
(* calls off a journaled failover and keeps the old primary.  The one step *)
(* that must hold is the second: the standby's database is proven down     *)
(* before the old primary takes writes again.                              *)
(***************************************************************************)
EXTENDS HaPair

VARIABLE ab   \* the locals of the running abort

Abort ==
  [read: BOOLEAN,                      \* the standby's lineage was read
   reading: Discardable \cup {None},   \* and it is out of recovery
   lifted: BOOLEAN]                    \* fenceLifted

NoAbort == [read |-> FALSE, reading |-> None, lifted |-> FALSE]

AbortPc == {"lineage", "stop", "calledOff", "repoint", "reach", "rearm", "writers", "record"}

\* No journal, nothing to call off.
AbortStart ==
  /\ cfg.journal # None
  /\ Starts("lineage")
  /\ UNCHANGED <<node, link, dns, cfg, ab>>

\* Step 0, best effort: what the standby holds; in recovery, it is no record.
LineageOfPrimary == IF node[Standby].rec THEN None ELSE GivenUp(Primary)
Lineage == IF node[Standby].rec THEN None ELSE GivenUp(Standby)
ReadStandbyLineage ==
  /\ Goto("lineage", "stop")
  /\ \/ /\ Succeeded(DbAnswers(Standby))
        /\ ab' = [ab EXCEPT !.read = TRUE, !.reading = Lineage]
     \/ Failed(DbAnswers(Standby)) /\ ab' = ab
  /\ UNCHANGED <<node, link, dns, cfg>>

\* Step 1: the StatefulSet at zero and its pod gone, read as such; anything
\* else refuses, the standby stopped or not.
StopStandbyDb ==
  /\ pc = "stop"
  /\ \/ /\ Succeeded(Answers(Standby))
        /\ Set(Standby, Stopped(node[Standby])) /\ link' = FALSE
        /\ pc' = "calledOff" /\ ab' = ab
     \/ /\ Failed(Answers(Standby))
        /\ \/ UNCHANGED <<node, link>>
           \/ /\ Answers(Standby)
              /\ Set(Standby, Stopped(node[Standby])) /\ link' = FALSE
        /\ pc' = "idle" /\ ab' = NoAbort
  /\ UNCHANGED <<dns, cfg>>

\* Step 2, best effort: its app at zero, its intent back to standby.
DisarmStandby ==
  /\ pc = "calledOff" /\ pc' = "repoint"
  /\ \/ /\ Succeeded(Answers(Standby))
        /\ Set(Standby, WithRole(ScaledDown(node[Standby], TRUE, TRUE), "standby", FALSE))
     \/ /\ Failed(Answers(Standby))
        /\ \E tier, addons, role \in BOOLEAN :
             /\ (tier \/ addons \/ role) => Answers(Standby)
             /\ LET n == ScaledDown(node[Standby], tier, addons)
                IN Set(Standby, IF role THEN WithRole(n, "standby", FALSE) ELSE n)
  /\ UNCHANGED <<link, dns, cfg, ab>>

\* Step 3, best effort, managed DNS only.
RepointDns ==
  /\ pc = "repoint" /\ pc' = "reach"
  /\ \/ dns' = Primary /\ used' = used
     \/ dns' \in {dns, Primary} /\ MayFault /\ Spent
  /\ UNCHANGED <<node, link, cfg, ab>>

\* Step 4, only where the old primary answers: its fence lifted,
UnfencePrimary ==
  /\ pc = "reach"
  /\ \/ /\ Succeeded(DbAnswers(Primary))
        /\ Set(Primary, Unfenced(node[Primary]))
        /\ ab' = [ab EXCEPT !.lifted = TRUE]
        /\ pc' = "rearm"
     \/ /\ DbAnswers(Primary) /\ MayFault /\ Spent
        /\ node' = node \/ Set(Primary, Unfenced(node[Primary]))
        /\ ab' = ab /\ pc' = "rearm"
     \/ /\ Failed(DbAnswers(Primary))
        /\ pc' = "record" /\ UNCHANGED <<node, ab>>
  /\ UNCHANGED <<link, dns, cfg>>

\* its wal-g role back, intent and live file,
ArmPrimary ==
  /\ pc = "rearm" /\ pc' = "writers"
  /\ \/ /\ Succeeded(DbAnswers(Primary))
        /\ Set(Primary, WithRole(node[Primary], "primary", TRUE))
     \/ /\ Failed(DbAnswers(Primary))
        /\ \/ node' = node
           \/ Answers(Primary) /\ Set(Primary, WithRole(node[Primary], "primary", FALSE))
  /\ UNCHANGED <<link, dns, cfg, ab>>

\* its app started.
StartPrimaryWriters ==
  /\ pc = "writers" /\ pc' = "record"
  /\ Scale(Primary, ScaledUp)
  /\ UNCHANGED <<link, dns, cfg, ab>>

\* Step 5: one save.  The marker stays when the lift is not proven, so that a
\* later command lifts it; a standby read in recovery, or not read, drops an
\* older record.
KeptMarkerNever == None
KeptMarker == IF ab.lifted THEN None ELSE cfg.marker
RecordAbort ==
  /\ pc = "record" /\ pc' = "idle" /\ ab' = NoAbort
  /\ \/ Saved([cfg EXCEPT !.journal = None, !.sysid = None, !.degraded = TRUE,
                          !.marker = KeptMarker,
                          !.discard = ab.reading])
     \/ SaveFailed
  /\ UNCHANGED <<node, link, dns>>

AbortStep ==
  \/ ReadStandbyLineage \/ StopStandbyDb \/ DisarmStandby \/ RepointDns \/ UnfencePrimary
  \/ ArmPrimary \/ StartPrimaryWriters \/ RecordAbort
=============================================================================
