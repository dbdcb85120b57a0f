------------------------------ MODULE HaSystem ------------------------------
(***************************************************************************)
(* A k8s-ha environment and its operator: the two clusters of HaPair and   *)
(* the commands of HaFailover, HaAbort and HaDeploy, one at a time, each   *)
(* of which may die between two steps.                                     *)
(***************************************************************************)
EXTENDS HaFailover, HaAbort, HaDeploy

CONSTANT Commands   \* what the operator runs in this model

ASSUME CommandsAssumption == Commands \subseteq {"failover", "abort", "deploy"}

locals == <<fo, ab, de>>
vars == <<node, link, dns, cfg, pc, used, fo, ab, de>>

\* The command dies: its locals go with it, the clusters and the config stay.
Crash ==
  /\ pc # "idle" /\ used.crashes < MaxCrashes
  /\ used' = [used EXCEPT !.crashes = @ + 1]
  /\ pc' = "idle"
  /\ fo' = NoFailover /\ ab' = NoAbort /\ de' = NoDeploy
  /\ UNCHANGED <<node, link, dns, cfg>>

Operator ==
  \/ "failover" \in Commands /\ FailoverStart /\ UNCHANGED <<ab, de>>
  \/ "abort" \in Commands /\ AbortStart /\ UNCHANGED <<fo, de>>
  \/ "deploy" \in Commands /\ DeployStart /\ UNCHANGED <<fo, ab>>
  \/ Reconcile /\ UNCHANGED locals

\* A running command's next step.
Command ==
  \/ FailoverStep /\ UNCHANGED <<ab, de>>
  \/ AbortStep /\ UNCHANGED <<fo, de>>
  \/ DeployStep /\ UNCHANGED <<fo, ab>>

Init == InitPair /\ fo = NoFailover /\ ab = NoAbort /\ de = NoDeploy

Next ==
  \/ World /\ UNCHANGED locals
  \/ Operator
  \/ Command
  \/ Crash

Spec == Init /\ [][Next]_vars

\* What the code's schedule guarantees: every step of a command is bounded by a
\* timeout; kubelets, postgres and the walreceiver go on by themselves.  And an
\* operator who reruns a failover that is in flight, with the flags its
\* refusals name: nothing is assumed of failures, crashes or other commands.
WorldGoesOn ==
  \A s \in Side :
    /\ WF_vars(Drain(s) /\ UNCHANGED locals)
    /\ WF_vars(PromoteLands(s) /\ UNCHANGED locals)
    /\ WF_vars(LinkUp(s) /\ UNCHANGED locals)
    /\ WF_vars(Replicate(s) /\ UNCHANGED locals)
Reruns ==
  /\ WF_vars("failover" \in Commands /\ cfg.journal # None /\ FailoverStart
                /\ UNCHANGED <<ab, de>>)
  /\ SF_vars(Check /\ pc' # "idle" /\ UNCHANGED <<ab, de>>)
FairSpec == Spec /\ WF_vars(Command) /\ WorldGoesOn /\ Reruns

TypeOK ==
  /\ node \in [Side -> Node]
  /\ link \in BOOLEAN
  /\ dns \in Side
  /\ cfg \in Config
  /\ pc \in {"idle"} \cup FailoverPc \cup AbortPc \cup DeployPc
  /\ used \in [runs: Nat, faults: Nat, crashes: Nat, behind: BOOLEAN]
  /\ fo \in Failover
  /\ ab \in Abort
  /\ de \in Deploy

-----------------------------------------------------------------------------
(* Safety.                                                                 *)

\* A promote that was sent and may still land is journaled, and aimed at the
\* standby: no lost call, retry, crash or abort leaves one nobody owns.
JournalCoversPromote ==
  \A s \in Side : node[s].pending => s = Standby /\ cfg.journal # None

\* Which step of which command leaves a promote outstanding, with what an abort,
\* an undo and the swap of the roles rely on (failover.js, failover-abort.js):
\* nothing is pending where they drop the journal.
BeforeIssue ==
  {"quiesce", "drained", "mark", "fence", "terminate", "capture", "replayed", "reseed",
   "source", "copy", "unfenced", "arm", "disarm", "journal", "send", "issue",
   "unfence", "restart", "clear"}
Fencings == {"quiesce", "drained", "mark", "fence", "terminate"}
AfterPromote == {"demote", "scaleUp", "scaleDown", "addons", "flip", "swap"}
PromoteOwned ==
  /\ \A s \in Side :
       node[s].pending => s = Standby /\ cfg.journal # None /\ node[s].rec
  /\ pc \in {"send", "issue"} => cfg.journal # None
  /\ pc \in AfterPromote \/ (pc \in Fencings /\ fo.resume) => ~node[Standby].rec
  /\ pc \in BeforeIssue /\ ~fo.journaled => ~node[Standby].pending
  /\ fo.undo => pc \in {"unfence", "restart", "clear"} /\ ~fo.journaled
  /\ pc = "clear" => fo.undo
  /\ pc \in AbortPc \ {"lineage", "stop"} => ~node[Standby].pending

\* A primary that refuses writes, or is about to, is on record: the next
\* failover or deploy finds the marker or the journal (write-fence.js).
StrandedFenceRecorded ==
  node[Primary].fence # "off" => cfg.marker = Primary \/ cfg.journal # None

\* Under the journal of a planned failover the two databases never take writes
\* at once: not with a promote in flight, an abort or a rerun half way.
PlannedNoSplitBrain ==
  cfg.journal # None =>
    (cfg.journal.lsn => ~(TakesWrites(Primary) /\ TakesWrites(Standby)))

\* An environment recorded healthy has a replica: its standby is in recovery,
\* of the primary's database, and a promote would bring it up writable.
HealthyHasReplica ==
  ~cfg.degraded /\ cfg.journal = None =>
    /\ node[Standby].rec /\ node[Standby].id = node[Primary].id
    /\ node[Standby].fence = "off"
    /\ ~node[Standby].retired \/ cfg.swapped

\* The primary of an environment recorded healthy, or of one that failed over,
\* archives its WAL and its backups, also after a restart of its database.
PrimaryArchives ==
  cfg.journal = None /\ (cfg.swapped \/ ~cfg.degraded) =>
    node[Primary].intent = "primary" /\ node[Primary].role = "primary"

\* An abort's record names the copy the standby holds, or nothing is left of
\* that copy: it can never excuse overwriting another.
DiscardIsCurrent ==
  cfg.discard # None =>
    /\ cfg.discard.side = Standby
    /\ node[Standby].rec \/ cfg.discard = GivenUp(Standby)

-----------------------------------------------------------------------------
(* What a step may never do.                                               *)

Promotes(s) == node[s].rec /\ ~node'[s].rec

\* A promote lands on a standby whose live wal-g role is primary already (D2),
\* so its own .history and .partial files are archived.
ArmedBeforePromote ==
  [][\A s \in Side : Promotes(s) => node[s].role = "primary"]_vars

\* RPO 0 of a planned failover: a promote under a journal with a captured WAL
\* position loses nothing the fenced primary committed, provided the standby's
\* data was proven (caught up, or reseeded).
ProvenPromoteLosesNothing ==
  [][\A s \in Side :
       Promotes(s) /\ cfg.journal # None =>
         (cfg.journal.lsn /\ cfg.journal.proof \in {"caughtUp", "reseeded"} =>
            node[Other(s)].data \subseteq node[s].data)]_vars

\* A planned failover never promotes a standby that was found behind
\* (waitForStandbyCaughtUp: reseed it from the fenced primary "or refuse").
PlannedPromoteLosesNothing ==
  [][\A s \in Side :
       Promotes(s) /\ cfg.journal # None =>
         (cfg.journal.lsn => node[Other(s)].data \subseteq node[s].data)]_vars

\* A deploy's reseed overwrites transactions the primary lacks only on a side
\* a failover retired, and on exactly the copy an abort gave up.
ReseedOnlyGivenUp ==
  [][pc = "stage" /\ ~(node[Standby].data \subseteq node'[Standby].data) =>
       \/ node[Standby].id # node[Primary].id
       \/ node[Standby].tl <= node[Primary].tl
       \/ cfg.discard = GivenUp(Standby)]_vars

-----------------------------------------------------------------------------
(* Refinement: with no outage, nothing but the commands moves the writes.  *)

Abstract == INSTANCE OneWriter WITH
  writer <- {s \in Side : Writes(s)},
  has <- [s \in Side |-> node[s].data]

\* Switchovers and deploys, crashed, failed and rerun as they may be, implement
\* OneWriter: no split brain and no lost transaction when no cluster is lost.
\* One thing ends it: a copy skipped mid-probe for a standby that lacks
\* transactions (failover.js:412), which a path between the clusters that is
\* down for one pg_isready is enough for.
SwitchoverIsOneWriter == Abstract!Init /\ [][used'.behind \/ Abstract!Step]_vars

-----------------------------------------------------------------------------
(* Liveness, under FairSpec.                                               *)

\* A failover in flight is resolved by rerunning it: no journal makes every
\* rerun refuse or give up.  The exceptions are those failover-abort.js exists
\* for: a pair recorded degraded, and a standby nothing names the database of,
\* which a forced rerun that cannot read it may come to.
NamedInFlight ==
  /\ cfg.journal # None /\ ~cfg.degraded
  /\ cfg.journal.id # None \/ cfg.sysid # None
JournalResolves == NamedInFlight ~> ~NamedInFlight
=============================================================================
