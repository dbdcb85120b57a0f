---------------------------- MODULE ComposeSystem ----------------------------
(***************************************************************************)
(* A compose-ha environment under its commands: failover, failover -abort, *)
(* deploy and status, one at a time, each of which may die between any two *)
(* of its steps, beside the servers that do as they please.                *)
(***************************************************************************)
EXTENDS ComposeFailover, ComposeDeploy

CONSTANT Births   \* do the roles begin on the stacks they were born on?

ASSUME BirthsAssumption == Births \subseteq {"born", "other"}

vars == <<node, link, dns, cfg, pc, run, used>>

Init == InitPair(Births, 0)

\* `status` fences a retired server that has come back (reconcileRetiredFence).
Reconcile ==
  /\ pc = "idle" /\ cfg.swapped
  /\ Retire(Standby)
  /\ UNCHANGED <<link, dns, cfg, pc, run>>

Crash ==
  /\ pc # "idle" /\ used.crashes < MaxCrashes
  /\ pc' = "idle" /\ run' = NoRun
  /\ used' = [used EXCEPT !.crashes = @ + 1]
  /\ Kept

Command == FailoverStep \/ AbortStep \/ DeployStep
Next ==
  \/ World \/ Crash \/ Reconcile
  \/ FailoverStart \/ AbortStart \/ DeployStart
  \/ Command

Spec == Init /\ [][Next]_vars

\* A running command goes on; a journal gets a failover and an idle environment
\* a deploy that allows nothing degraded, as the commands tell the operator; a
\* server comes back, a promote lands, replication catches up.
Fairness ==
  /\ WF_vars(Command)
  /\ SF_vars(FailoverStart /\ cfg.journal # None)
  /\ SF_vars(DeployStart /\ ~run'.allow)
  /\ \A s \in Side : /\ WF_vars(Return(s)) /\ WF_vars(PromoteLands(s))
                     /\ WF_vars(Replicate(s)) /\ WF_vars(LinkUp(s))

FairSpec == Spec /\ Fairness

-----------------------------------------------------------------------------
(* Invariants.                                                             *)

\* Every variable keeps its shape and every bound is kept.
TypeOK ==
  /\ node \in [Side -> Node]
  /\ link \in BOOLEAN
  /\ dns \in Side
  /\ cfg \in Config
  /\ pc \in {"idle"} \cup FailoverPc \cup AbortPc \cup DeployPc
  /\ run \in Run
  /\ used \in [runs : 0..MaxRuns, faults : 0..MaxFaults, crashes : 0..MaxCrashes,
               lost : BOOLEAN]

\* A primary that refuses writes is on record, in the fence's marker or in a
\* failover's journal, so that the next failover or deploy finds it
\* (write-fence.js), whatever died, failed or was called off before.
StrandedFenceRecorded ==
  node[Primary].fence => cfg.marker = Primary \/ cfg.journal # None

\* A pair recorded healthy has a replica that would come up writable: no
\* failover, abort, failed deploy or half-done reconverge leaves a record that
\* says streaming beside a standby that is none (haFinalizeConfig, the save of
\* swapComposeHaRoles, failover-abort.js).
HealthyHasReplica ==
  ~cfg.degraded /\ cfg.journal = None => node[Standby].rec /\ ~node[Standby].fence

-----------------------------------------------------------------------------
(* What a step may never do.                                               *)

\* A deploy's reseed of a normal pair never wipes a database on a newer timeline
\* than the primary's, but for the copy an abort recorded as given up
\* (assertComposeStandbyNotPromotedOutside, minutes before the swap).
ReseedOnlyGivenUp ==
  [][pc = "seedSwap" /\ ~(node[Standby].data \subseteq node'[Standby].data) =>
       \/ node[Standby].tl <= node[Primary].tl
       \/ cfg.discard = CopyOf(Standby)]_vars

\* Refinement: while no server was lost and no abort gave a copy up, whatever
\* the commands do and wherever they die, one side at a time takes writes, and
\* it has every transaction.  The one exception is the full copy of step 0c in a
\* rerun, swapped in over a standby that the earlier run's promote has reached
\* since the gates were passed: nothing looks.
Moved == INSTANCE OneWriter WITH
  writer <- {s \in Side : Writes(s)},
  has <- [s \in Side |-> node[s].data]
LateReseed == pc = "reseedSwap" /\ run.journaled /\ ~node[Standby].rec
MovesOneWriter == Moved!Init /\ [][used'.lost \/ LateReseed \/ Moved!Step]_vars

-----------------------------------------------------------------------------
(* Liveness, under FairSpec.                                               *)

\* A pair that failed over gets its replica back by deploys, whatever failed or
\* died, as long as the retired server's database is not left stopped for good
\* ("the way back to two nodes after a compose-HA failover", ha-role-swap.js).
Reconverges == []<>node[Standby].db => (cfg.swapped ~> ~cfg.swapped)

\* A pair recorded degraded, also by an abort, is rebuilt by deploys
\* ("the next vibecarbon deploy reseeds the standby", failover-abort.js).
DeployRebuilds ==
  cfg.degraded /\ cfg.journal = None ~> ~cfg.degraded \/ cfg.journal # None
=============================================================================
