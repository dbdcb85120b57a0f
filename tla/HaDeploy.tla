------------------------------ MODULE HaDeploy ------------------------------
(***************************************************************************)
(* `vibecarbon deploy <env>` of an existing k8s-ha pair, and the           *)
(* retirement fence every command that meets a swapped pair applies        *)
(* (src/lib/deploy/orchestrator.js, effects/k8s-ha.js, k8s/ha/index.js,    *)
(* retired-fence.js).  A deploy is the only way back to a streaming pair   *)
(* after a failover or an abort: it rebuilds the standby from the primary, *)
(* and must never do so over writes the primary does not hold unless the   *)
(* operator gave that copy up.                                             *)
(***************************************************************************)
EXTENDS HaPair

VARIABLE de   \* the locals of the running deploy, see Deploy

Deploy ==
  [allowDegraded: BOOLEAN,       \* -allow-degraded
   retired: BOOLEAN,             \* retiredAtEntry
   dnsSet: BOOLEAN,              \* the early DNS write landed
   sysid: Id \cup {None},        \* of the verified streaming standby
   reseeded: BOOLEAN,            \* the standby was rebuilt by this run
   kept: BOOLEAN]                \* reconvergeIncomplete: the fence stays

NoDeploy == [allowDegraded |-> FALSE, retired |-> FALSE, dnsSet |-> FALSE,
             sysid |-> None, reseeded |-> FALSE, kept |-> FALSE]

DeployPc ==
  {"entry", "refence", "clusters", "probe", "guard", "stage", "stream", "forget",
   "gate", "dns", "unretire", "writable", "save"}

DeployExit(from) == Goto(from, "idle") /\ de' = NoDeploy

\* `vibecarbon status`, or a failover that its preconditions then refuse: the
\* retired side that answers is fenced again (R7).
Reconcile ==
  /\ pc = "idle" /\ cfg.swapped
  /\ Retire(Standby)
  /\ UNCHANGED <<link, dns, cfg, pc>>

-----------------------------------------------------------------------------

\* A journaled failover refuses the deploy.
DeployStart ==
  /\ cfg.journal = None
  /\ Starts("entry")
  /\ \E allow \in BOOLEAN :
       de' = [NoDeploy EXCEPT !.allowDegraded = allow, !.retired = cfg.swapped]
  /\ UNCHANGED <<node, link, dns, cfg>>

\* liftStrandedFenceAtEntry: a failure is only a warning here.
LiftAtEntry ==
  /\ Goto("entry", IF de.retired THEN "refence" ELSE "clusters")
  /\ \/ cfg.marker = None /\ UNCHANGED <<node, cfg, used>>
     \/ /\ cfg.marker = Standby /\ node' = node
        /\ Saved([cfg EXCEPT !.marker = None]) \/ SaveFailed
     \/ /\ cfg.marker = Primary /\ DbAnswers(Primary)
        /\ Set(Primary, Unfenced(node[Primary]))
        /\ Saved([cfg EXCEPT !.marker = None]) \/ SaveFailed
     \/ /\ cfg.marker = Primary
        /\ Failed(DbAnswers(Primary)) /\ UNCHANGED <<node, cfg>>
  /\ UNCHANGED <<link, dns, de>>

Refence ==
  /\ Goto("refence", "clusters")
  /\ Retire(Standby)
  /\ UNCHANGED <<link, dns, cfg, de>>

\* Both clusters converge, each by its role: the primary's app and add-ons up,
\* the standby's at zero, the intent and the live role written and read back,
\* a db StatefulSet an abort left at zero back at one.
Converged(s) ==
  IF s = Primary
  THEN WithRole(ScaledUp(node[s], TRUE, TRUE), "primary", TRUE)
  ELSE LET n == [WithRole(ScaledDown(node[s], TRUE, TRUE), "standby", TRUE)
                   EXCEPT !.db = "run"]
       IN IF node[s].db = "zero" THEN Restarted(n) ELSE n

Reachable == \A s \in Side : Answers(s)

\* They converge in parallel and the DNS records are written meanwhile; a
\* cluster that fails, fails the deploy, whatever the other got to.
ConvergeClusters ==
  /\ pc = "clusters"
  /\ \/ /\ Succeeded(Reachable /\ Running(Primary))
        /\ node' = [s \in Side |-> Converged(s)]
        /\ dns' = Primary
        /\ pc' = "probe" /\ de' = [de EXCEPT !.dnsSet = TRUE]
     \/ /\ Reachable /\ Running(Primary) /\ MayFault /\ Spent
        /\ node' = [s \in Side |-> Converged(s)]
        /\ dns' = dns
        /\ pc' = "probe" /\ de' = de
     \/ /\ Failed(Reachable /\ Running(Primary))
        /\ \E done \in SUBSET {s \in Side : Answers(s)} :
             node' = [s \in Side |-> IF s \in done THEN Converged(s) ELSE node[s]]
        /\ dns' \in {dns, Primary}
        /\ DeployExit("clusters")
  /\ UNCHANGED <<link, cfg>>

-----------------------------------------------------------------------------
(* haK8sConfigureReplication: an error is folded into "not streaming".     *)

NotStreaming(from) == Goto(from, "gate") /\ de' = de

\* The fast path: a standby that streams already is not reseeded.
ProbeStreaming ==
  /\ pc = "probe"
  /\ \/ /\ Succeeded(DbAnswers(Primary) /\ Streaming)
        /\ pc' = "stream"
     \/ /\ Failed(DbAnswers(Primary) /\ Streaming)
        /\ pc' = "guard"
  /\ UNCHANGED <<node, link, dns, cfg, de>>

\* standbyLineageVerdict: a standby that is out of recovery on a newer timeline
\* of the primary's database was promoted outside vibecarbon, unless it is the
\* copy an abort gave up.
NotNewerUnread(target, source) == TRUE
NotNewer(target, source) == target.tl <= source.tl
PromotedOutside ==
  /\ ~node[Standby].rec /\ node[Standby].id = node[Primary].id
  /\ ~NotNewer(node[Standby], node[Primary])
  /\ cfg.discard # GivenUp(Standby)

\* The target's guard, the source's checks and the lineage comparison, before
\* anything is staged; a lineage that cannot be read refuses as well.
GuardReseed ==
  /\ pc = "guard"
  /\ \/ /\ Succeeded(DbAnswers(Primary) /\ DbAnswers(Standby))
        /\ IF node[Primary].intent = "primary" /\ ~PromotedOutside
           THEN pc' = "stage" /\ de' = de
           ELSE NotStreaming("guard")
     \/ /\ Failed(DbAnswers(Primary) /\ DbAnswers(Standby))
        /\ NotStreaming("guard")
  /\ UNCHANGED <<node, link, dns, cfg>>

\* pg_basebackup, then the restart that swaps it in, minutes later: the cold
\* deploy's stop does not look at the standby again.
StageAndSwap ==
  /\ pc = "stage"
  /\ LET reaches == Running(Primary) /\ DbAnswers(Standby)
         swapped == /\ Set(Standby, Reseeded(node[Standby], node[Primary]))
                    /\ link' = TRUE
     IN \/ /\ Succeeded(reaches) /\ swapped
           /\ pc' = "stream" /\ de' = [de EXCEPT !.reseeded = TRUE]
        \/ /\ Failed(reaches)
           /\ UNCHANGED <<node, link>> \/ (reaches /\ swapped)
           /\ NotStreaming("stage")
  /\ UNCHANGED <<dns, cfg>>

\* verifyStreaming of a reseeded standby, then the identifier read on it: not
\* seen streaming is a verdict, an identifier that cannot be read an error.
VerifyStreaming ==
  /\ pc = "stream"
  /\ LET seen == /\ DbAnswers(Standby)
                 /\ de.reseeded => DbAnswers(Primary) /\ Streaming
     IN \/ /\ Succeeded(seen)
           /\ pc' = "forget" /\ de' = [de EXCEPT !.sysid = node[Standby].id]
        \/ /\ Failed(seen)
           /\ pc' = IF de.reseeded THEN "forget" ELSE "gate"
           /\ de' = de
        \/ seen /\ MayFault /\ Spent /\ pc' = "gate" /\ de' = de
  /\ UNCHANGED <<node, link, dns, cfg>>

\* The copy an abort gave up is gone: so is its record.  A save that fails is
\* folded like any other error here.
ForgetDiscarded ==
  /\ Goto("forget", "gate")
  /\ \/ Saved([cfg EXCEPT !.discard = None]) /\ de' = de
     \/ cfg.discard # None /\ SaveFailed /\ de' = [de EXCEPT !.sysid = None]
  /\ UNCHANGED <<node, link, dns>>

\* No green deploy without a replica, unless the operator said so.
GateStreaming ==
  /\ pc = "gate"
  /\ IF de.sysid # None \/ de.allowDegraded
     THEN pc' = "dns" /\ de' = de
     ELSE DeployExit("gate")
  /\ UNCHANGED <<node, link, dns, cfg, used>>

\* The barrier on the early DNS write: its failure fails the deploy here.
AwaitDns ==
  /\ pc = "dns"
  /\ IF de.dnsSet
     THEN pc' = (IF de.retired THEN "unretire" ELSE "writable") /\ de' = de
     ELSE DeployExit("dns")
  /\ UNCHANGED <<node, link, dns, cfg, used>>

-----------------------------------------------------------------------------
(* The end of a deploy that is going to be recorded.                       *)

\* clearRetiredFence: only of a side proven to be a replica now.
ClearRetired ==
  /\ pc = "unretire"
  /\ \/ /\ Succeeded(DbAnswers(Standby) /\ node[Standby].rec)
        /\ Set(Standby, [node[Standby] EXCEPT !.retired = FALSE])
        /\ pc' = "writable" /\ de' = de
     \/ /\ Failed(DbAnswers(Standby) /\ node[Standby].rec)
        /\ node' = node
        /\ pc' = "writable" /\ de' = [de EXCEPT !.kept = TRUE]
     \/ /\ DbAnswers(Standby) /\ node[Standby].rec /\ MayFault /\ Spent
        /\ node' = node \/ Set(Standby, [node[Standby] EXCEPT !.retired = FALSE])
        /\ DeployExit("unretire")
  /\ UNCHANGED <<link, dns, cfg>>

\* assertRolePrimaryWritable: a fence nobody journaled comes off here.
AssertWritable ==
  /\ pc = "writable"
  /\ \/ /\ node[Primary].fence = "off" \/ ~DbAnswers(Primary)
        /\ pc' = "save" /\ UNCHANGED <<node, cfg, used, de>>
     \/ /\ node[Primary].fence # "off" /\ DbAnswers(Primary)
        /\ \/ /\ Saved([cfg EXCEPT !.marker = None])
              /\ Set(Primary, Unfenced(node[Primary]))
              /\ pc' = "save" /\ de' = de
           \/ /\ SaveFailed /\ DeployExit("writable")
              /\ node' = node \/ Set(Primary, Unfenced(node[Primary]))
           \/ /\ SaveFailed /\ node' = node    \* the setting could not be read
              /\ pc' = "save" /\ de' = de
  /\ UNCHANGED <<link, dns>>

\* The final save rebuilds `ha`: it owns the replication verdict, keeps the
\* marker and the abort's record as they are on disk, and stamps deployedAt
\* unless the retired side kept its fence.
FinalSave ==
  /\ DeployExit("save")
  /\ \/ Saved([cfg EXCEPT !.sysid = de.sysid, !.degraded = de.sysid = None,
                          !.swapped = @ /\ de.kept])
     \/ SaveFailed
  /\ UNCHANGED <<node, link, dns>>

DeployStep ==
  \/ LiftAtEntry \/ Refence \/ ConvergeClusters \/ ProbeStreaming \/ GuardReseed
  \/ StageAndSwap \/ VerifyStreaming \/ ForgetDiscarded \/ GateStreaming
  \/ AwaitDns \/ ClearRetired \/ AssertWritable \/ FinalSave
=============================================================================
