---------------------------- MODULE ComposeDeploy ----------------------------
(***************************************************************************)
(* `vibecarbon deploy <env>` on compose-ha (effects/compose-ha.js under    *)
(* orchestrator.js): both stacks up by role, the standby a streaming       *)
(* replica, the record last.  On a pair that failed over it reconverges:   *)
(* the promoted server is never touched and the retired one is rebuilt     *)
(* from it behind its retirement fence.                                    *)
(***************************************************************************)
EXTENDS ComposePair

DeployPc ==
  {"entry", "refence", "promoted", "roles", "stacks", "probe", "forget", "guard", "seed",
   "seedSwap", "seedUp", "forgetSeed", "rebuild", "reseedRetired", "rebuildSwap",
   "rebuildUp", "rebuilt", "verify", "name", "unretire",
   "finalize", "writable", "save"}

-----------------------------------------------------------------------------
(* Before anything is touched.                                             *)

\* A failover in flight refuses the deploy.
DeployStart ==
  /\ cfg.journal = None
  /\ Goto("idle", "entry")
  /\ \E allow \in BOOLEAN :
       run' = [NoRun EXCEPT !.reconverge = Inverted \/ cfg.swapped, !.allow = allow]
  /\ used' = used /\ Kept

AfterLift == IF cfg.swapped THEN "refence" ELSE IF run.reconverge THEN "promoted" ELSE "roles"
LiftAtDeploy == LiftStranded("entry", AfterLift, AfterLift)

Refence ==
  /\ Step("refence", "promoted")
  /\ Retire(Standby)
  /\ UNCHANGED <<link, dns, cfg>>

\* assertComposeHaReconvergeReady: the promoted server is one, and DNS is on
\* it, repointed here unless the standby reads as rebuilt already.
PromotedReads == DbAnswers(Primary) /\ ~node[Primary].rec
RebuiltAnswers == DbAnswers(Standby)
Rebuilt == DbAnswers(Standby) /\ node[Standby].rec /\ Streaming
AssertReady ==
  /\ \/ /\ Failed(PromotedReads) /\ dns' = dns
        /\ Exit("promoted")
     \/ /\ PromotedReads /\ Rebuilt /\ used' = used /\ dns' = dns
        /\ Step("promoted", "roles")
     \/ /\ PromotedReads /\ dns' = Primary
        /\ IF Rebuilt THEN MayFault /\ Spent ELSE used' = used
        /\ Step("promoted", "roles")
     \/ /\ PromotedReads /\ ~Rebuilt /\ MayFault /\ Spent
        /\ dns' \in {dns, Primary}
        /\ Exit("promoted")
  /\ UNCHANGED <<node, link, cfg>>

-----------------------------------------------------------------------------
(* The stacks.                                                             *)

Reachable == \A s \in Side : Answers(s)
Roled(s) == WithRole(s, IF s = Primary THEN "primary" ELSE "standby")

\* ssh to both, the role files (haWriteNodeRoles), then the barrier on the DNS
\* write that began with them (haUpdateDns).
WriteRoles ==
  /\ \/ /\ Succeeded(Reachable)
        /\ node' = [s \in Side |-> Roled(s)] /\ dns' = Primary
        /\ Step("roles", "stacks")
     \/ /\ Failed(Reachable)
        /\ \E done \in SUBSET {s \in Side : Reachable} :
             node' = [s \in Side |-> IF s \in done THEN Roled(s) ELSE node[s]]
        /\ dns' \in {dns, Primary}
        /\ Exit("roles")
  /\ UNCHANGED <<link, cfg>>

\* haStartComposeStack, both in parallel: on a normal pair, `up` on both.
StartStacks ==
  /\ ~run.reconverge
  /\ \/ /\ Succeeded(Reachable)
        /\ node' = [s \in Side |-> StackUp(s)]
        /\ Step("stacks", "probe")
     \/ /\ Failed(Reachable)
        /\ \E done \in SUBSET {s \in Side : Answers(s)} :
             node' = [s \in Side |-> IF s \in done THEN StackUp(s) ELSE node[s]]
        /\ Exit("stacks")
  /\ UNCHANGED <<link, dns, cfg>>

\* reconvergeStandbyStack: a standby that reads as a replica comes up, any
\* other stays down behind the retirement fence, proven on it; and so does a
\* replica that could not be read as one.
ReconvergeStacks ==
  LET reaches == Reachable /\ DbAnswers(Standby)
      Stacks(n) == node' = [s \in Side |-> IF s = Primary THEN StackUp(s) ELSE n]
  IN /\ run.reconverge
     /\ \/ /\ Succeeded(reaches)
           /\ Stacks(IF node[Standby].rec THEN StackUp(Standby) ELSE Retired(Standby))
           /\ Goto("stacks", "rebuild")
           /\ run' = [run EXCEPT !.stackUp = node[Standby].rec]
        \/ /\ reaches /\ node[Standby].rec /\ MayFault /\ Spent
           /\ Stacks(Retired(Standby))
           /\ Step("stacks", "rebuild")
        \/ /\ Failed(reaches)
           /\ \E n \in IF DbAnswers(Standby) /\ node[Standby].rec
                      THEN {node[Standby], StackUp(Standby)} ELSE PartsRetired(Standby) :
                \/ Answers(Primary) /\ Stacks(n)
                \/ Set(Standby, n)
           /\ Exit("stacks")
     /\ UNCHANGED <<link, dns, cfg>>

-----------------------------------------------------------------------------
(* haConfigureReplication on a normal pair.                                *)

\* configurePrimaryReplication, then the fast path of a standby that streams:
\* an abort's record of a copy means nothing any more.
ProbeStreaming ==
  /\ \/ /\ Succeeded(DbAnswers(Primary))
        /\ Step("probe", IF ~Streaming THEN "guard"
                         ELSE IF cfg.discard = None THEN "verify" ELSE "forget")
     \/ /\ DbAnswers(Primary) /\ Streaming /\ MayFault /\ Spent
        /\ Step("probe", "guard")
     \/ /\ Failed(DbAnswers(Primary))
        /\ Exit("probe")
  /\ Kept

ForgetDiscarded(from) ==
  /\ \/ Saved([cfg EXCEPT !.discard = None]) /\ Step(from, "verify")
     \/ SaveFailed /\ Exit(from)
  /\ UNCHANGED <<node, link, dns>>

\* assertComposeStandbyNotPromotedOutside: a standby out of recovery on a newer
\* timeline is never overwritten, unless it is the copy an abort gave up; one
\* whose lineage cannot be read is not overwritten either.
NotNewerUnread(target, source) == TRUE
NotNewer(target, source) == target.tl <= source.tl
Overwritable ==
  \/ node[Standby].rec
  \/ NotNewer(node[Standby], node[Primary])
  \/ cfg.discard = CopyOf(Standby)
GuardReseed ==
  /\ \/ /\ Succeeded(DbAnswers(Primary) /\ DbAnswers(Standby))
        /\ IF Overwritable THEN Step("guard", "seed") ELSE Exit("guard")
     \/ /\ Failed(DbAnswers(Primary) /\ DbAnswers(Standby))
        /\ Exit("guard")
  /\ Kept

\* A reseed that fails is a warning: streaming is verified next.
SeedStandby ==
  /\ \/ StopForReseed /\ Step("seed", "seedSwap")
     \/ StopFails /\ Step("seed", "verify")
  /\ UNCHANGED <<dns, cfg>>
SwapSeed ==
  /\ \/ SwapDirs /\ Step("seedSwap", "seedUp")
     \/ SwapFails /\ Step("seedSwap", "verify")
  /\ UNCHANGED <<dns, cfg>>
StartSeeded ==
  /\ \/ StartReseeded /\ Step("seedUp", IF cfg.discard = None THEN "verify" ELSE "forgetSeed")
     \/ StartFails /\ Step("seedUp", "verify")
  /\ UNCHANGED <<dns, cfg>>

-----------------------------------------------------------------------------
(* reconvergeReplication, on a pair that failed over.                      *)

\* Reads of both, and the promoted server's side of the replication.
PlanRebuild ==
  /\ \/ /\ Succeeded(PromotedReads)
        /\ Step("rebuild", IF Rebuilt THEN "verify" ELSE "reseedRetired")
     \/ /\ PromotedReads /\ Rebuilt /\ MayFault /\ Spent
        /\ Step("rebuild", "reseedRetired")
     \/ /\ Failed(PromotedReads)
        /\ Exit("rebuild")
  /\ Kept

ReseedRetired ==
  /\ \/ StopForReseed /\ Step("reseedRetired", "rebuildSwap")
     \/ StopFails /\ Step("reseedRetired", "verify")
  /\ UNCHANGED <<dns, cfg>>
SwapRetired ==
  /\ \/ SwapDirs /\ Step("rebuildSwap", "rebuildUp")
     \/ SwapFails /\ Step("rebuildSwap", "verify")
  /\ UNCHANGED <<dns, cfg>>
StartReplaced ==
  /\ \/ StartReseeded /\ Step("rebuildUp", IF run.stackUp THEN "verify" ELSE "rebuilt")
     \/ StartFails /\ Step("rebuildUp", "verify")
  /\ UNCHANGED <<dns, cfg>>

\* reconcileRebuiltStandby: its stack, once it reads as a replica.
StartRebuilt ==
  /\ Goto("rebuilt", "verify")
  /\ \/ /\ Succeeded(DbAnswers(Standby) /\ node[Standby].rec)
        /\ Set(Standby, StackUp(Standby))
        /\ run' = [run EXCEPT !.stackUp = TRUE]
     \/ /\ Failed(DbAnswers(Standby) /\ node[Standby].rec)
        /\ node' = node \/ (DbAnswers(Standby) /\ Set(Standby, StackUp(Standby)))
        /\ run' = run
  /\ UNCHANGED <<link, dns, cfg>>

-----------------------------------------------------------------------------
(* The verdict and the record.                                             *)

\* No deploy without a replica, unless the operator said so.
VerifyStreaming ==
  /\ LET seen == DbAnswers(Primary) /\ Streaming
     IN \/ /\ Succeeded(seen)
           /\ Goto("verify", "name") /\ run' = [run EXCEPT !.streams = TRUE]
        \/ /\ Failed(seen)
           /\ IF run.allow THEN Step("verify", "finalize") ELSE Exit("verify")
  /\ Kept

\* The identifier, read on the standby while it is in recovery.
ReadIdentifier ==
  /\ LET named == DbAnswers(Standby) /\ node[Standby].rec
     IN \/ /\ Succeeded(named)
           /\ Goto("name", IF run.reconverge /\ run.stackUp THEN "unretire" ELSE "finalize")
           /\ run' = [run EXCEPT !.named = TRUE, !.complete = ~run.reconverge]
        \/ Failed(named) /\ Step("name", "finalize")
  /\ Kept

\* clearRetiredFence: only of a proven replica, else the pair stays swapped.
ClearRetired ==
  /\ Goto("unretire", "finalize")
  /\ LET replica == DbAnswers(Standby) /\ node[Standby].rec
         cleared == [node[Standby] EXCEPT !.retired = FALSE]
     IN \/ /\ Succeeded(replica) /\ Set(Standby, cleared)
           /\ run' = [run EXCEPT !.complete = TRUE]
        \/ /\ Failed(replica)
           /\ node' = node \/ (replica /\ Set(Standby, cleared))
           /\ run' = run
  /\ UNCHANGED <<link, dns, cfg>>

\* A normal deploy that does not stream owns that verdict; a reconverge that is
\* not complete keeps the pair swapped and degraded.
DegradesReconverged == run.reconverge /\ ~run.complete
Degrades == ~run.streams \/ (run.reconverge /\ ~run.complete)
Done == ~run.reconverge \/ run.complete
FinalizeConfig ==
  /\ \/ /\ Saved([cfg EXCEPT !.degraded = Degrades, !.swapped = @ /\ ~Done,
                             !.known = @ \/ run.complete])
        /\ Step("finalize", "writable")
     \/ SaveFailed /\ Exit("finalize")
  /\ UNCHANGED <<node, link, dns>>

\* assertRolePrimaryWritable: a fence nobody journaled comes off here.
AssertWritable ==
  /\ \/ /\ ~node[Primary].fence \/ ~DbAnswers(Primary)
        /\ UNCHANGED <<node, cfg, used>> /\ Step("writable", "save")
     \/ /\ node[Primary].fence /\ DbAnswers(Primary)
        /\ \/ /\ Saved([cfg EXCEPT !.marker = None])
              /\ Set(Primary, Unfenced(Primary))
              /\ Step("writable", "save")
           \/ /\ SaveFailed /\ Exit("writable")
              /\ node' = node \/ Set(Primary, Unfenced(Primary))
           \/ /\ SaveFailed /\ node' = node    \* the setting could not be read
              /\ Step("writable", "save")
  /\ UNCHANGED <<link, dns>>

\* The outer save rebuilds `ha`: the identifier of this deploy, or none.
FinalSave ==
  /\ Exit("save")
  /\ Save([cfg EXCEPT !.degraded = Degrades, !.swapped = @ /\ ~Done,
                      !.known = run.named /\ ~Degrades])
  /\ UNCHANGED <<node, link, dns>>

DeployStep ==
  \/ LiftAtDeploy \/ Refence \/ AssertReady \/ WriteRoles
  \/ StartStacks \/ ReconvergeStacks
  \/ ProbeStreaming \/ ForgetDiscarded("forget") \/ GuardReseed
  \/ SeedStandby \/ SwapSeed \/ StartSeeded \/ ForgetDiscarded("forgetSeed")
  \/ PlanRebuild \/ ReseedRetired \/ SwapRetired \/ StartReplaced \/ StartRebuilt
  \/ VerifyStreaming \/ ReadIdentifier \/ ClearRetired
  \/ FinalizeConfig \/ AssertWritable \/ FinalSave
=============================================================================
