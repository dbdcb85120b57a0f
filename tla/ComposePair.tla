----------------------------- MODULE ComposePair -----------------------------
(***************************************************************************)
(* A compose-ha environment: two servers that run the whole Compose stack, *)
(* the record `environments.<env>` of .vibecarbon.json, and the ssh calls  *)
(* that change a server.  Unlike a cluster of HaPair, the standby runs its *)
(* app tier (on a read-only database), a docker stop is over when it       *)
(* returns, the wal-g role is one file on the host, and a host that boots  *)
(* starts every container.  ComposeFailover and ComposeDeploy are the      *)
(* commands, ComposeSystem composes them.                                  *)
(***************************************************************************)
EXTENDS Naturals

CONSTANTS
  Side,        \* the two servers
  Write,       \* transactions the app commits
  None,        \* "not set" in the config
  MaxRuns,     \* bound: failovers the operator starts with none in flight
  MaxFaults,   \* bound: remote calls and saves that fail, servers that go away
  MaxCrashes,  \* bound: commands that die half way
  Outages      \* may a server die, or the operator lose it?

ASSUME ServersAssumption == \E s, t \in Side : s # t /\ Side = {s, t}
ASSUME LimitAssumption == {MaxRuns, MaxFaults, MaxCrashes} \subseteq Nat
ASSUME OutageAssumption == Outages \in BOOLEAN

VARIABLES
  node,   \* node[s]: the server of side s, see Node
  link,   \* the standby's walreceiver streams from the primary
  dns,    \* the side the site's A records point at
  cfg,    \* the environment's record, see Config
  pc,     \* the step the running command is at, "idle" when none runs
  run,    \* the locals of the running command, see Run
  used    \* what is spent of the bounds, and the model's memory

Other(s) == CHOOSE t \in Side : t # s
Role == {"primary", "standby"}
Timeline == Nat \ {0}

Node ==
  [net: {"up", "cut", "dead"},   \* "cut": alive, the operator cannot reach it
   db: BOOLEAN,                  \* the db container runs
   rec: BOOLEAN,                 \* pg_is_in_recovery()
   fence: BOOLEAN,               \* default_transaction_read_only
   retired: BOOLEAN,             \* both markers and the read-only setting
   app: BOOLEAN,                 \* the writer containers run
   role: Role,                   \* the wal-g role file
   pending: BOOLEAN,             \* a promote was sent and has not landed
   tl: Timeline,                 \* pg_control's timeline
   data: SUBSET Write]           \* the transactions its database holds

\* How the standby came to hold what the journaled promote puts in service.
Proof == {"none", "behind", "caughtUp", "reseeded"}
Journal == [lsn: BOOLEAN, named: BOOLEAN, proof: Proof]
Copy == [side: Side, tl: Timeline]
ASSUME NoneAssumption == None \notin Side \cup Journal \cup Copy

Config ==
  [primary: Side,                  \* servers[] with role primary, and the other
   birth: Side,                    \* the server of the `-primary` stack
   journal: Journal \cup {None},   \* ha.failoverInFlight
   marker: Side \cup {None},       \* ha.writeFence
   known: BOOLEAN,                 \* ha.systemIdentifier is recorded
   degraded: BOOLEAN,              \* replication = degraded
   swapped: BOOLEAN,               \* lastFailover after deployedAt
   discard: Copy \cup {None}]      \* ha.discardableStandby

Primary == cfg.primary
Standby == Other(cfg.primary)
\* detectComposeHaRoleSwap: the roles contradict the stacks.
Inverted == cfg.primary # cfg.birth

Running(s) == node[s].net # "dead" /\ node[s].db
Answers(s) == node[s].net = "up"
DbAnswers(s) == Answers(s) /\ Running(s)
TakesWrites(s) == Running(s) /\ ~node[s].rec /\ ~node[s].fence /\ ~node[s].retired
Writes(s) == TakesWrites(s) /\ node[s].app
Streaming == link /\ Running(Standby)

-----------------------------------------------------------------------------
(* Remote calls: one that reaches its server succeeds, or a fault is spent *)
(* and it fails; one that does not reach it fails for free.                *)

Spent == used' = [used EXCEPT !.faults = @ + 1]
MayFault == used.faults < MaxFaults
Failed(reaches) == IF reaches THEN MayFault /\ Spent ELSE used' = used
Succeeded(reaches) == reaches /\ used' = used

Set(s, n) == node' = [node EXCEPT ![s] = n]
Kept == UNCHANGED <<node, link, dns, cfg>>

\* A call that rewrites a server: done, or failed, its effect there or not.
Call(reaches, s, n) ==
  \/ Succeeded(reaches) /\ Set(s, n)
  \/ /\ Failed(reaches)
     /\ node' = node \/ (reaches /\ Set(s, n))

\* A save under the config lock, or an error.
Saved(c) == cfg' = c /\ used' = used
SaveFailed == cfg' = cfg /\ MayFault /\ Spent
Save(c) == Saved(c) \/ SaveFailed

WithRole(s, r) == [node[s] EXCEPT !.role = r]
WithApp(s, up) == [node[s] EXCEPT !.app = up]
Fenced(s) == [node[s] EXCEPT !.fence = TRUE]
Unfenced(s) == [node[s] EXCEPT !.fence = FALSE]
\* docker stop of the db container; a promote request is forgotten.
DbStopped(s) == [node[s] EXCEPT !.db = FALSE, !.pending = FALSE]
\* startComposeStack: every service of the stack.
StackUp(s) == [node[s] EXCEPT !.db = TRUE, !.app = TRUE]
\* What names the copy a side holds.
CopyOf(s) == [side |-> s, tl |-> node[s].tl]

\* `start db` of a stopped container, sent once and its answer not read.
MaybeStarted(n) == {n, [n EXCEPT !.db = TRUE]}
\* The staged copy of the primary is the database's directory.  It is stripped of
\* the fence; a retirement also has a marker on the host, so it stays.
Reseeded(s) ==
  [node[s] EXCEPT !.rec = TRUE, !.fence = FALSE,
                  !.tl = node[Other(s)].tl, !.data = node[Other(s)].data]

\* fenceRetiredNode: markers and read-only setting in the database, the
\* writers stopped, the standby role.  The database part needs its container:
\* a part that cannot be read is never applied and never counts as done.
Retired(s) == [node[s] EXCEPT !.retired = TRUE, !.app = FALSE, !.role = "standby"]
PartsRetired(s) ==
  {[node[s] EXCEPT !.retired = @ \/ db, !.app = @ /\ ~app,
                   !.role = IF role THEN "standby" ELSE @] :
     db \in {DbAnswers(s), FALSE}, app, role \in {Answers(s), FALSE}}
Retire(s) ==
  \/ Succeeded(DbAnswers(s)) /\ Set(s, Retired(s))
  \/ Failed(DbAnswers(s)) /\ \E n \in PartsRetired(s) : Set(s, n)

(* configureStandbyReplication, in the three calls that change the standby: *)
(* a basebackup staged beside the running database and `stop db`, the swap  *)
(* of the directories, `start db` and the wait for a replica.  What fails   *)
(* before the start sends the start all the same; what dies sends nothing.  *)

CanReseed == DbAnswers(Primary) /\ DbAnswers(Standby)
StopForReseed ==
  Succeeded(CanReseed) /\ Set(Standby, DbStopped(Standby)) /\ link' = FALSE
StopFails ==
  /\ Failed(CanReseed)
  /\ \/ UNCHANGED <<node, link>>
     \/ /\ CanReseed /\ link' = FALSE
        /\ \E n \in MaybeStarted(DbStopped(Standby)) : Set(Standby, n)

\* A host that booted since has the database up: nothing is swapped under it.
CanSwap == Answers(Standby) /\ ~node[Standby].db
SwapDirs == Succeeded(CanSwap) /\ Set(Standby, Reseeded(Standby)) /\ UNCHANGED link
SwapFails ==
  /\ Failed(CanSwap)
  /\ \E n \in {node[Standby]} \cup
            (IF CanSwap THEN MaybeStarted(node[Standby]) \cup MaybeStarted(Reseeded(Standby))
                        ELSE {}) : Set(Standby, n)
  /\ UNCHANGED link

DbStarted(s) == [node[s] EXCEPT !.db = TRUE]
ReadsReplica == Answers(Standby) /\ node[Standby].rec
StartReseeded ==
  Succeeded(ReadsReplica) /\ Set(Standby, DbStarted(Standby)) /\ link' = Running(Primary)
StartFails ==
  /\ Failed(ReadsReplica)
  /\ \E n \in IF Answers(Standby) THEN MaybeStarted(node[Standby]) ELSE {node[Standby]} :
       Set(Standby, n)
  /\ UNCHANGED link

-----------------------------------------------------------------------------
(* What the servers, the network and the app do by themselves.             *)

Commit(s, w) ==
  /\ Writes(s)
  /\ w \notin node[s].data \cup node[Other(s)].data
  /\ Set(s, [node[s] EXCEPT !.data = @ \cup {w}])
  /\ UNCHANGED <<link, dns, cfg, pc, run, used>>

Replicate(s) ==
  /\ link /\ node[s].rec /\ Running(s) /\ Running(Other(s))
  /\ node[s].data # node[Other(s)].data
  /\ Set(s, [node[s] EXCEPT !.data = node[Other(s)].data, !.tl = node[Other(s)].tl])
  /\ UNCHANGED <<link, dns, cfg, pc, run, used>>

LinkUp(s) ==
  /\ ~link /\ node[s].rec /\ ~node[s].pending
  /\ Running(s) /\ Running(Other(s)) /\ ~node[Other(s)].rec
  /\ node[s].tl <= node[Other(s)].tl
  /\ node[s].data \subseteq node[Other(s)].data
  /\ link' = TRUE
  /\ UNCHANGED <<node, dns, cfg, pc, run, used>>

LinkDown ==
  /\ link /\ MayFault /\ Spent
  /\ link' = FALSE
  /\ UNCHANGED <<node, dns, cfg, pc, run>>

PromoteLands(s) ==
  /\ node[s].pending /\ Running(s)
  /\ Set(s, [node[s] EXCEPT !.pending = FALSE, !.rec = FALSE, !.tl = @ + 1])
  /\ link' = FALSE
  /\ UNCHANGED <<dns, cfg, pc, run, used>>

Die(s) ==
  /\ Outages /\ node[s].net # "dead" /\ MayFault
  /\ used' = [used EXCEPT !.faults = @ + 1, !.lost = TRUE]
  /\ Set(s, [node[s] EXCEPT !.net = "dead"])
  /\ link' = FALSE
  /\ UNCHANGED <<dns, cfg, pc, run>>
Cut(s) ==
  /\ Outages /\ node[s].net = "up" /\ MayFault
  /\ used' = [used EXCEPT !.faults = @ + 1, !.lost = TRUE]
  /\ Set(s, [node[s] EXCEPT !.net = "cut"])
  /\ UNCHANGED <<link, dns, cfg, pc, run>>
\* Reachable again; a host that boots runs the bundle's `compose up` unit, which
\* starts what a command had stopped.
Return(s) ==
  /\ node[s].net # "up"
  /\ Set(s, IF node[s].net = "dead"
            THEN [StackUp(s) EXCEPT !.net = "up", !.pending = FALSE]
            ELSE [node[s] EXCEPT !.net = "up"])
  /\ UNCHANGED <<link, dns, cfg, pc, run, used>>

World ==
  \/ \E s \in Side, w \in Write : Commit(s, w)
  \/ \E s \in Side : \/ Replicate(s) \/ LinkUp(s) \/ PromoteLands(s)
                     \/ Die(s) \/ Cut(s) \/ Return(s)
  \/ LinkDown

-----------------------------------------------------------------------------
(* Commands: their locals, starting, stepping, ending.                     *)

Run ==
  [planned: BOOLEAN,              \* failover: the primary answered
   journaled: BOOLEAN,            \* an earlier run left a journal
   resume: BOOLEAN,               \* the standby is promoted already
   stopped: BOOLEAN,              \* stoppedWriters names containers
   tried: BOOLEAN,                \* dbFenceAttempted
   fenced: BOOLEAN,
   journal: Journal,              \* what this run's journal would say
   unsent: BOOLEAN,               \* the promote was never sent: undo it all
   reading: Copy \cup {None},     \* abort: the promoted copy it gives up
   lifted: BOOLEAN,               \* abort: fenceLifted
   reconverge: BOOLEAN,           \* deploy: planComposeHaReconverge
   allow: BOOLEAN,                \* deploy: -allow-degraded
   stackUp: BOOLEAN,              \* deploy: standbyReconciled
   streams: BOOLEAN,              \* deploy: streaming verified
   named: BOOLEAN,                \* deploy: the standby's identifier was read
   complete: BOOLEAN]             \* deploy: reconvergeComplete

NoRun ==
  [planned |-> FALSE, journaled |-> FALSE, resume |-> FALSE, stopped |-> FALSE,
   tried |-> FALSE, fenced |-> FALSE,
   journal |-> [lsn |-> FALSE, named |-> FALSE, proof |-> "none"],
   unsent |-> FALSE, reading |-> None, lifted |-> FALSE, reconverge |-> FALSE,
   allow |-> FALSE, stackUp |-> FALSE, streams |-> FALSE, named |-> FALSE,
   complete |-> FALSE]

Goto(from, to) == pc = from /\ pc' = to
Step(from, to) == Goto(from, to) /\ run' = run
Exit(from) == Goto(from, "idle") /\ run' = NoRun
Begin(first) == Goto("idle", first) /\ run' = NoRun

\* liftStrandedWriteFence, at the start of a planned failover and of a deploy:
\* the marker of a run that died goes once the fence is proven off, unless a
\* journal owns it; a marker on the other side is stale.
LiftStranded(from, to, refused) ==
  /\ \/ /\ cfg.marker = None \/ cfg.journal # None
        /\ UNCHANGED <<node, cfg, used>> /\ Goto(from, to)
     \/ /\ cfg.marker # None /\ cfg.journal = None
        /\ cfg.marker = Primary => DbAnswers(Primary)
        /\ node' = IF cfg.marker = Primary
                   THEN [node EXCEPT ![Primary] = Unfenced(Primary)] ELSE node
        /\ \/ Saved([cfg EXCEPT !.marker = None]) /\ Goto(from, to)
           \/ SaveFailed /\ Goto(from, refused)
     \/ /\ cfg.marker = Primary /\ cfg.journal = None /\ cfg' = cfg
        /\ Failed(DbAnswers(Primary)) /\ Goto(from, refused)
        /\ node' = node \/ (DbAnswers(Primary) /\ Set(Primary, Unfenced(Primary)))
  /\ run' = IF pc' = "idle" THEN NoRun ELSE run
  /\ UNCHANGED <<link, dns>>

Deployed(p) ==
  [net |-> "up", db |-> TRUE, rec |-> FALSE, fence |-> FALSE, retired |-> FALSE,
   app |-> TRUE, role |-> "primary", pending |-> FALSE, tl |-> 1, data |-> {}]

\* A deployed, streaming pair, its roles those of its stacks or, once failed
\* over and reconverged, the others'.  An instance may begin with faults spent.
InitPair(births, spent) ==
  \E p \in Side, b \in births :
    /\ node = [s \in Side |-> IF s = p THEN Deployed(p)
                              ELSE [Deployed(p) EXCEPT !.rec = TRUE, !.role = "standby"]]
    /\ link = TRUE /\ dns = p
    /\ cfg = [primary |-> p, birth |-> IF b = "born" THEN p ELSE Other(p),
              journal |-> None, marker |-> None, known |-> TRUE,
              degraded |-> FALSE, swapped |-> FALSE, discard |-> None]
    /\ pc = "idle" /\ run = NoRun
    /\ used = [runs |-> 0, faults |-> spent, crashes |-> 0, lost |-> FALSE]
=============================================================================
