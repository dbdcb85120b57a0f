------------------------------- MODULE HaPair -------------------------------
(***************************************************************************)
(* The state every command of a k8s-ha environment works on: two clusters, *)
(* the record `environments.<env>` of .vibecarbon.json, and the remote     *)
(* calls that change a cluster.  The commands themselves (failover, its    *)
(* -abort, deploy) are HaFailover, HaAbort and HaDeploy; HaSystem composes *)
(* them.  One command runs at a time, on the operator's machine, and may   *)
(* die between any two of its steps; the clusters go on by themselves.     *)
(***************************************************************************)
EXTENDS Naturals

CONSTANTS
  Side,        \* the two clusters
  Id,          \* PostgreSQL system identifiers
  Write,       \* transactions the app commits
  None,        \* "not set" in the config, "not read" in a command
  MaxRuns,     \* bound: commands the operator starts with no failover in flight
  MaxFaults,   \* bound: remote calls that fail, clusters that go away
  MaxCrashes,  \* bound: commands that die half way
  Outages      \* may a cluster die, or the operator lose it?

ASSUME SideAssumption == \E s, t \in Side : s # t /\ Side = {s, t}
ASSUME IdAssumption == Id # {}
ASSUME BoundAssumption == {MaxRuns, MaxFaults, MaxCrashes} \subseteq Nat
ASSUME OutagesAssumption == Outages \in BOOLEAN

VARIABLES
  node,   \* node[s]: the cluster of side s, see Node
  link,   \* the standby's walreceiver streams from the primary
  dns,    \* the side the site's A records point at
  cfg,    \* the environment's record in .vibecarbon.json, see Config
  pc,     \* the step the running command is at, "idle" when none runs
  used    \* what is spent of MaxRuns, MaxFaults and MaxCrashes; behind: a
          \* failover went on to promote a standby that lacked transactions,
          \* its copy skipped

Other(s) == CHOOSE t \in Side : t # s

Role == {"primary", "standby"}
Timeline == Nat \ {0}

Node ==
  [net: {"up", "cut", "dead"},     \* "cut": alive, the operator cannot reach it
   db: {"run", "zero"},            \* the db StatefulSet's replicas, 1 or 0
   rec: BOOLEAN,                   \* pg_is_in_recovery()
   fence: {"off", "set", "on"},    \* default_transaction_read_only; "set":
                                   \*   older sessions may still commit
   retired: BOOLEAN,               \* the retirement markers, read-only included
   app: {"up", "draining", "zero"},
   addon: BOOLEAN,                 \* n8n, metabase: the primary-only add-ons
   intent: Role,                   \* the role ConfigMap, applied at a db start
   role: Role,                     \* the live wal-g role file
   pending: BOOLEAN,               \* a promote was sent and has not landed
   id: Id, tl: Timeline,           \* pg_control: system identifier, timeline
   data: SUBSET Write]             \* the transactions its database holds

\* How the standby came to hold what the journaled promote puts in service;
\* "level": it was not copied, and lacked nothing.
Proof == {"none", "behind", "caughtUp", "reseeded", "level", "skipped"}
Journal == [lsn: BOOLEAN, id: Id \cup {None}, proof: Proof]
Discardable == [side: Side, id: Id, tl: Timeline]

ASSUME NoneAssumption ==
  None \notin Side /\ None \notin Id /\ None \notin Journal /\ None \notin Discardable

Config ==
  [primary: Side,                              \* ha.primary, ha.standby
   journal: Journal \cup {None},               \* ha.failoverInFlight
   marker: Side \cup {None},                   \* ha.writeFence
   sysid: Id \cup {None},                      \* ha.systemIdentifier
   degraded: BOOLEAN,                          \* replication = degraded
   swapped: BOOLEAN,                           \* lastFailover after deployedAt
   discard: Discardable \cup {None}]           \* ha.discardableStandby

Primary == cfg.primary
Standby == Other(cfg.primary)

Running(s) == node[s].net # "dead" /\ node[s].db = "run"
\* What the operator's machine can talk to: the cluster, and its database.
Answers(s) == node[s].net = "up"
DbAnswers(s) == Answers(s) /\ Running(s)
\* A session of s can commit, and something on s opens sessions.
TakesWrites(s) ==
  Running(s) /\ ~node[s].rec /\ node[s].fence # "on" /\ ~node[s].retired
Serving(s) == node[s].app # "zero" \/ node[s].addon
Writes(s) == TakesWrites(s) /\ Serving(s)

Streaming == link /\ Running(Standby)

-----------------------------------------------------------------------------
(* Remote calls: one that reaches its cluster succeeds, or a fault is       *)
(* spent and it fails; one that does not reach it fails for free.           *)

Spent == used' = [used EXCEPT !.faults = @ + 1]
MayFault == used.faults < MaxFaults
Failed(reaches) == IF reaches THEN MayFault /\ Spent ELSE used' = used
Succeeded(reaches) == reaches /\ used' = used

Set(s, n) == node' = [node EXCEPT ![s] = n]

\* updateProjectConfig: the whole record under a lock, or an error.
Saved(c) == cfg' = c /\ used' = used
SaveFailed == cfg' = cfg /\ MayFault /\ Spent

\* The states a db start leaves behind: the role entry applies the intent,
\* a setting reaches every session, a promote request is forgotten.
Restarted(n) ==
  [n EXCEPT !.role = n.intent, !.pending = FALSE,
            !.fence = IF @ = "set" THEN "on" ELSE @]

\* scaleDeployments never throws: it does what it can of the app tier (tier)
\* and of the primary-only add-ons.
ScaledDown(n, tier, addons) ==
  [n EXCEPT !.app = IF tier /\ @ = "up" THEN "draining" ELSE @,
            !.addon = IF addons THEN FALSE ELSE @]
ScaledUp(n, tier, addons) ==
  [n EXCEPT !.app = IF tier THEN "up" ELSE @,
            !.addon = IF addons THEN TRUE ELSE @]

\* A scale of both parts on s: all of it, or, for a fault, only some.
Scale(s, Scaled(_, _, _)) ==
  \/ Succeeded(Answers(s)) /\ Set(s, Scaled(node[s], TRUE, TRUE))
  \/ /\ Failed(Answers(s))
     /\ \E tier, addons \in BOOLEAN :
          /\ (tier \/ addons) => Answers(s)
          /\ Set(s, Scaled(node[s], tier, addons))

\* setK8sWalgRole: the intent, then the live file where the db answers.
WithRole(n, r, live) == [n EXCEPT !.intent = r, !.role = IF live THEN r ELSE @]

\* unfenceDatabaseWrites: TRUE only when the setting reads back off.
Unfenced(n) == [n EXCEPT !.fence = "off"]

\* A database StatefulSet at zero, its pod read gone; or only asked to stop.
StoppedUnproven(n) == [n EXCEPT !.db = "zero"]
Stopped(n) == [n EXCEPT !.db = "zero", !.pending = FALSE]

\* What names the copy a side holds.
GivenUp(s) == [side |-> s, id |-> node[s].id, tl |-> node[s].tl]

\* A basebackup of `from` swapped in as a replica; the db restarted on it and
\* the staged tree's fence was stripped.
ReseededWithFence(n, from) ==
  [Restarted(n) EXCEPT !.rec = TRUE, !.fence = from.fence,
                       !.id = from.id, !.tl = from.tl, !.data = from.data]
ReseededOneOff(n, from) ==
  [Restarted(n) EXCEPT !.rec = TRUE, !.fence = "off",
                       !.id = from.id, !.tl = from.tl - 1, !.data = from.data]
Reseeded(n, from) ==
  [Restarted(n) EXCEPT !.rec = TRUE, !.fence = "off",
                       !.id = from.id, !.tl = from.tl, !.data = from.data]

\* fenceRetiredNode on a side that answers: the markers and the read-only
\* setting, the app tier and add-ons at zero, the standby role.  Each may fail
\* alone, and nothing is written on a side that does not answer.
Retire(s) ==
  \/ /\ Succeeded(DbAnswers(s))
     /\ Set(s, [ScaledDown(WithRole(node[s], "standby", TRUE), TRUE, TRUE)
                  EXCEPT !.retired = TRUE])
  \/ /\ Failed(DbAnswers(s))
     /\ \E markers, workloads, role \in BOOLEAN :
          /\ markers => DbAnswers(s)
          /\ workloads \/ role => Answers(s)
          /\ LET zeroed == ScaledDown(node[s], workloads, workloads)
                 marked == [zeroed EXCEPT !.retired = IF markers THEN TRUE ELSE @]
             IN Set(s, IF role THEN WithRole(marked, "standby", Running(s)) ELSE marked)

-----------------------------------------------------------------------------
(* What the clusters, the network and the app do by themselves.            *)

\* The app, a worker or an add-on of s commits a transaction.
Commit(s, w) ==
  /\ Writes(s)
  /\ w \notin node[s].data \cup node[Other(s)].data
  /\ Set(s, [node[s] EXCEPT !.data = @ \cup {w}])
  /\ UNCHANGED <<link, dns, cfg, pc, used>>

\* The walreceiver applies what the primary has.
Replicate(s) ==
  /\ link /\ node[s].rec /\ Running(s) /\ Running(Other(s))
  /\ node[s].data # node[Other(s)].data
  /\ Set(s, [node[s] EXCEPT !.data = node[Other(s)].data, !.tl = node[Other(s)].tl])
  /\ UNCHANGED <<link, dns, cfg, pc, used>>

\* PostgreSQL streams only inside one database whose history the standby has.
LinkUp(s) ==
  /\ ~link /\ node[s].rec /\ ~node[s].pending
  /\ Running(s) /\ Running(Other(s)) /\ ~node[Other(s)].rec
  /\ node[s].id = node[Other(s)].id
  /\ node[s].tl <= node[Other(s)].tl
  /\ node[s].data \subseteq node[Other(s)].data
  /\ link' = TRUE
  /\ UNCHANGED <<node, dns, cfg, pc, used>>

LinkDown ==
  /\ link /\ MayFault /\ Spent
  /\ link' = FALSE
  /\ UNCHANGED <<node, dns, cfg, pc>>

\* The last pod of a scaled-down tier terminates.
Drain(s) ==
  /\ node[s].app = "draining" /\ node[s].net # "dead"
  /\ Set(s, [node[s] EXCEPT !.app = "zero"])
  /\ UNCHANGED <<link, dns, cfg, pc, used>>

\* postgres finishes a promote it accepted, however long ago that was.
PromoteLands(s) ==
  /\ node[s].pending /\ Running(s)
  /\ Set(s, [node[s] EXCEPT !.pending = FALSE, !.rec = FALSE, !.tl = @ + 1])
  /\ link' = FALSE
  /\ UNCHANGED <<dns, cfg, pc, used>>

\* A cluster dies, or the operator's machine loses it.
Die(s) ==
  /\ Outages /\ node[s].net # "dead" /\ MayFault /\ Spent
  /\ Set(s, [node[s] EXCEPT !.net = "dead"])
  /\ link' = FALSE
  /\ UNCHANGED <<dns, cfg, pc>>
Cut(s) ==
  /\ Outages /\ node[s].net = "up" /\ MayFault /\ Spent
  /\ Set(s, [node[s] EXCEPT !.net = "cut"])
  /\ UNCHANGED <<link, dns, cfg, pc>>
\* It boots, its db applying the role intent, or is reachable again.
Return(s) ==
  /\ node[s].net # "up"
  /\ Set(s, [(IF node[s].net = "dead" THEN Restarted(node[s]) ELSE node[s])
               EXCEPT !.net = "up"])
  /\ UNCHANGED <<link, dns, cfg, pc, used>>

World ==
  \/ \E s \in Side, w \in Write : Commit(s, w)
  \/ \E s \in Side : \/ Replicate(s) \/ LinkUp(s) \/ Drain(s) \/ PromoteLands(s)
                     \/ Die(s) \/ Cut(s) \/ Return(s)
  \/ LinkDown

-----------------------------------------------------------------------------
(* Commands: starting, stepping, ending.                                   *)

Goto(from, to) == pc = from /\ pc' = to

\* What picks up a journaled failover, a rerun or an abort, is not counted.
Starts(first) ==
  /\ Goto("idle", first)
  /\ IF cfg.journal # None THEN used' = used
     ELSE used.runs < MaxRuns /\ used' = [used EXCEPT !.runs = @ + 1]

\* A healthy deployed pair, or the pair a deploy left degraded: the standby
\* never seeded, its own database under its own identifier.  A pair recorded
\* before ha.systemIdentifier existed has none.
Deployed(p) ==
  [net |-> "up", db |-> "run", rec |-> FALSE, fence |-> "off", retired |-> FALSE,
   app |-> "up", addon |-> TRUE, intent |-> "primary", role |-> "primary",
   pending |-> FALSE, id |-> p, tl |-> 1, data |-> {}]
PilotLight(i, r) ==
  [Deployed(i) EXCEPT !.rec = r, !.app = "zero", !.addon = FALSE,
                      !.intent = "standby", !.role = "standby"]

InitPair ==
  \E p \in Side, i \in Id, seeded \in BOOLEAN :
    \E j \in (IF seeded THEN {i} ELSE Id \ {i}),
       recorded \in (IF seeded THEN {i, None} ELSE {None}) :
      /\ node = [s \in Side |-> IF s = p THEN Deployed(i) ELSE PilotLight(j, seeded)]
      /\ link = seeded
      /\ dns = p
      /\ cfg = [primary |-> p, journal |-> None, marker |-> None, sysid |-> recorded,
                degraded |-> ~seeded, swapped |-> FALSE, discard |-> None]
      /\ pc = "idle"
      /\ used = [runs |-> 0, faults |-> 0, crashes |-> 0, behind |-> FALSE]
=============================================================================
