# Verification of vibecarbon

TLA+ modules, TLC runs and TLAPS proofs about [vibecarbon](../src/README.md), a CLI that
scaffolds a SaaS application and deploys, scales, fails over, backs up, restores and destroys
it on VPS providers. Every definition is translated from the code under `src/`; `PROJECT.json`
maps each one to its lines.

Seven parts are modelled: the **k8s-ha pair** (two Kubernetes clusters, one serving and one replica,
and the commands `failover`, `failover -abort` and `deploy` that move the primary role between
them); the **compose-ha pair** (the same commands over two servers that run Docker Compose); the
**compose scale cutover** (`scale` replaces a server and moves its database); the **data directory**
of a database volume (boot guard, in-place reseed, restore); the **WAL archive** of an HA pair
(archivers, base backups, and the fences that keep all but the primary out); the **project config
file** the commands keep their journals in; and the **node autoscaler** that runs inside a deployed
cluster. What comes next is in "Plan".

## 1. The system

| component | code (`src/`) | state it keeps | operations |
|---|---|---|---|
| HA pair | `src/lib/deploy/{replication,write-fence,walg-role,retired-fence,standby-lineage}.js` | per cluster: db up, in recovery, read-only setting, wal-g role and its intent, retirement markers, app and add-on replicas, timeline | fence, unfence, promote with proof, reseed, arm and disarm, retire |
| failover | `src/failover.js`, `src/lib/deploy/failover-guard.js` | `ha.failoverInFlight`, `ha.writeFence`, `ha.lastFailover` | planned, unplanned, resumed; undo |
| failover -abort | `src/lib/deploy/failover-abort.js` | `ha.discardableStandby` | stop the standby, call off, restore the primary |
| deploy (HA) | `src/lib/deploy/{orchestrator,effects/k8s-ha,k8s/ha/index}.js` | `ha.primary`, `ha.standby`, `ha.systemIdentifier`, the replication verdict | converge, reseed or verify the standby, DNS, record |
| config file | `src/lib/config.js` | `.vibecarbon.json`, `.lock`, `.lock.break` | locked read-modify-write, stale-lock break |
| compose-ha | `src/lib/deploy/compose/{ha,ha-role-swap}.js`, `src/lib/deploy/effects/compose-ha.js` | per server: containers, postgres settings, role file, retirement markers; roles and birth stacks in the config | failover, abort, deploy, reconverge |
| data directory | `carbon/volumes/db/db-guard.sh`, `src/lib/walg/restore-layout.js`, reseed and restore in `src/lib/deploy` and `src/restore.js` | entries of PGDATA and of the directories inside it, five markers | stage, swap, roll back, prove, retire |
| autoscaler | `src/autoscaler/{groups,service}.js` | desired size, creating and deleting intents | increase, decrease, delete, refresh, reload |
| scale, cutover | `src/scale.js`, `src/lib/deploy/compose/scale-cutover.js` | `ha.writeFence` with its `cutover`, old and new server, their base backups, DNS | replace a server, finish, roll back, rerun |
| backup, restore | `carbon/volumes/db/wal-archive.sh`, `carbon/backup/compose-backup.sh`, `src/{backup,restore}.js`, `src/lib/deploy/backup-*.js`, `src/lib/walg/*` | the lineage folder (segments, bases, fence), the WAL gap record, restore markers | archive, push a base, retain, fence an uploader, restore |
| IaC driver | `src/lib/iac/*` | Pulumi state per bucket, FIFO lock | up, destroy, create timeouts |
| uplink lock | `src/lib/deploy/uplink-lock.js` | lock directory and holder | acquire, reap, release |
| single-server deploys | `src/lib/deploy/{orchestrator,compose/index,k8s/k3s,state}.js` | server records, deployed digests | provision, converge |
| image push | `src/lib/deploy/{layer-delta,remote-build,image}.js` | content-addressed layers | build, push |
| destroy | `src/destroy.js`, `src/lib/destroy/*` | leak ledger | tear down, sweep, report |
| DNS | `src/lib/{dns-provider,dns-propagation}.js` | A records | flip, verify |
| project commands | `src/{create,add,remove,upgrade,configure,up,down}.js` | files of the project | generate, merge |
| reporting | `src/{status,diagnose,access,console,shell}.js` | none | read |
| licensing, telemetry | `src/lib/licensing/*`, `src/telemetry.js` | licence file | verify |
| app: billing | `carbon/src/server/{routes/webhooks/billing,billing/records}.ts` | subscription rows | webhook events |
| app: startup | `carbon/src/server/{db/migrate,db/startup,auth/bootstrap-admin}.ts` | migration ledger, advisory locks | migrate, bootstrap |
| app: rate limiter | `carbon/src/server/lib/rate-limiter.ts` | counters per window | increment, fall back |

**How they interact.** A command is one Node process on the operator's machine. It talks to the
clusters by ssh and kubectl (each call may fail, or succeed and look failed), to provider APIs,
and to the config file, the only durable state the machine keeps. The next command starts from
what the config file and the clusters say. The clusters go on by themselves: PostgreSQL
streams, finishes a promote it accepted, a pod that boots applies its role ConfigMap and runs
db-guard. Several commands may run at once on *different* environments; they share the config
file, hence its lock. The app replicas share the database and Redis.

**What is hard.** A promote lands after its caller gave up on it; a command dies between fencing
a primary and promoting its standby; a rerun meets a pair its predecessor left half way; a copy
of a fenced primary carries the fence; a standby promoted by an aborted failover must be
reseeded, but only that copy; two breakers of one stale lock; a cloud listing that is stale when
reconciled; webhook events out of order. `PROJECT.json` lists these hazards with their lines.

**What makes each component correct.** Both pairs: one side takes writes, a promote loses nothing
that was proven to be there, a record that says healthy is true, nothing fenced or promoted is
forgotten, and a pair that failed over gets its replica back. Config file: one writer, no lost
update, no lock left for ever. Cutover: no write is lost or taken twice while clients may be sent
to either server, every fence is resolved. Data directory: postgres boots the old tree or the new
one, never a mix, and the proven database is kept until the next is proven. Autoscaler: the target
converges to the cloud, the cloud stays within maxSize. Backup: a retired primary's uploads never
enter the lineage. Destroy: never clean when something is left. Billing: the row ends at the last
event's state. Startup: each migration once.

## 2. Modules

| module | models | extends |
|---|---|---|
| `HaPair` | the two clusters, the environment's record, the remote calls, what clusters do by themselves | |
| `HaFailover` | `failoverHA` step by step, with undo and rerun | `HaPair` |
| `HaAbort` | `abortFailover` | `HaPair` |
| `HaDeploy` | the deploy of an existing pair; the reconcile of a retired side | `HaPair` |
| `HaSystem` | the composition: operator, crash, specification, properties | the three commands |
| `OneWriter` | what switchovers promise: the abstract specification | |
| `HaSystemProofs`, `HaPairProofs` | theorems | `HaSystem` |
| `ComposePair` | the two servers, the environment's record, ssh calls, what servers do by themselves | |
| `ComposeFailover` | `failoverComposeHA` and the abort over its backend | `ComposePair` |
| `ComposeDeploy` | the deploy of a pair: normal, and the reconverge of one that failed over | `ComposePair` |
| `ComposeSystem` | the composition, status' reconcile, crash, specification, properties | both |
| `ComposeProofs` | theorems | `ComposeSystem` |
| `ScaleCutover` | the scale of a compose primary, its rerun, the deploys and backups around it | |
| `ScaleCutoverProofs` | theorems | `ScaleCutover` |
| `DataDir` | the volume and its three scripts, one file operation per step | |
| `DataDirSystem` | the commands that drive the scripts, specification, properties | `DataDir` |
| `DataVolume` | what a volume promises: the abstract specification | |
| `DataDirProofs` | theorems | `DataDirSystem` |
| `WalArchive` | the archive of a pair: archivers, base backups, retention, fence, role, marker | |
| `WalArchiveProofs` | theorems | `WalArchive` |
| `ConfigLock` | `updateProjectConfig` by system calls | |
| `ConfigLockProofs` | theorems | `ConfigLock` |
| `Autoscaler` | one node group: its calls, background tasks, refreshes, the cloud | |
| `AutoscalerProofs` | theorems | `Autoscaler` |
| `MCHa`, `MCComposeHa`, `MCScaleCutover`, `MCDataDir`, `MCWalArchive`, `MCConfigLock`, `MCAutoscaler` | instances for TLC | |

**State of the pair.** `node[s]` is one cluster: `db` is the StatefulSet's replica count, `rec` is
`pg_is_in_recovery()`, `fence` the setting `default_transaction_read_only` (`"set"` while sessions
older than it may still commit), `intent` and `role` the wal-g role ConfigMap and live role file,
`pending` a promote PostgreSQL accepted and has not finished, `id` and `tl` what pg_control
says, `data` the transactions it holds. `cfg` is `environments.<env>.ha` of the config file; a
save is one atomic step, which is what `ConfigLock` establishes of `updateProjectConfig`
(`NoUpdateLost`). `pc` is the step the running command is at and `fo`, `ab`, `de` its locals; a
command that dies loses them and leaves the rest. `used.behind` is history: a failover went on
without its reseed over a standby that lacks a transaction.

**Steps.** One action per remote call or save of the command, in the code's order. A call that
reaches its cluster succeeds or costs one of `MaxFaults`; one that cannot reach it fails for
free. A failed call may have taken effect, wholly or in part, whatever the code's own call
sequence allows. Reads that decide (`isPrimaryPostgresReady`, `readReplicaState`, the lineage)
may fail, and with `ProbeLies` say "not ready" of a primary that is. The operator's flags are
chosen freely (`Forced`): the gate, not the operator, must keep the pair safe.

**The compose-ha pair.** The same shape over other machinery, so a pair of its own: a server
(`node[s]`) runs the whole stack, the standby's app included; `docker stop` is over when it returns
and takes an accepted promote with it; the wal-g role is one host file; both retirement markers and
the read-only setting are one field, `retired`, as every step writes or clears them together or
reports what is missing. A host that boots starts *every* container (`Return`), so what a command
stopped comes back. `cfg.birth` is the server of the `-primary` stack: roles that contradict it are
what `detectComposeHaRoleSwap` looks for, and `Births` lets an instance begin on either side of it.
The guard of a second failover is the code's: an inverted pair that no deploy reconverged is refused
at once, one that failed back onto its birth stacks only at the gate.
A reseed is three steps, in a deploy, a reconverge and a failover alike: stage the copy and stop the
database, swap the directories, start it and wait for a replica. What fails before the start sends
the start all the same; a command that dies sends nothing, and the database stays stopped until
something starts it. A host that booted in between has the database up: the swap is then taken as
failed, where the code would move the directories of a running postgres.
A deploy of a pair that failed over is the reconverge: the promoted server is never touched, the
retired one rebuilt behind its fence. Identifiers are reduced to "was it read": both servers are of
one database, so a comparison can only fail for want of a reading. `run` holds the locals of the
running command.

**The cutover.** `node[s]` is a server the environment has had; `base[s]` what the newest base on
its timeline holds; `dns[n]` the server record `n` (apex, wildcard) points at, `late` the server a
timed-out update may still move records to, `seen` every server a resolver may still answer with.
`cfg` has the server of record, the fence's marker and the cutover journal under it. `run.at` is the
step, `run.undo` the rollback a failure now would run. Three DNS modes: a provider, a domain pointed
by hand, no domain. `node[s].temp` is the temporary name a replacement is created by: who bears it
is handed out again by the next `Prepare`, a leftover with its database, or the server of record
when its rename failed or was never reached. `used.slip` and `used.self` are history: a save of the
journal, or of the step the flip adds to it, has failed; a scale was handed the server of record.

**The data directory.** `dir[p]` are the entries in PGDATA (`root`) and in the directories the
scripts keep inside it; `ready`, `mark`, `done`, `rmark`, `from` are the marker files. PGDATA is a
mount point, so trees move entry by entry: each `mv`, `rm` and marker write is a step of the guard
(`db`), of the restore script (`restorer`) or of the script exec'd in the live container
(`stager`), and any container may be killed between two. `cli` is the one command that runs; it may
end anywhere (`CommandEnds`) and what it started keeps running. `good` is history: the database last
proven on the volume. `DataVolume` is what all that implements: whole trees exchanged in one step.

**The WAL archive.** One lineage folder for two servers: `archive[t, k]` is the segment `k` of
timeline `t`, `bases` the base backups, each with how many finished before it, `fence` the fence
object. `hist` are the branches of the database's history: a promotion opens one, numbered one above
the timeline of the server it happens on, so a called-off promote and the next one share a number;
the scripts see numbers, the model tells branches apart by their index. `pg[s]` is a server's
postgres and the segment it writes, `held` what it still wants archived, `gap` and `aside` the two
files of the gap record, `logged` (history) what was given up with no more than a log line.
`backup[s]` is a base-backup run: its guards, retention and push, the move of the gap record and its
return are steps, the archiver and the other server go on between them, and the run may die at each.
A command is reduced to the steps that move role, marker, fence and database, at `cmd`: what stops a
command from the outside, its gate and its proofs, is `HaSystem`'s and `ComposeSystem`'s. The same
module stands for both tiers, as both run the same scripts (the CronJob's is compose-backup.sh with
pod names).

**State of the lock.** A lock file is its text (a pid or nothing), its creator and whether it is
past the grace of an empty file; the text is all the code sees of it. Every `openSync`, `writeSync`,
`statSync`, `readFileSync`, `unlinkSync` on the two files is a step of its own, so two processes
interleave between any two. A process may die at any of them and its pid come back; `orderly` records
whether what has happened so far is what the code reckons with.

**State of the node group.** `desired`, `running`, `creating` and `deleting` are the fields of the
group in `GroupManager`; `job` and `kills` are the background tasks of `increaseSize` and
`deleteNodes`; `cloud`, `posted` and `doomed` what the provider has, has yet to create and is
tearing down. A section under the FIFO mutex has no await and is one step; every provider call is
a step of its own, and so is what the provider does with it. A refresh is two steps: `Listed` takes
the snapshot, `Fold` is the locked reconcile, and anything may happen between them, another
refresh included. A list call that throws changes nothing and is left out as a stutter; one the
provider refuses is in, as `softList`. Servers are known by their random names. `Reload` and
`Restart` replace the manager and leave the old one's calls in the air. `slipped` belongs to the
model: it remembers that something happened which `WithinMax` excuses.

**Composition.** One command at a time acts on an environment: no lock in the code enforces it,
it is how an operator works, and it is an assumption of `HaSystem`, `ComposeSystem`,
`ScaleCutover` and `DataDirSystem`. Everything a *dead* command left behind is in the model. World
steps interleave with every step of a command.

## 3. Runs

| run | expects | what it shows |
|---|---|---|
| `ha_all` | pass | all safety of the k8s pair, all commands, outages, lies, faults and a crash |
| `ha_switchover` | pass | planned failovers and deploys refine `OneWriter` until a reseed is skipped over a standby that is behind; a failover in flight is resolved by reruns |
| `ha_lossy_promote` | violation | a planned promote of a standby known to be behind, with only the link between the clusters down |
| `compose_ha` | pass | all safety of the compose pair, its refinement of `OneWriter`, and that a pair that failed over gets its replica back unless its database is left stopped |
| `compose_ha_late_promote` | violation | an abort after which no deploy rebuilds the standby |
| `scale` | pass | no write lost or taken twice by a cutover, its reruns and rollbacks; every fence resolved |
| `scale_failed_save` | violation | a failed save after the flip loses committed writes |
| `scale_temp_name` | violation | a scale deletes the serving server, which it was handed as its replacement |
| `datadir` | pass | whole trees only, the proven database kept, no stale swap, the volume refines `DataVolume`, pods come up |
| `wal_archive` | pass | one server pushes; the base a restore takes has its segments archived, held or on record, if its run began alone |
| `config_lock` | pass | exclusion and no lost update until a death or a reused pid nobody reckoned with; nobody waits for ever, wherever processes die |
| `autoscaler` | pass | the target stays exact and within maxSize, and converges to the cloud |

The properties, in the words of their comments. *k8s pair*: a promote that may still land is
journaled and aimed at the standby (`JournalCoversPromote`); a fenced primary is on record
(`StrandedFenceRecorded`); under a planned failover's journal the two databases never take writes at
once (`PlannedNoSplitBrain`); an environment recorded healthy has a replica that would come up
writable (`HealthyHasReplica`) and archives (`PrimaryArchives`); an abort's record can only ever
excuse overwriting the copy it names (`DiscardIsCurrent`, `ReseedOnlyGivenUp`); a promote lands on
an armed standby (`ArmedBeforePromote`) and loses nothing once the data was proven
(`ProvenPromoteLosesNothing`); switchovers are `OneWriter` (`SwitchoverIsOneWriter`); a failover in
flight ends (`JournalResolves`). *Compose pair*: the same `StrandedFenceRecorded`,
`HealthyHasReplica` and `ReseedOnlyGivenUp` of its own code; while no server was lost and no abort
gave a copy up, one side at a time takes writes and has every transaction (`MovesOneWriter`); a pair
that failed over is reconverged, if its retired database is not left stopped for good
(`Reconverges`). *Cutover*: wherever a client may be sent, a server
that takes writes holds all of them (`NoForkedWrites`); a server of the record holds all of them
(`RecordHoldsAll`); a fenced server is on record (`FenceOnRecord`); one server archives
(`ArchivesAlone`) and the base a restore would take is whole (`NextBaseHoldsAll`); to its clients
the environment is one database that moves (`MovesOneWriter`); every fence is lifted or its server
gone in the end (`FenceResolves`). *Data directory*: `BootsWhole`, `KeepsDatabase`,
`NoSwapUnderPostgres`, `NoStaleSwap`, `IsOneVolume`, `PodComesUp`. *WAL archive*: between commands
the server of the record may push unless a step went unanswered, and once the fence names it the
other may not, whatever was lost (`OnlyPrimaryPushes`); the newest base under that fence is the
primary's, no later run swept it, and, if no run of the other server was under way when its own
began, every segment it needs is archived, still held, in the gap record or in the log
(`LatestRestores`). *Lock*: `HoldsAlone`, `NoUpdateLost`, `GetsThrough`. *Node
group*: what it has and has asked for never exceeds maxSize (`WithinMax`), the target CA sees is
what the next refresh would compute (`TargetExact`), one delete is one call (`DeletesOnce`): all
three until one of the listed excuses happens; and, whatever happened, the group comes to agree with
the cloud (`Converges`).

**Bounds.** `ha_all`: two runs the operator starts with no failover in flight (a rerun or an abort
of one in flight is free, so a chain may be failover, crash, rerun, abort, deploy), two faults, one
crash, one transaction, two system identifiers. Two faults are what the interesting losses need: one
to lose a call and one to defeat its undo, or an outage and a failed call. Larger instances were
explored without a difference: three runs, two faults, one crash (3.3 million states) and, over a
reseed that could not be skipped, four, three, one (11.5 million). One transaction is enough for
"has it or lacks it"; `ha_switchover` has two, so that a copy can hold one and lack the other, two
runs (550 000 states; three, 1.1 million, made no difference) and no outages: `OneWriter` promises
nothing when a cluster is lost. The safety runs use the symmetry of sides, transactions and
identifiers (nothing names one of them), runs with a liveness property none.

`compose_ha`: one failover started with none in flight (reruns, aborts and deploys are free), two
faults, one crash, servers that die or are cut off, pairs whose roles agree with their stacks and
pairs inverted before, so that a failover turns one back, these with one fault; 417 000 states.
`OneFirst` names the server that begins as primary: nothing distinguishes the two, and a run with a
liveness property may not use symmetry.

`wal_archive`: two failovers, so that the number of a called-off timeline comes back; segments 0 and
1, so that a branch opens before, at or after one; two base runs, so that one can sweep the other;
one fault, so that a segment is dropped, a run dies or a step goes unanswered; 4.3 million states.
Two faults, 12.3 million, made no difference. The theorems about both properties have none of these
bounds, and that matters: an interleaving with three base runs over two segments broke an earlier
form of `LatestRestores` (see `compose-backup.sh:209` below).

`scale`: three servers, which is two scales and a server to spare; one transaction, two faults
(reboots count as one), one kill, all three DNS modes; 2 million states. `scale_temp_name`: two
servers, so that nothing but the server of record can be in the way. `datadir`: both tiers,
trees of two entries of which one proves a tree, so that a tree can be half moved with and without
its proof; three attempts, which is a reseed or restore over an unfinished one over a finished one;
two kills, so that the script that repairs the first is killed as well; 303 000 states.

`config_lock`: three processes, because every race of breakers needs a dead holder and two waiters;
three calls and three deaths among them, at any system call, and pids reused. The theorems about
exclusion have none of these bounds. `autoscaler`: two servers, two refreshes at once, maxSize 1 or
2, and four of CA's calls and events together; each kind of event may happen at any step. Three
servers (2.7 million states, safety only) made no difference. Every excuse of `WithinMax` is needed:
with any one of them dropped, TLC finds a behaviour that breaks `WithinMax` or `TargetExact`, so the
comment of the property is the list of what the bound in the code does not cover.

**What the properties are conditional on.** A property that holds only under a condition names it,
and TLC breaks it without:

- `datadir` has `RoleMovesAnytime = FALSE`: a role moves only on a pod that answers and has no
  unfinished restore. If it moves on one that is down, a reseed stage removed half way under the old
  role can still prove itself under the new one, and `BootsWhole` fails. `Orphans = FALSE`: the
  removal of a restore container that outlived its ssh call takes effect
  (`compose/index.js:1884` ignores its failure). With an orphan the database boots over the swap, as
  db-guard asks for the lock only under a reseed marker, and `NoSwapUnderPostgres` fails.
- `scale` has `LateAnytime = FALSE`: a DNS update that timed out lands before the next update or
  never. Landing between a rerun's read of the records and its delete of the new server, it breaks
  `NoForkedWrites`. Every promise of the cutover stands on its journal and on the new server being
  another one (`Promised`): once a save of the journal has failed (`used.slip`) the scale undoes as
  if DNS had not moved, and once it was handed the server of record as its replacement (`used.self`)
  it deletes that one, or demotes it and can never finish. Nothing is promised then; the runs
  `scale_failed_save` and `scale_temp_name` show what happens.
- `SwitchoverIsOneWriter` promises nothing once a failover skipped its reseed over a standby that
  lacks a transaction (`used.behind`): `reseedStandbyOrAbort` goes on when the staging script gets no
  answer from the primary over the link between the clusters, although the catch-up gate has found
  the standby behind. A skip over a standby that happens to have everything is not excepted. What
  the code does in the excepted case is `ha_lossy_promote`.
- `Reconverges` is about a retired server whose database is up again and again
  (`[]<>node[Standby].db`): left stopped for good, no deploy rebuilds it (`compose/ha.js:776` below).
- `MovesOneWriter` of the compose pair excepts `LateReseed`: step 0c of a *rerun* copies the
  primary over the standby, and nothing looks whether the promote of the earlier run landed after
  the gates were passed.
- `HoldsAlone` and `NoUpdateLost` end when a process dies between creating a file and writing its
  pid, or while it breaks a lock, or when a pid is reused (`orderly`). After any of these two
  processes can hold the lock, as its text is all that identifies it. `GetsThrough` has no such end.

- `wal_archive` promises a restore only once the fence names the primary and only for a base whose
  run read that fence: a run that read an older fence may finish under the new one. It promises the
  segments only to a base whose run began while none of the other server was under way, as that
  run's retention may prune them (`compose-backup.sh:209` below). Segments given up with a log line
  count as accounted for (see the limits below). Restores to an instant before the newest base are
  not in it.

**What a violation run is.** Each checks one sentence of a comment or of the documentation against
what the code does; `PROJECT.json` quotes the sentence ("findings").

- `ha_lossy_promote` needs a standby that does not stream and a staging script that gets no answer
  from the primary (`failover.js:412`, `replication.js:343`), as when the link between the clusters is
  down: every other call is answered truly. The command's own probe of the primary, one step before
  (`failover.js:375`), has the same effect when it is wrong once; `ha_all` has it too (`ProbeLies`).
- `scale_failed_save` needs one failed save, after the flip and before the flag that says it
  happened (`scale.js:1747`): the scale rolls back, deletes the server that has taken writes, and
  records it.
- `compose_ha_late_promote` needs no fault: a failover dies after it sent the promote, the operator
  aborts it, and the promote lands between the abort's read of the standby and the stop of its
  database. The copy is on a newer timeline and no record gives it up, so every later deploy refuses
  it as promoted outside vibecarbon, where `docs/technical.md:724` says a standby still in recovery
  at abort time never promoted.
- `scale_temp_name` needs a scale that ends between clearing its record and its rename
  (`scale.js:858`, `scale.js:859`), or whose rename fails, and a next scale that fails before its
  flip: that one was handed the serving server under the temporary name and deletes it.

**Known limits without a run of their own.** TLC found these with the modules as they are or with
one condition lifted; each is one known gap of the code, not a question the runs ask again.

- `compose/index.js:1659`: a restore that ends before it retires `.vc-prev`, then a failover that
  demotes this side and a reseed of it, leave `.vc-prev` beside a new, proven database. Neither
  command looks at it, and the next restore takes the live database for the unproven copy.
- `scale.js:2058`: for a domain pointed by hand the records cannot be read back, so a scale killed
  between its journal and its save is neither finished nor rolled back by any rerun, although
  `scale.js:871` adopts the new server when the scale manages no DNS. Hence `mode # "manual"` in
  `FenceResolves`.
- `effects/compose-ha.js:990`: after an abort the next deploy starts the given-up standby, which is
  out of recovery, with its app beside the primary, until the reseed; `failover-abort.js:28` keeps
  it down up to there. Hence `used.lost` in `MovesOneWriter` once an abort gave a copy up.
- `compose/ha.js:776`: the reseed stops the database, swaps its directory and starts it again in
  three calls; the start is in a `finally`, which a command that dies never reaches. After a
  failover, when one deploy dies between the stop and the swap, the next cannot read the stopped
  database, so it cannot prove the retirement fence in it and throws (`effects/compose-ha.js:1046`)
  before the step that would start the stack; so does every one after it, though
  `ha-role-swap.js:154` calls one deploy the way back to two nodes. No call needs to fail: with its
  condition taken off, TLC breaks `Reconverges` with no fault, one death and no outage.
- `effects/compose-ha.js:1030`: on an inverted pair an abort leaves the standby's database stopped,
  and the reconverge, which must prove the retirement fence in it, throws on every deploy until
  somebody starts it: the same dead end, reached without a crash.
- `effects/compose-ha.js:1345`: the reconverge reseeds without the lineage check that
  `docs/technical.md:717` describes for both tiers, so `ReseedOnlyGivenUp` speaks of the normal
  deploy (`pc = "seedSwap"`).
- `effects/compose-ha.js:1050`: a healthy replica that cannot be read is fenced as retired; if the
  deploy dies before its verdict the record still says healthy, until the next deploy
  clears the fence.
- `compose/index.js:2030`: the command that removes the discard after a compose restore splits at
  the host's shell, so what it removes is the host's path; the volume's discard stays until the next
  swap.

- `wal-archive.sh:183`: a segment whose name the archive holds with other bytes is let go (exit 0)
  with a log line and no gap record, although lines 31-32 say a gap is recorded. It takes no second
  writer: a promote that was called off and archived, then a new one from the same primary, have the
  same timeline number.
- `wal-archive.sh:92`: a primary that a failover demoted lets its segments go as a standby does. If
  that failover is then aborted the server is the primary again with segments missing that no record
  names; `restore latest` needs its next base, which the abort does not push
  (`post-promote-backup.js` pushes after a promote only).
- `compose-backup.sh:192`: the lock against a concurrent sweep is per host, in the CronJob per
  cluster. A run begun on the new primary may sweep one of the old primary that read the fence
  before the failover. `LatestRestores` says what stays true: such a run's base is not the one
  restored once the fence names the primary.
- `compose-backup.sh:209`: retention prunes by name, timeline number first and segment second. A
  promote that was called off and a later one have the same timeline number, and the base of the
  first may begin at a higher segment. A run of the old primary that read the fence before the later
  failover may take that base for its target (once it is past the retention days) and run `delete
  before` while the first push of the new primary is under way: it prunes segments of the new branch
  that the base about to land needs, and no record names them. It takes two segments and three base
  runs, more than `wal_archive` has; it was found because the proof of `LatestRestores` without its
  condition failed there.
- `backup-fence.js:27`: the exemption of an archive backlog at a planned failover is by the switch
  segment, but the role demotion and the retired marker come first in the script and let the backlog
  go or hold it.

**Fairness.** `HaSystem!FairSpec`: the running command steps (each remote call has a timeout); the
world goes on (pods drain, accepted promotes finish, the walreceiver connects and applies);
and the operator reruns a failover in flight, again and again, and again and again passes the
gate when its flags allow it (strong fairness, as a refusal ends a run and each rerun is a new
chance). Nothing is assumed of crashes and faults but their bounds, nor of deploys or aborts.
`ConfigLock!FairSpec`: a live process does its next system call, an empty file ages, and a process
that over and over finds the lock held reaches its 30 s deadline (strong fairness: it polls
between). Not assumed: that commands start. `Autoscaler!FairSpec`: the tasks of the process go on,
the provider does what it took on, and CA refreshes for ever; it may never call anything else.

`ComposeSystem!FairSpec`: as `HaSystem`'s, and an idle environment gets a deploy that allows nothing
degraded, again and again; a dead server comes back. `ScaleCutover!FairSpec`: a running command goes
on, a journaled cutover gets its scale rerun, a marker without one a deploy.
`DataDirSystem!FairSpec`: the kubelet restarts containers and the scripts go on; a command ends.
None assumes anything of commands that were not told to run, nor of faults but their bounds.

`Converges` excepts one situation, by a guard of `Removed`: a server deleted by hand before any
listing showed it. Its intent has neither appeared nor failed, so every refresh keeps it, and the
target stays one too high until the process restarts (TLC finds it when the guard is dropped).

`GetsThrough` excepts one situation: a breaker died, and its pid now belongs to a long-lived
program. The deadline is only looked at while the lock itself is not stale (`config.js:277`), so
waiters of a stale lock behind a break file that looks alive poll for ever.

## 4. Proofs

TLAPS proves, for any two clusters, any identifiers, transactions and bounds:

- `HaSystemProofs!TypeCorrect`: `Spec => []TypeOK`. `TypeOK` is inductive; the lemmas go from the
  helpers that rewrite a cluster, over remote calls that fail half way, to the steps of each
  command.
- `HaSystemProofs!PromoteIsOwned` and `JournalAlwaysCovers`: a sent promote that may still land is
  journaled and aimed at the standby. `JournalCoversPromote` is not inductive: that nobody drops
  the journal of an outstanding promote depends on the step the command is at. `PromoteOwned`
  adds what the code relies on there (an undo runs only when nothing was sent by this run or an
  earlier one; past the promote the standby is out of recovery; an abort that got past the stop
  has killed the promote with the database). Most steps are "calm", they touch neither promote,
  recovery, roles nor journal, and one lemma disposes of them by their `pc`; sending, landing,
  journaling, undoing, aborting, swapping and reseeding are proved one by one.

- `HaPairProofs`, over `PromoteOwned`: `PairInvariant`, and from it the other five invariants
  (`FenceIsRecorded`, `NoSplitBrainWhenPlanned`, `HealthyReplica`, `PrimaryIsArmed`,
  `DiscardNamesTheCopy`), three action properties (`PromotedArmed`, `ProvenPromoteIsLossless`,
  `ReseedsOnlyGivenUp`) and the refinement of `OneWriter` (`SwitchoversKeepOneWriter`). None is
  inductive: each is broken by a step of a command unless what that command saw some steps before
  still holds. `PairInv` says what the two roles owe each other (`RolesKept`, `HealthyKept`), what a
  journal stands for (`JournalKept`: what may be promoted is armed, and a planned one leaves the
  primary fenced or nothing to promote), and what each command has established by the step it is at
  (`FailoverKept`, `AbortKept`, `DeployKept`). A replica has the identifier and the timeline of its
  primary, so every promoted copy, and every discard record, is `OneOn`, the primary's database one
  timeline on: that is why a record can only name the copy that is there. Steps are described by
  what they do to each side; most are `Quiet` and one lemma keeps the invariant for all of them. The
  refinement is proved under `NoOutage` (no cluster lost, a ready primary never read as not ready,
  no abort), the constants of the run `ha_switchover`, until a failover skips its reseed over a
  standby that is behind (`used.behind`; the run `ha_lossy_promote` shows what follows). Every
  failover is then planned and promotes proven data only (`SwitchoverKept`), and of the two copies
  one always holds everything while the other is a replica, fenced or unserved (`CopiesKept`). A
  step of the pair leaves both copies as they are (`StillStep`), reseeds, commits, replicates or
  lands a promote (`CopyStep`), and each of these is a step of `OneWriter` or a stutter.

- `ComposeProofs`, for any two servers, transactions and bounds: `ComposeTypeCorrect`;
  `ComposeFenceRecorded` and `ComposeHealthyHasReplica`, from `ComposeInvariant`; and
  `ComposeReseedsOnlyGivenUp` (`ReseedOnlyGivenUp`) and the refinement `ComposeMovesOneWriter`
  (`MovesOneWriter`), from `ComposeCopies`. No property is inductive: whether an undo may drop the
  journal, or a deploy may record the pair healthy, depends on what the command has seen some steps
  before. `PairKept` is what holds at every step (a fenced primary has its marker, a promote that
  may land its journal, a streaming standby is a replica, a swapped pair is recorded degraded);
  `FailoverKept`, `AbortKept` and `DeployKept` are what a command relies on at its step (a first run
  before its promote has a standby in recovery with no promote under way, an abort past the stop one
  no promote can land on, a deploy that saw streaming one still in recovery). Steps that only lift a
  fence, forget a promote or break the link are `Calm` and one lemma keeps `PairKept` for all of
  them; journaling, promoting, fencing, reseeding, swapping, aborting and recording are proved one
  by one. `CopyInv` is about the data. A replica is on no newer timeline than its primary, and
  nothing moves either between the guard of a reseed and its swap, though the database is stopped in
  between (`TimelinesKept`): that is `ReseedOnlyGivenUp`, in every behaviour. While no server was
  lost and no copy given up, one side is to serve (`Server`: the standby once a journaled promote
  has landed, else the primary) and has every transaction; the other is a replica or fenced, and the
  primary is fenced with all it has on the standby as soon as a promote may land (`CopiesKept`).
  `ProofKept` is what makes it so: from the fence on a failover has a fenced primary, from the proof
  on the standby has its data, an undo that lifts the fence is of a first run, and an abort that
  goes on has a replica. Steps that leave the copies are `Tame`, and a tame step lifts a fence only
  from a primary that is the one to serve with no promote under way; what remains to be shown of
  each is that the writer stays, stops or starts alone (`WriterStep`). The exceptions in the
  statement of `MovesOneWriter`, a lost server or a copy given up (`used.lost`) and the late full
  copy (`LateReseed`), are the property's own.

- `ScaleCutoverProofs`, for any servers, writes, faults, kills, scales and deploys:
  `CutoverTypeCorrect`, `CutoverFenceOnRecord`, `CutoverForksNoWrites`, `CutoverRecordHoldsAll`,
  `CutoverNextBaseHoldsAll`, `CutoverArchivesAlone`, and the refinement `CutoverMovesOneWriter`. The
  invariant says where the database is: whole on the server of record, or under a journal that goes
  back to the old server or on to the new one (`Whole`, `GoingBack`, `GoingOn`), and for each of
  these which server is held, which has everything and which is gone or spare (a server left over
  under the replacement's name may be taken for it); `EarlyDone`, `FlipDone` and `BackDone` add what
  a run has done by its step. Three conditions are part of the statements. A DNS write that timed
  out lands before a rerun reads the records, or never (`~LateAnytime`): with it landing later,
  clients may be sent to a server already given up. And what follows a failed save of the journal is
  excepted (`used.slip`): the run `scale_failed_save` shows what the code does there. So is a scale
  that was handed the server of record as its own replacement (`used.self`): that is the run
  `scale_temp_name`. The types are proved in every case.

- `WalArchiveProofs`, for any two servers and any number of segments, failovers, faults and base
  runs: `ArchiveInvariant` and `OnePusher` (`OnlyPrimaryPushes`), `StoreInvariant` and
  `RestoreFindsAll` (`LatestRestores`). `OnlyPrimaryPushes` is not inductive:
  whether a server may push is decided by four things written at different steps. `Databases` says
  which server is out of recovery, and on which side of the other's timeline, at each step of a
  command; `Roles` that the role reaches the standby before the promote and leaves the primary after
  it; `Fences` that the fence never gets ahead of the server that is to push; the last two while
  every step landed. The servers' own work is `Quiet` and one lemma disposes of it; a command has
  one lemma per step.
  `StoreInv` is what the archive owes the server a restore is to serve, `lead`: once a failover has
  promoted the standby that one, else the primary. The runs and bases that read the fence naming it
  (`Ours`) are its own and of its branch, no later run swept them, and beside a run that began alone
  none of the other server has started (`Lineage`); they begin in the order they finish
  (`StartsOrdered`); and from the start of the last of them on every segment is archived, held by
  `lead`, in its gap record or given up, once one of them began alone (`Covered`). A fence they can
  have read is never written again for another branch or abort (`ReadsKnown`), so a new age starts
  without them. What could lose a segment is looked at step by step: a push under a name already
  taken, a drop, the move and the keeping of the gap record, and retention, which leaves the later
  of two bases of a branch and its segments. The archiver hands over the oldest segment it holds:
  that there is one follows from the well-foundedness of `<` on `Nat`.

- `ConfigLockProofs`: `LockTypeCorrect` for every behaviour of the lock, and, for any number of
  processes, calls and deaths, `OrderlyHoldsAlone`, `OrderlyBreaks` and `OrderlyUpdates`
  (`HoldsAlone`, `BreakersDoNotCollide`, `NoUpdateLost`), each until `orderly` ends: a process dies
  between creating a file and writing its pid or while breaking, or a pid is reused. That none does
  is what the comment at `config.js:222` takes for granted.
  The invariant says what the files name: the lock is that of the one process holding it or of a
  dead one, the break file that of the one breaker (`Owned`); a process on its way to break has
  seen the pid of a dead process, and at the unlink that is the pid in the lock (`Judged`); what a
  holder read is what is on disk (`Fresh`).

- `AutoscalerProofs`: `GroupTypeCorrect`, and `GroupWithinMax`, `GroupTargetExact` and
  `GroupDeletesOnce` for any servers, refreshes, sizes and events. The bound follows from the exact
  target, since what the group is committed to is among what it counts (`Covered`); that a fold
  keeps this needs to say what a listing taken some steps ago can have missed (`Current`: only
  servers that have gone, or that an intent stands for), and what intents and markers vouch for
  (`Created`, `Deleted`). The cap at maxSize in the fold then never bites, which is the heart of
  `CalmFold`.

- `DataDirProofs`, for any entries, attempts and kills, on both tiers, while roles move on answering
  pods only and no orphan restore container is started over: `VolumeTypeCorrect`,
  `VolumeBootsWhole`, `VolumeKeepsDatabase` and `VolumeSwapsAlone`. The invariant has four parts:
  types; which script may run under which marker (`Orderly`); that no two of them move files at once
  (`Alone`); and, for every marker and script position, in which two places a tree is and which
  place is whole (`Data`). Each file operation moves one entry, so most steps only shift an entry
  between the two places `Data` names; the steps that write or remove a marker are where a place
  must be proved whole. On top of it stands the order attempts are issued in (`Ordered`): no file and
  no marker is of an attempt none of whose scripts has run (`Numbered`), a staged tree is younger
  than the one in PGDATA (`StagedLater`), a restore's attempt is younger than the database last
  proven or the volume records it (`RestoredOnce`), and what a restore keeps is whole (`KeptWhole`).
  From it follow `VolumeSwapsForward` (nothing left behind swaps again: `NoStaleSwap`) and
  `VolumeIsOne`, the refinement `IsOneVolume`: each step is a reseed, the beginning or the end of a
  restore or a proof of `DataVolume`, or leaves it alone. That a reseed changes the tree is where the
  order is needed.

The assumptions are the named `ASSUME`s of the modules: two distinct sides, sentinels that are no
values, finitely many server names, natural bounds. The type invariants of the lock, the node group,
the volume and the compose pair are proved, so no run checks them again. Only model-checked: all
liveness (fairness and ENABLED are out of the prover's reach).

## 5. Not modelled, and why

Inside the modelled commands: the TLS snapshot and ACME issuer of the promoted side, the base backup
pushed after a promote, the backup-prefix fence (it is in `WalArchive`), image copies and GitOps
refresh, worker capacity beyond "provisioned or the run ends". They touch other state than the
pair's and are best effort. The reseed of the k8s pair is one step: staging, swap at the db restart,
streaming (compose's is three calls); the crash points inside the swap are those of `DataDir`. A
nested `updateProjectConfig` in one process throws before it touches a file (`heldConfigLocks`), so
a process makes one call at a time. Writes to the config file are one rename, so a reader sees the
old file or the new one. Exclusion of the config lock is promised until a pid is reused: from then
on the text comparison cannot tell a reused pid's fresh lock from the stale one.

Of the compose pair: the backup-prefix fence (in `WalArchive`), TLS and ACME, the base after a
promote and the wait for the admin, image and bundle delivery, the probe of the role file's mount,
and domains pointed by hand. Add-ons are part of the app; an instance begins with a deployed,
streaming pair.

Of the scale: the arm that replaces a standby and its rejoin, the k8s arm, image delivery, TLS, the
Pulumi state sync, and server types. A reboot starts containers through the systemd unit. Of backup
and restore: a restore to an instant, several lineages in one bucket (a recreated database gets a
folder of its own, which is why a fence of another database never applies), the TLS snapshot, the
CLI around the runs. That a held segment is archived in the end is not checked: the state space of
`wal_archive` is too large for a liveness check.

Of the autoscaler: the readiness flag, the network and firewall lookups that the creates of a
cycle share (each create has its own here), node templates, and several groups at once, which
share only the mutex and the provider. A create that finds its group gone from the config cannot
happen, as a reload replaces the manager and its config together.

Out of reach or of no protocol interest: provider APIs and Pulumi, image content, generated
files, prompts, reports, the client UI.

## 6. Plan

Done: the k8s pair, its three commands, and the proofs of all its safety properties and of its
refinement; the config lock and its proof; the node group and its proof; the data directory, its
refinement and proof; the cutover and its proof; the compose pair, its refinement and proof; the WAL
archive and its proof.

Next, in this order:

1. `UplinkLock`, `BillingWebhooks`, `Startup`, then restore selection and destroy: each is
   small, and its run takes the place of the one that says least by then.
