--------------------------- MODULE DataDirSystem ---------------------------
(***************************************************************************)
(* The commands that drive one volume's scripts: the in-place reseed       *)
(* (reseedStandbyInPlace), vibecarbon restore on k8s and on compose, deploy *)
(* -restore on a fresh volume, and the role changes of failovers.  One     *)
(* command at a time; it may end at any step, by an error or a kill, and   *)
(* what it started keeps running.                                          *)
(***************************************************************************)
EXTENDS DataDir

CONSTANTS
  Tiers,            \* the tiers an instance starts in
  RoleMovesAnytime, \* TRUE: a failover may meet a pod that is down or an
                    \* unfinished restore
  Orphans           \* TRUE: compose may start the database while a restore
                    \* container still runs

ASSUME SystemAssumption ==
  Tiers \subseteq {"k8s", "compose"} /\ RoleMovesAnytime \in BOOLEAN /\ Orphans \in BOOLEAN

VARIABLES
  cli,      \* the running command: its name, step, attempt, and whether the
            \* container is the one its guard read
  issued,   \* attempts issued
  good      \* history: the database last proven on this volume

cliVars == <<cli, issued, good>>
vars == <<dirVars, cliVars>>

Off == [op |-> "none", step |-> "none", id |-> None, same |-> FALSE]
Done == [Off EXCEPT !.step = "done"]
Step == {"none", "stage", "staging", "stop", "wait", "failed", "check", "discard",
         "mark", "bounce", "run", "stuck", "probe", "start", "prove", "retire",
         "unmark", "clean", "sweep", "done"}

TypeOK ==
  /\ TypeCorrect
  /\ cli \in [op : {"none", "reseed", "restore"}, step : Step, id : Attempt \cup {None},
              same : BOOLEAN]
  /\ issued \in 0 .. MaxAttempt /\ good \in Tree \cup {None}

On(p, S) == [q \in Place |-> IF q = p THEN S ELSE {}]
Blank ==
  /\ ready = None /\ mark = None /\ done = None /\ rmark = None /\ from = None
  /\ restorer = Idle /\ stager = Idle /\ kills = MaxKills

\* A serving volume, or a fresh one with a deploy -restore's marker set.
Init ==
  /\ Blank /\ tier \in Tiers
  /\ \/ /\ dir = On("root", Whole(0)) /\ good = 0 /\ secret = None /\ db = "up"
        /\ intent \in {"primary", "standby"} /\ cli = Off /\ issued = 0
        /\ tier = "compose" => intent = "primary"
     \/ /\ tier = "k8s" /\ dir = On("root", {}) /\ good = None
        /\ issued = 1 /\ secret = 1 /\ db = "gone" /\ intent = "primary"
        /\ cli = [op |-> "restore", step |-> "wait", id |-> 1, same |-> FALSE]

At(op, step) == cli.op = op /\ cli.step = step
Goto(step) == cli' = [cli EXCEPT !.step = step]
Issue(op, step) ==
  /\ cli.op = "none" /\ issued < MaxAttempt /\ issued' = issued + 1
  /\ cli' = [op |-> op, step |-> step, id |-> issued + 1, same |-> TRUE]
\* The database container runs, so it takes an exec.
Running == db \notin {"gone", "stopped", "held"}

-----------------------------------------------------------------------------
(* reseedStandbyInPlace: guard, stage, one stop, the swap's record, the    *)
(* recovery wait, the old tree's removal.                                  *)

Reseed ==
  /\ tier = "k8s" /\ intent = "standby" /\ db = "up"
  /\ Issue("reseed", "stage")
  /\ UNCHANGED <<dirVars, good>>

\* The script takes the lock, or is refused as busy, and drops the old ready
\* marker before anything else.
ReseedStages ==
  /\ At("reseed", "stage") /\ db = "up" /\ ~Locked /\ mark = None
  /\ ready' = None /\ stager' = [pc |-> "clear", id |-> cli.id] /\ Goto("staging")
  /\ UNCHANGED <<dir, mark, done, rmark, from, env, db, restorer, kills, issued, good>>

ReseedStaged ==
  /\ At("reseed", "staging") /\ stager.pc = "idle" /\ ready = cli.id
  /\ Goto("stop") /\ UNCHANGED <<dirVars, issued, good>>

\* Only the container the guard read is stopped, once.
ReseedStops ==
  /\ At("reseed", "stop") /\ cli.same /\ db = "up"
  /\ db' = "stopped" /\ stager' = Idle /\ Goto("wait")
  /\ UNCHANGED <<disk, env, restorer, kills, issued, good>>

ReseedWaits ==
  /\ At("reseed", "wait") /\ db = "up"
  /\ Goto("check") /\ UNCHANGED <<dirVars, issued, good>>

\* The pod changed since the guard, the stop did not take, or the container
\* did not come back in time.
ReseedRestartFails ==
  /\ At("reseed", "stop") \/ At("reseed", "wait")
  /\ Goto("failed") /\ UNCHANGED <<dirVars, issued, good>>

\* disarmStagedReseed: under the lock, no swap under way, this attempt's tree.
Disarmable == Running /\ ~Locked /\ mark = None /\ ready \in {None, cli.id}
ReseedDisarms ==
  /\ At("reseed", "failed") /\ done # cli.id /\ Disarmable
  /\ ready' = None /\ stager' = [pc |-> "undo", id |-> cli.id] /\ cli' = Off
  /\ UNCHANGED <<dir, mark, done, rmark, from, env, db, restorer, kills, issued, good>>

ReseedChecks ==
  /\ At("reseed", "check") /\ Running
  /\ IF done = cli.id THEN Goto("discard") ELSE cli' = Off
  /\ UNCHANGED <<dirVars, issued, good>>

\* The standby answers in recovery: its old tree is garbage.
ReseedDiscards ==
  /\ At("reseed", "discard") /\ db = "up"
  /\ \/ (Rm("discard") \/ Rm("retired")) /\ UNCHANGED cli
     \/ Empty("discard") /\ Empty("retired") /\ cli' = Off /\ UNCHANGED dir
  /\ UNCHANGED <<markers, env, db, restorer, stager, kills, issued, good>>

-----------------------------------------------------------------------------
(* vibecarbon restore on k8s, and finishDeployRestore from its wait on.    *)

SetRestoreMarker ==
  /\ tier = "k8s" /\ intent = "primary" /\ Issue("restore", "bounce")
  /\ secret' = issued + 1
  /\ UNCHANGED <<disk, tier, intent, db, restorer, stager, kills, good>>

\* rollout restart: a new pod.
RolloutRestart ==
  /\ At("restore", "bounce")
  /\ db' = "gone" /\ restorer' = Idle /\ stager' = Idle /\ Goto("wait")
  /\ UNCHANGED <<disk, env, kills, issued, good>>

\* Rollout done, promoted, and proven to take writes.
Proven ==
  /\ (At("restore", "wait") /\ tier = "k8s") \/ At("restore", "prove")
  /\ db = "up"
  /\ Goto("retire") /\ UNCHANGED <<dirVars, issued, good>>

\* RETIRE_PREVIOUS_SH: one rename into the discard.
RetirePrevious ==
  /\ At("restore", "retire") /\ Running
  /\ good' \in {t \in Tree : dir["root"] = Whole(t)}
  /\ dir' = [dir EXCEPT !["retired"] = @ \cup dir["prev"], !["prev"] = {}]
  /\ Goto(IF tier = "k8s" THEN "unmark" ELSE "clean")
  /\ UNCHANGED <<markers, env, db, restorer, stager, kills, issued>>

ClearRestoreMarker ==
  /\ At("restore", "unmark") /\ secret' = None /\ Goto("clean")
  /\ UNCHANGED <<disk, tier, intent, db, restorer, stager, kills, issued, good>>

\* REMOVE_DISCARD_SH: the record, then the discard.  On compose the command
\* line splits at the host's shell: the discard it removes is the host's.
RemoveRecord ==
  /\ At("restore", "clean") /\ Running /\ from' = None
  /\ cli' = IF tier = "k8s" THEN [cli EXCEPT !.step = "sweep"] ELSE Done
  /\ UNCHANGED <<dir, ready, mark, done, rmark, env, db, restorer, stager, kills, issued, good>>

RemoveDiscard ==
  /\ At("restore", "sweep") /\ Running
  /\ \/ (Rm("discard") \/ Rm("retired")) /\ UNCHANGED cli
     \/ Empty("discard") /\ Empty("retired") /\ cli' = Done /\ UNCHANGED dir
  /\ UNCHANGED <<markers, env, db, restorer, stager, kills, issued, good>>

\* A plain deploy names the clear command while nothing has swapped in, or
\* once the old cluster is retired.
Abandon ==
  /\ cli.op = "none" /\ secret # None /\ db = "up"
  /\ Empty("prev") /\ (from # secret \/ good = secret)
  /\ secret' = None
  /\ UNCHANGED <<disk, tier, intent, db, restorer, stager, kills, cli, issued, good>>

-----------------------------------------------------------------------------
(* restoreCompose.                                                         *)

\* An earlier run's container goes before the database stops.
ComposeRestore ==
  /\ tier = "compose" /\ Issue("restore", "stop") /\ restorer' = Idle
  /\ UNCHANGED <<disk, env, db, stager, kills, good>>

ComposeStopsDb ==
  /\ At("restore", "stop") /\ db' = "held" /\ Goto("run")
  /\ UNCHANGED <<disk, env, restorer, stager, kills, issued, good>>

ComposeRuns ==
  /\ At("restore", "run")
  /\ restorer' = [pc |-> "start", id |-> cli.id] /\ Goto("wait")
  /\ UNCHANGED <<disk, env, db, stager, kills, issued, good>>

\* The container exits with success, or fails or outlasts the ssh timeout.
ComposeRan ==
  /\ At("restore", "wait") /\ tier = "compose"
  /\ \/ restorer = [pc |-> "idle", id |-> cli.id] /\ Goto("start")
     \/ restorer # [pc |-> "idle", id |-> cli.id] /\ Goto("stuck")
  /\ UNCHANGED <<dirVars, issued, good>>

\* docker rm -f of the run container; its failure is ignored.
ComposeStopsRunNever ==
  /\ At("restore", "stuck") /\ Goto("probe") /\ UNCHANGED <<dirVars, issued, good>>
ComposeStopsRun ==
  /\ At("restore", "stuck") /\ Goto("probe")
  /\ restorer' = Idle \/ (Orphans /\ restorer' = restorer)
  /\ UNCHANGED <<disk, env, db, stager, kills, issued, good>>

\* The database starts again if no swap began; a marker, a tree that swapped
\* in unproven, or no answer leaves it stopped.
ComposeProbes ==
  /\ At("restore", "probe") /\ cli' = Off
  /\ \/ rmark = None /\ from # cli.id /\ db' = "guard"
     \/ UNCHANGED db
  /\ UNCHANGED <<disk, env, restorer, stager, kills, issued, good>>

\* compose up -d: a deploy, or the operator its preflight told to start the
\* stopped database.
ComposeUp ==
  /\ tier = "compose" /\ cli.op = "none" /\ db = "held"
  /\ Orphans \/ restorer.pc = "idle"
  /\ db' = "guard"
  /\ UNCHANGED <<disk, env, restorer, stager, kills, cliVars>>

ComposeStartsDb ==
  /\ At("restore", "start") /\ db' = "guard" /\ Goto("prove")
  /\ UNCHANGED <<disk, env, restorer, stager, kills, issued, good>>

-----------------------------------------------------------------------------
\* A failover arms or demotes: the intent moves, nothing restarts.  Only a
\* standby that answers is promoted.
ChangeRole ==
  /\ tier = "k8s" /\ cli.op = "none"
  /\ IF RoleMovesAnytime THEN intent = "standby" => db = "up"
     ELSE db = "up" /\ secret = None /\ Empty("prev")
  /\ intent' = IF intent = "primary" THEN "standby" ELSE "primary"
  /\ UNCHANGED <<disk, tier, secret, db, restorer, stager, kills, cli, issued, good>>

\* The command ends where it is: an error it throws, or a kill.
CommandEnds ==
  /\ cli.op # "none" /\ cli' = Off /\ UNCHANGED <<dirVars, issued, good>>

Commands ==
  \/ Reseed \/ ReseedStages \/ ReseedStaged \/ ReseedStops \/ ReseedWaits
  \/ ReseedRestartFails \/ ReseedDisarms \/ ReseedChecks \/ ReseedDiscards
  \/ SetRestoreMarker \/ RolloutRestart \/ Proven \/ RetirePrevious
  \/ ClearRestoreMarker \/ RemoveRecord \/ RemoveDiscard \/ Abandon
  \/ ComposeRestore \/ ComposeStopsDb \/ ComposeRuns \/ ComposeRan
  \/ ComposeStopsRun \/ ComposeProbes \/ ComposeUp \/ ComposeStartsDb
  \/ ChangeRole \/ CommandEnds

\* A restart of the database container is what the stop's baseline detects;
\* a finished reseed swap is this volume's database from then on.
Watch ==
  /\ cli' = IF db' \in {"stopped", "gone"} /\ cli.op = "reseed" THEN [cli EXCEPT !.same = FALSE] ELSE cli
  /\ good' = IF db = "finish" /\ mark # None /\ mark' = None THEN mark.id ELSE good
  /\ UNCHANGED issued

Next == Commands \/ (Scripts /\ Watch)
Spec == Init /\ [][Next]_vars
Fairness ==
  /\ WF_vars((Restarts \/ Guard \/ PodStarts \/ RestoreScript) /\ Watch)
  /\ WF_vars(CommandEnds)
FairSpec == Spec /\ Fairness

-----------------------------------------------------------------------------
(* Safety.                                                                 *)

\* Whatever was killed in between, postgres only ever boots one whole tree:
\* never part of one, never two mixed (db-guard.sh 56-62).
BootsWhole == db = "up" => \E t \in Tree : dir["root"] = Whole(t)

\* Until the next one is proven, every entry of the database last proven on
\* this volume is where the scripts look for it: in PGDATA, in the discard of
\* a reseed swap under way, or in .vc-prev.
KeepsDatabase ==
  good # None =>
    Whole(good) \subseteq
      dir["root"] \cup (IF mark # None THEN dir["discard"] ELSE dir["prev"])

\* No restore moves entries in or out of PGDATA under a running postgres.
NoSwapUnderPostgres ==
  db = "up" => restorer.pc \notin {"aside", "toprev", "sweep", "movein", "drop", "record"}

\* Nothing left behind swaps again: a reseed swap begins only on a standby,
\* with a tree staged later than the one it takes out, and a restore swap only
\* for an attempt later than the database last proven.
NoStaleSwap ==
  [][/\ mark = None /\ mark' # None =>
          intent = "standby" /\ \A t \in Tree : dir["root"] = Whole(t) => t < mark'.id
     /\ rmark = None /\ rmark' # None => good = None \/ good < restorer.id]_vars

-----------------------------------------------------------------------------
(* Liveness, and what a volume promises.                                   *)

\* Once nothing is killed any more, a pod comes up, with no swap left open.
PodComesUp ==
  tier = "k8s" ~> db = "up" /\ mark = None /\ rmark = None

\* The tree a set of files is.
TreeOf(S) ==
  IF \E t \in Tree : S = Whole(t) THEN CHOOSE t \in Tree : S = Whole(t) ELSE None
Volume == INSTANCE DataVolume WITH
  live <- IF rmark # None THEN None
          ELSE IF mark = None THEN TreeOf(dir["root"])
          ELSE IF mark.phase = "in" THEN mark.id
          ELSE TreeOf(dir["root"] \cup dir["discard"]),
  kept <- TreeOf(dir["prev"] \cup (IF rmark = "out" THEN dir["root"] ELSE {}))

\* Moved entry by entry and killed anywhere, the volume is one that exchanges
\* whole trees and keeps the old one until a restored one is proven.
IsOneVolume == Volume!Spec
=============================================================================
