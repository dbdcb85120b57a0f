------------------------------ MODULE DataDir ------------------------------
(***************************************************************************)
(* The data directory of one database volume and the three scripts that    *)
(* exchange the tree it holds for another: the boot guard (db-guard.sh),    *)
(* which swaps in a staged reseed; the reseed stage, run in the live        *)
(* container; and the restore script, which stages a backup and swaps it in *)
(* (the init container on k8s, a container of its own on compose).          *)
(*                                                                         *)
(* PGDATA is a mount point and cannot be renamed, so a swap moves entries  *)
(* one by one under a marker.  Every step here is one file operation, and  *)
(* a container may be killed between any two.  A finished operation is     *)
(* taken as durable.                                                       *)
(***************************************************************************)
EXTENDS Naturals, FiniteSets

CONSTANTS
  Entry,         \* the entries of a database cluster's tree
  Version,       \* the one the scripts take as proof of a tree, PG_VERSION
  Id,            \* .vc-reseed-id, the attempt stamp in a staged reseed
  MaxAttempt,    \* bound: attempts, of reseed and restore together
  MaxKills,      \* bound: containers and pods killed, stagings lost
  None

\* Of a swap: the old tree moves out, then the new one in.
Phase == {"out", "in"}

ASSUME DataDirAssumption ==
  /\ Version \in Entry /\ Id \notin Entry
  /\ MaxAttempt \in Nat \ {0} /\ MaxKills \in Nat
  /\ None \notin Nat \cup Phase \cup [phase : Phase, id : Nat]

Attempt == 1 .. MaxAttempt
\* Tree 0 is what the volume held first; tree a is what attempt a staged.
Tree == 0 .. MaxAttempt
File == Tree \X (Entry \cup {Id})
Whole(t) == {t} \X Entry

\* PGDATA itself and the directories the scripts keep inside it: .vc-reseed,
\* .vc-discard, a retired cluster under .vc-discard, .vc-prev, .vc-restore.
Place == {"root", "stage", "discard", "retired", "prev", "restore"}

VARIABLES
  dir,       \* dir[p]: the files in place p
  ready,     \* .vc-reseed-ready: the attempt whose tree may swap in
  mark,      \* .vc-reseed-in-progress: the phase of a reseed swap
  done,      \* .vc-reseeded-from
  rmark,     \* .vc-restore-in-progress: the phase of a restore swap
  from,      \* .vc-restored-from
  tier,      \* "k8s" or "compose"
  intent,    \* the role the next container start reads
  secret,    \* k8s: the restore marker's attempt
  db,        \* the database container and its guard
  restorer,  \* the restore script
  stager,    \* the script exec'd in the live container
  kills      \* kills left

markers == <<ready, mark, done, rmark, from>>
disk == <<dir, markers>>
env == <<tier, intent, secret>>
dirVars == <<disk, env, db, restorer, stager, kills>>

DbState == {"gone", "stopped", "held", "guard", "clear", "out", "rollback", "unstage",
            "in", "unstamp", "finish", "refuse", "up"}
RestoreState == {"idle", "start", "clear", "fetch", "settle", "aside", "toprev",
                 "sweep", "movein", "drop", "record"}
StageState == {"idle", "clear", "copy", "undo"}
Idle == [pc |-> "idle", id |-> None]

TypeCorrect ==
  /\ dir \in [Place -> SUBSET File]
  /\ ready \in Attempt \cup {None} /\ done \in Attempt \cup {None}
  /\ mark \in [phase : Phase, id : Attempt] \cup {None}
  /\ rmark \in Phase \cup {None} /\ from \in Attempt \cup {None}
  /\ tier \in {"k8s", "compose"} /\ intent \in {"primary", "standby"}
  /\ secret \in Attempt \cup {None}
  /\ db \in DbState
  /\ restorer \in [pc : RestoreState, id : Attempt \cup {None}]
  /\ stager \in [pc : StageState, id : Attempt \cup {None}]
  /\ kills \in 0 .. MaxKills

-----------------------------------------------------------------------------
(* File operations.  mv and rm -rf take one entry at a time, in any order. *)

Cluster(p) == dir[p] \cap (Tree \X Entry)
Mv(p, q) ==
  \E f \in Cluster(p) : dir' = [dir EXCEPT ![p] = @ \ {f}, ![q] = @ \cup {f}]
Rm(p) == \E f \in dir[p] : dir' = [dir EXCEPT ![p] = @ \ {f}]
Empty(p) == dir[p] = {}
Add(p, f) == dir' = [dir EXCEPT ![p] = @ \cup {f}]
Proves(p) == \E t \in Tree : <<t, Version>> \in dir[p]
Staged == {a \in Attempt : <<a, Id>> \in dir["stage"]}

\* .vc-restore.lock, held by whichever script is past its flock.
Swapping == db \in {"clear", "out", "rollback", "unstage", "in", "unstamp", "finish", "refuse"}
Restoring == restorer.pc \notin {"idle", "start"}
Locked == Swapping \/ Restoring \/ stager.pc # "idle"

Boot(s) == db' = s

-----------------------------------------------------------------------------
(* db-guard.sh, every start of the database container.                     *)

\* The kubelet, or docker's restart policy.
Restarts ==
  /\ db = "stopped" /\ db' = "guard"
  /\ UNCHANGED <<disk, env, restorer, stager, kills>>

GuardUnchanged == UNCHANGED <<env, restorer, stager, kills>>
Pending == mark # None \/ ready # None

\* An interrupted restore, or the lock held by one: the container exits.
GuardExits ==
  /\ db = "guard"
  /\ rmark # None \/ (Pending /\ Locked)
  /\ Boot("stopped") /\ UNCHANGED disk /\ GuardUnchanged

GuardBoots ==
  /\ db = "guard" /\ rmark = None /\ ~Pending
  /\ Boot("up") /\ UNCHANGED disk /\ GuardUnchanged

\* A swap starts under the standby intent, with a tree that carries the
\* ready marker's attempt and proves itself; any other is refused.
SwappableAnyRole == ready # None /\ Staged = {ready} /\ Proves("stage")
Swappable == intent = "standby" /\ ready # None /\ Staged = {ready} /\ Proves("stage")
GuardChooses ==
  /\ db = "guard" /\ rmark = None /\ Pending /\ ~Locked
  /\ Boot(IF mark = None THEN IF Swappable THEN "clear" ELSE "refuse"
          ELSE IF mark.phase = "in" THEN "in"
          ELSE IF Proves("stage") THEN "out" ELSE "rollback")
  /\ UNCHANGED disk /\ GuardUnchanged

GuardRefuses ==
  /\ db = "refuse"
  /\ \/ Rm("stage") /\ UNCHANGED <<db, ready>>
     \/ Empty("stage") /\ Boot("up") /\ ready' = None /\ UNCHANGED dir
  /\ UNCHANGED <<mark, done, rmark, from>> /\ GuardUnchanged

\* An older discard goes first, then the marker, by rename.
GuardClears ==
  /\ db = "clear"
  /\ \/ (Rm("discard") \/ Rm("retired")) /\ UNCHANGED <<db, mark>>
     \/ /\ Empty("discard") /\ Empty("retired")
        /\ mark' = [phase |-> "out", id |-> ready] /\ Boot("out") /\ UNCHANGED dir
  /\ UNCHANGED <<ready, done, rmark, from>> /\ GuardUnchanged

GuardMovesOut ==
  /\ db = "out"
  /\ \/ Mv("root", "discard") /\ UNCHANGED <<db, mark>>
     \/ Empty("root") /\ mark' = [mark EXCEPT !.phase = "in"] /\ Boot("in") /\ UNCHANGED dir
  /\ UNCHANGED <<ready, done, rmark, from>> /\ GuardUnchanged

\* The staged tree lost its proof before anything of it moved in.
GuardRollsBack ==
  /\ db = "rollback"
  /\ \/ Mv("discard", "root") /\ UNCHANGED db
     \/ Empty("discard") /\ Boot("unstage") /\ UNCHANGED dir
  /\ UNCHANGED markers /\ GuardUnchanged

GuardUnstagesUnmarked ==
  /\ db = "unstage"
  /\ \/ Rm("stage") /\ UNCHANGED db
     \/ Empty("stage") /\ Boot("up") /\ UNCHANGED dir
  /\ UNCHANGED markers /\ GuardUnchanged
GuardUnstages ==
  /\ db = "unstage"
  /\ \/ Rm("stage") /\ UNCHANGED <<db, ready, mark>>
     \/ Empty("stage") /\ ready # None /\ ready' = None /\ UNCHANGED <<dir, db, mark>>
     \/ Empty("stage") /\ ready = None /\ mark' = None /\ Boot("up") /\ UNCHANGED <<dir, ready>>
  /\ UNCHANGED <<done, rmark, from>> /\ GuardUnchanged

GuardMovesInUnchecked ==
  /\ db = "in"
  /\ \/ Mv("stage", "root") /\ UNCHANGED db
     \/ Boot("unstamp") /\ UNCHANGED dir
  /\ UNCHANGED markers /\ GuardUnchanged
GuardMovesIn ==
  /\ db = "in"
  /\ \/ Mv("stage", "root") /\ UNCHANGED db
     \/ Cluster("stage") = {} /\ Boot("unstamp") /\ UNCHANGED dir
  /\ UNCHANGED markers /\ GuardUnchanged

\* rm -rf of the staging, the last proof, the record.
GuardUnstamps ==
  /\ db = "unstamp"
  /\ \/ Rm("stage") /\ UNCHANGED <<db, done>>
     \/ /\ Empty("stage") /\ UNCHANGED dir
        /\ IF Proves("root") THEN done' = mark.id /\ Boot("finish")
           ELSE done' = done /\ Boot("stopped")
  /\ UNCHANGED <<ready, mark, rmark, from>> /\ GuardUnchanged

GuardFinishes ==
  /\ db = "finish"
  /\ \/ ready # None /\ ready' = None /\ UNCHANGED <<db, mark>>
     \/ ready = None /\ mark' = None /\ Boot("up") /\ UNCHANGED ready
  /\ UNCHANGED <<dir, done, rmark, from>> /\ GuardUnchanged

Guard ==
  \/ GuardExits \/ GuardBoots \/ GuardChooses \/ GuardRefuses \/ GuardClears
  \/ GuardMovesOut \/ GuardRollsBack \/ GuardUnstages \/ GuardMovesIn
  \/ GuardUnstamps \/ GuardFinishes

-----------------------------------------------------------------------------
(* The reseed stage and the disarm, exec'd in the live container: they end *)
(* with it, not with the command that started them.                        *)

To(pc) == [stager EXCEPT !.pc = pc]
StageUnchanged == UNCHANGED <<mark, done, rmark, from, env, db, restorer, kills>>

StageClears ==
  /\ stager.pc = "clear"
  /\ \/ Rm("stage") /\ UNCHANGED stager
     \/ Empty("stage") /\ stager' = To("copy") /\ UNCHANGED dir
  /\ UNCHANGED ready /\ StageUnchanged

\* pg_basebackup, then the attempt stamp.
StageCopies ==
  /\ stager.pc = "copy"
  /\ \E e \in Entry \cup {Id} :
       /\ <<stager.id, e>> \notin dir["stage"]
       /\ e = Id => Whole(stager.id) \subseteq dir["stage"]
       /\ Add("stage", <<stager.id, e>>)
  /\ UNCHANGED <<ready, stager>> /\ StageUnchanged

\* The ready marker, last.
StageArms ==
  /\ stager.pc = "copy" /\ <<stager.id, Id>> \in dir["stage"]
  /\ ready' = stager.id /\ stager' = Idle
  /\ UNCHANGED dir /\ StageUnchanged

\* Out of reach, past the deadline, or no PG_VERSION.
StageFails ==
  /\ stager.pc = "copy" /\ <<stager.id, Id>> \notin dir["stage"]
  /\ stager' = To("undo") /\ UNCHANGED <<dir, ready>> /\ StageUnchanged

StageUndoes ==
  /\ stager.pc = "undo"
  /\ \/ Rm("stage") /\ UNCHANGED stager
     \/ Empty("stage") /\ stager' = Idle /\ UNCHANGED dir
  /\ UNCHANGED ready /\ StageUnchanged

Stage == StageClears \/ StageCopies \/ StageArms \/ StageFails \/ StageUndoes

-----------------------------------------------------------------------------
(* The restore script.  On k8s it runs in every new pod before the         *)
(* database container; on compose the restore command runs it.             *)

Restore(pc) == restorer' = [restorer EXCEPT !.pc = pc]
RestoreUnchanged == UNCHANGED <<env, stager, kills>>

PodStarts ==
  /\ db = "gone" /\ restorer.pc = "idle"
  /\ restorer' = [pc |-> "start", id |-> secret]
  /\ UNCHANGED <<disk, env, db, stager, kills>>

\* This attempt has already swapped in.
RestoredUnread == FALSE
Restored == tier = "k8s" /\ rmark = None /\ from = restorer.id

\* No restore asked for, or this one already swapped in: the pod boots, but
\* not over an interrupted swap.  A held lock is refused.
RestoreSkips ==
  /\ restorer.pc = "start" /\ (restorer.id = None \/ Restored \/ Locked)
  /\ restorer' = Idle
  /\ db' = IF rmark = None /\ (restorer.id = None \/ Restored) THEN "guard" ELSE db
  /\ UNCHANGED disk /\ RestoreUnchanged

RestoreLocks ==
  /\ restorer.pc = "start" /\ restorer.id # None /\ ~Restored /\ ~Locked
  /\ Restore("clear") /\ UNCHANGED <<disk, db>> /\ RestoreUnchanged

RestoreClears ==
  /\ restorer.pc = "clear"
  /\ \/ Rm("restore") /\ UNCHANGED restorer
     \/ Empty("restore") /\ Restore("fetch") /\ UNCHANGED dir
  /\ UNCHANGED <<markers, db>> /\ RestoreUnchanged

RestoreFetches ==
  /\ restorer.pc = "fetch"
  /\ \/ \E e \in Entry :
          /\ <<restorer.id, e>> \notin dir["restore"]
          /\ Add("restore", <<restorer.id, e>>) /\ UNCHANGED restorer
     \/ Whole(restorer.id) \subseteq dir["restore"] /\ Restore("settle") /\ UNCHANGED dir
  /\ UNCHANGED <<markers, db>> /\ RestoreUnchanged

\* The fetch failed: its staging goes and the script exits.
RestoreFails ==
  /\ restorer.pc = "fetch" /\ ~(Whole(restorer.id) \subseteq dir["restore"])
  /\ kills > 0 /\ kills' = kills - 1
  /\ dir' = [dir EXCEPT !["restore"] = {}] /\ restorer' = Idle
  /\ UNCHANGED <<markers, db, env, stager>>

\* What PGDATA holds: an unproven copy, a live cluster half moved, or a live
\* one.
Root ==
  IF rmark # None THEN IF rmark = "in" THEN "unproven" ELSE "half-out"
  ELSE IF ~Empty("prev") \/ mark # None THEN "unproven" ELSE "live"

\* The case statement after the settle.
SettleUnmarked ==
  CASE Root = "unproven" -> rmark' = "in" /\ Restore("aside")
    [] Root = "half-out" \/ ~Empty("root") -> rmark' = rmark /\ Restore("toprev")
    [] OTHER -> rmark' = "in" /\ Restore("sweep")
Settle ==
  CASE Root = "unproven" -> rmark' = "in" /\ Restore("aside")
    [] Root = "half-out" -> rmark' = rmark /\ Restore("toprev")
    [] Root = "live" /\ ~Empty("root") -> rmark' = "out" /\ Restore("toprev")
    [] OTHER -> rmark' = "in" /\ Restore("sweep")
RestoreSettles ==
  /\ restorer.pc = "settle"
  /\ \/ (Rm("discard") \/ Rm("retired")) /\ UNCHANGED <<restorer, rmark>>
     \/ Empty("discard") /\ Empty("retired") /\ Settle /\ UNCHANGED dir
  /\ UNCHANGED <<ready, mark, done, from, db>> /\ RestoreUnchanged

RestoreSetsAside ==
  /\ restorer.pc = "aside"
  /\ \/ Mv("root", "discard") /\ UNCHANGED restorer
     \/ Empty("root") /\ Restore("sweep") /\ UNCHANGED dir
  /\ UNCHANGED <<markers, db>> /\ RestoreUnchanged

RestoreKeepsOld ==
  /\ restorer.pc = "toprev"
  /\ \/ Mv("root", "prev") /\ UNCHANGED <<restorer, rmark>>
     \/ Empty("root") /\ rmark' = "in" /\ Restore("sweep") /\ UNCHANGED dir
  /\ UNCHANGED <<ready, mark, done, from, db>> /\ RestoreUnchanged

\* Whatever a reseed left goes, under this swap's marker, in this order.
RestoreSweeps ==
  /\ restorer.pc = "sweep"
  /\ \/ Rm("stage") /\ UNCHANGED <<restorer, ready, mark>>
     \/ Empty("stage") /\ ready # None /\ ready' = None /\ UNCHANGED <<dir, restorer, mark>>
     \/ /\ Empty("stage") /\ ready = None
        /\ mark' = None /\ Restore("movein") /\ UNCHANGED <<dir, ready>>
  /\ UNCHANGED <<done, rmark, from, db>> /\ RestoreUnchanged

RestoreMovesIn ==
  /\ restorer.pc = "movein"
  /\ \/ Mv("restore", "root") /\ UNCHANGED restorer
     \/ Empty("restore") /\ Restore("drop") /\ UNCHANGED dir
  /\ UNCHANGED <<markers, db>> /\ RestoreUnchanged

\* The unproven copy goes, then the attempt is recorded, then the marker goes.
RestoreDrops ==
  /\ restorer.pc = "drop"
  /\ \/ Rm("discard") /\ UNCHANGED <<restorer, from>>
     \/ /\ Empty("discard")
        /\ from' = restorer.id
        /\ Restore("record") /\ UNCHANGED dir
  /\ UNCHANGED <<ready, mark, done, rmark, db>> /\ RestoreUnchanged

RestoreFinishes ==
  /\ restorer.pc = "record"
  /\ rmark' = None /\ Restore("idle")
  /\ db' = IF tier = "k8s" THEN "guard" ELSE db
  /\ UNCHANGED <<dir, ready, mark, done, from>> /\ RestoreUnchanged

RestoreScript ==
  \/ RestoreSkips \/ RestoreLocks \/ RestoreClears \/ RestoreFetches
  \/ RestoreFails \/ RestoreSettles \/ RestoreSetsAside \/ RestoreKeepsOld
  \/ RestoreSweeps \/ RestoreMovesIn \/ RestoreDrops \/ RestoreFinishes

-----------------------------------------------------------------------------
(* Kills.  A container that ends takes the scripts exec'd in it along.     *)

KillDb ==
  /\ db \notin {"gone", "stopped", "held"}
  /\ db' = "stopped" /\ stager' = Idle
  /\ UNCHANGED <<disk, env, restorer>>

\* The pod, with whichever container of it runs.
KillPod ==
  /\ tier = "k8s" /\ db' = "gone" /\ restorer' = Idle /\ stager' = Idle
  /\ UNCHANGED <<disk, env>>

\* compose: the restore's own container.
KillRestore ==
  /\ tier = "compose" /\ restorer.pc # "idle" /\ restorer' = Idle
  /\ UNCHANGED <<disk, env, db, stager>>

\* The staging is lost while the container is down, with the old tree still
\* on its way out: what the guard rolls back from.
LoseStage ==
  /\ db = "stopped" /\ mark # None /\ mark.phase = "out"
  /\ dir' = [dir EXCEPT !["stage"] = @ \ (Tree \X {Version})]
  /\ UNCHANGED <<markers, env, db, restorer, stager>>

Faults == /\ kills > 0 /\ kills' = kills - 1
          /\ KillDb \/ KillPod \/ KillRestore \/ LoseStage

Scripts == Restarts \/ Guard \/ Stage \/ PodStarts \/ RestoreScript \/ Faults
=============================================================================
