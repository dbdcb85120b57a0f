--------------------------- MODULE DataDirProofs ---------------------------
(***************************************************************************)
(* Wherever the guard, the stage and the restore script are killed, and    *)
(* for any set of entries, postgres boots one whole tree and the database  *)
(* last proven is never lost.  The invariant has two halves: which script  *)
(* may run beside which marker (Orderly, Alone), and where the trees are   *)
(* (Data): under a marker, one tree in two places.                         *)
(* The order attempts are issued in (Ordered) then says that swaps only go *)
(* forward, and that the directories make one volume of DataVolume's.      *)
(* Assumed: no role moves while a pod is down or a restore is unfinished,  *)
(* and nothing starts the database beside a restore container left over.   *)
(***************************************************************************)
EXTENDS DataDirSystem, Integers, TLAPS

\* Where a script or a command is, and the markers it holds there.
Orderly ==
  /\ db = "clear" => ready # None
  /\ db \in {"clear", "refuse"} => mark = None
  /\ db \in {"out", "rollback", "unstage"} => mark # None /\ mark.phase = "out"
  /\ db \in {"in", "unstamp", "finish"} => mark # None /\ mark.phase = "in"
  /\ stager.pc # "idle" => stager.id # None
  /\ Restoring => restorer.id # None
  /\ restorer.pc = "toprev" => rmark = "out"
  /\ restorer.pc \in {"aside", "sweep", "movein", "drop", "record"} => rmark = "in"
  /\ cli.op # "none" => cli.id # None
  /\ cli.op = "restore" => cli.step \notin {"stage", "staging", "check", "discard", "failed"}
  /\ cli.op = "reseed" =>
       cli.step \notin {"bounce", "run", "stuck", "probe", "start", "prove", "retire", "unmark",
                        "clean", "sweep"}
  /\ cli.op = "restore" /\ cli.step \in {"stop", "run", "stuck", "probe", "start", "prove"} =>
       tier = "compose"
  /\ cli.op = "restore" /\ cli.step \in {"bounce", "unmark", "sweep"} => tier = "k8s"
  /\ restorer.pc # "idle" /\ tier = "compose" => restorer.id # None

\* One of a volume's scripts runs at a time: the restore script where no
\* database container does, the stage in a container that swaps nothing, a
\* reseed swap only on a standby and a restore only on a primary.
Alone ==
  /\ restorer.pc # "idle" => IF tier = "k8s" THEN db = "gone" ELSE db = "held"
  /\ At("restore", "run") \/ (At("restore", "wait") /\ tier = "compose") => db = "held"
  /\ At("restore", "probe") \/ At("restore", "start") => restorer.pc = "idle"
  /\ stager.pc # "idle" =>
       ready = None /\ mark = None /\ rmark = None /\ Running /\ ~Swapping
  /\ tier = "compose" => db # "gone"
  /\ db = "up" \/ Swapping => rmark = None
  /\ db = "up" => mark = None
  /\ mark # None \/ db = "clear" => intent = "standby"
  /\ tier = "k8s" /\ db # "gone" => rmark = None
  /\ tier = "compose" /\ cli.op = "restore" /\ cli.step \in {"retire", "clean"} =>
       rmark = None /\ restorer.pc = "idle"
  /\ stager.pc # "idle" \/ cli.op = "reseed" => tier = "k8s"
  /\ cli.op = "reseed" => intent = "standby"
  /\ cli.op = "restore" => intent = "primary"
  /\ intent = "standby" =>
       /\ tier = "k8s" /\ secret = None /\ rmark = None
       /\ restorer.pc # "idle" => restorer = [pc |-> "start", id |-> None]

\* A fresh volume waits for its first restore; any other that no swap is open
\* on holds one whole tree.
Fresh ==
  /\ dir["root"] = {} /\ db = "gone" /\ secret # None /\ from = None
  /\ restorer.pc = "idle" \/ restorer.id # None
  /\ cli.step \notin {"retire", "unmark", "clean", "sweep"}
HoldsOne == \E t \in Tree : dir["root"] = Whole(t)
Settled == mark = None /\ rmark = None => HoldsOne \/ Fresh

\* A staged tree that may swap in is whole and stamped, and in a swap under way
\* the tree on its way out, then the one on its way in, is in two places.
Stamped(a) == {a} \X (Entry \cup {Id})
OneMovesOut == \E t \in Tree : dir["root"] \cup dir["discard"] = Whole(t)
ReseedWhole ==
  /\ mark # None /\ mark.phase = "out" =>
       /\ OneMovesOut
       /\ Proves("stage") => Cluster("stage") = Whole(mark.id)
       /\ db = "unstage" => dir["discard"] = {}
       /\ db \in {"rollback", "unstage"} => ~Proves("stage")
       /\ db = "out" => Proves("stage")
  /\ mark # None /\ mark.phase = "in" =>
       /\ dir["root"] \cup Cluster("stage") = Whole(mark.id)
       /\ db \in {"unstamp", "finish"} => Cluster("stage") = {}
  /\ ready # None /\ mark = None /\ rmark = None /\ (intent = "standby" \/ db = "up") =>
       dir["stage"] = Stamped(ready)
  /\ db = "refuse" => intent = "primary"
  /\ stager.pc = "copy" =>
       /\ dir["stage"] \subseteq Stamped(stager.id)
       /\ <<stager.id, Id>> \in dir["stage"] => dir["stage"] = Stamped(stager.id)

\* A restored tree is whole before it moves, and then in two places.
RestoreWhole ==
  /\ restorer.pc = "fetch" => dir["restore"] \subseteq Whole(restorer.id)
  /\ restorer.pc \in {"settle", "aside", "toprev", "sweep"} =>
       dir["restore"] = Whole(restorer.id)
  /\ restorer.pc = "sweep" => dir["root"] = {}
  /\ restorer.pc = "movein" => dir["root"] \cup dir["restore"] = Whole(restorer.id)
  /\ restorer.pc \in {"drop", "record"} => dir["root"] = Whole(restorer.id)

\* Where the scripts look for the database last proven on the volume.
Kept ==
  /\ intent = "standby" => dir["prev"] = {}
  /\ good # None =>
       IF mark # None THEN Whole(good) \subseteq dir["root"] \cup dir["discard"]
       ELSE IF rmark = "out" THEN Whole(good) \subseteq dir["root"] \cup dir["prev"]
       ELSE IF rmark = "in" \/ dir["prev"] # {} THEN Whole(good) \subseteq dir["prev"]
       ELSE dir["root"] = Whole(good)

Data == Settled /\ ReseedWhole /\ RestoreWhole /\ Kept
Inv == TypeOK /\ Orderly /\ Alone /\ Data

-----------------------------------------------------------------------------
(* File operations, whole trees, and what a script's step leaves of the    *)
(* command.                                                                *)

LEMMA FileOps ==
  ASSUME TypeOK, NEW p \in Place, NEW q \in Place
  PROVE  /\ Rm(p) => dir' \in [Place -> SUBSET File]
         /\ Mv(p, q) => dir' \in [Place -> SUBSET File]
         /\ \A f \in File : Add(p, f) => dir' \in [Place -> SUBSET File]
<1>1. dir \in [Place -> SUBSET File] /\ dir[p] \subseteq File /\ Cluster(p) \subseteq File
  BY DEF TypeOK, TypeCorrect, Cluster
<1>2. Rm(p) => dir' \in [Place -> SUBSET File]
  <2>1. \A f \in File : [dir EXCEPT ![p] = @ \ {f}] \in [Place -> SUBSET File]
    BY <1>1
  <2> QED
    BY <1>1, <2>1 DEF Rm
<1>4. \A f \in File : Add(p, f) => dir' \in [Place -> SUBSET File]
  <2> SUFFICES ASSUME NEW f \in File PROVE [dir EXCEPT ![p] = @ \cup {f}] \in [Place -> SUBSET File]
    BY DEF Add
  <2>1. dir[p] \cup {f} \in SUBSET File
    BY <1>1
  <2> QED
    BY <1>1, <2>1
<1>3. Mv(p, q) => dir' \in [Place -> SUBSET File]
  <2> SUFFICES ASSUME NEW f \in Cluster(p)
               PROVE  [dir EXCEPT ![p] = @ \ {f}, ![q] = @ \cup {f}] \in [Place -> SUBSET File]
    BY DEF Mv
  <2> DEFINE d == [dir EXCEPT ![p] = @ \ {f}]
  <2>1. f \in File /\ d \in [Place -> SUBSET File]
    BY <1>1
  <2>2. d[q] \cup {f} \in SUBSET File
    BY <2>1
  <2>3. [d EXCEPT ![q] = @ \cup {f}] \in [Place -> SUBSET File]
    BY <2>1, <2>2
  <2> QED
    BY <2>3
<1> QED
  BY <1>2, <1>3, <1>4

\* What a script's step leaves of the command.
LEMMA Watched ==
  ASSUME TypeOK, Watch
  PROVE  /\ cli' \in [op : {"none", "reseed", "restore"}, step : Step,
                      id : Attempt \cup {None}, same : BOOLEAN]
         /\ issued' \in 0 .. MaxAttempt /\ good' \in Tree \cup {None}
         /\ cli'.op = cli.op /\ cli'.step = cli.step /\ cli'.id = cli.id
<1>1. cli \in [op : {"none", "reseed", "restore"}, step : Step, id : Attempt \cup {None}, same : BOOLEAN]
  BY DEF TypeOK
<1>2. cli' = [cli EXCEPT !.same = FALSE] \/ cli' = cli
  BY DEF Watch
<1>3. good' \in Tree \cup {None}
  BY DataDirAssumption DEF TypeOK, TypeCorrect, Watch, Attempt, Tree
<1>4. issued' \in 0 .. MaxAttempt
  BY DEF TypeOK, Watch
<1> QED
  BY <1>1, <1>2, <1>3, <1>4

LEMMA Trees ==
  /\ \A t \in Tree : /\ <<t, Version>> \in Whole(t) /\ Whole(t) \subseteq File
                    /\ Whole(t) \subseteq Tree \X Entry
  /\ \A s, t \in Tree : Whole(s) \subseteq Whole(t) => s = t
<1>1. \A t \in Tree : <<t, Version>> \in Whole(t)
  BY DataDirAssumption DEF Whole
<1>2. \A t \in Tree : Whole(t) \subseteq File /\ Whole(t) \subseteq Tree \X Entry
  BY DEF Whole, File
<1>3. ASSUME NEW s \in Tree, NEW t \in Tree, Whole(s) \subseteq Whole(t)
      PROVE  s = t
  BY <1>1, <1>3 DEF Whole
<1> QED
  BY <1>1, <1>2, <1>3

LEMMA Stamps ==
  \A a \in Attempt : /\ Stamped(a) \cap (Tree \X Entry) = Whole(a)
                     /\ <<a, Version>> \in Stamped(a)
                     /\ \A b \in Attempt : <<b, Id>> \in Stamped(a) <=> b = a
<1> SUFFICES ASSUME NEW a \in Attempt
             PROVE  /\ Stamped(a) \cap (Tree \X Entry) = Whole(a)
                    /\ <<a, Version>> \in Stamped(a)
                    /\ \A b \in Attempt : <<b, Id>> \in Stamped(a) <=> b = a
  OBVIOUS
<1>0. a \in Tree
  BY DataDirAssumption DEF Attempt, Tree
<1>1. \A f \in Tree \X Entry : f \in Stamped(a) <=> f \in Whole(a)
  BY DataDirAssumption DEF Stamped, Whole
<1>2. Whole(a) \subseteq Tree \X Entry
  BY <1>0 DEF Whole
<1>3. <<a, Version>> \in Stamped(a)
  BY DataDirAssumption DEF Stamped
<1>4. \A b \in Attempt : <<b, Id>> \in Stamped(a) <=> b = a
  BY DEF Stamped
<1> QED
  BY <1>1, <1>2, <1>3, <1>4

LEMMA Added ==
  ASSUME dir \in [Place -> SUBSET File], NEW p \in Place, NEW f, Add(p, f)
  PROVE  dir'[p] = dir[p] \cup {f} /\ \A q \in Place \ {p} : dir'[q] = dir[q]
BY DEF Add

LEMMA StampedProves ==
  ASSUME NEW a \in Attempt, dir["stage"] = Stamped(a)
  PROVE  Staged = {a} /\ Proves("stage") /\ Cluster("stage") = Whole(a)
<1>1. a \in Tree
  BY DataDirAssumption DEF Attempt, Tree
<1>2. Staged = {a}
  <2>1. \A b \in Attempt : <<b, Id>> \in dir["stage"] <=> b = a
    BY Stamps
  <2> QED
    BY <2>1 DEF Staged
<1>3. Proves("stage")
  BY <1>1, Stamps DEF Proves
<1>4. Cluster("stage") = Whole(a)
  BY Stamps DEF Cluster
<1> QED
  BY <1>2, <1>3, <1>4

LEMMA Removed ==
  ASSUME dir \in [Place -> SUBSET File], NEW p \in Place, Rm(p)
  PROVE  \E f \in dir[p] : /\ dir'[p] = dir[p] \ {f}
                           /\ \A q \in Place \ {p} : dir'[q] = dir[q]
BY DEF Rm

LEMMA Moved ==
  ASSUME dir \in [Place -> SUBSET File], NEW p \in Place, NEW q \in Place \ {p}, Mv(p, q)
  PROVE  \E f \in Cluster(p) :
           /\ dir'[p] = dir[p] \ {f} /\ dir'[q] = dir[q] \cup {f}
           /\ \A r \in Place \ {p, q} : dir'[r] = dir[r]
BY DEF Mv

-----------------------------------------------------------------------------
(* The boot guard.                                                         *)

LEMMA GuardTyped ==
  ASSUME ~RoleMovesAnytime, ~Orphans, Inv, Guard, Watch
  PROVE  TypeCorrect'
<1>a. dir \in [Place -> SUBSET File]
  BY DEF Inv, TypeOK, TypeCorrect
<1>d. dir' \in [Place -> SUBSET File]
  <2> USE DEF Inv, Place, Restoring, disk, dirVars, cliVars, GuardUnchanged, StageUnchanged,
         RestoreUnchanged, markers, env, cliVars
  <2>1. CASE UNCHANGED dir
    BY <2>1, <1>a
  <2>2. CASE GuardRefuses
    BY <2>2, <1>a, FileOps DEF GuardRefuses
  <2>3. CASE GuardClears
    BY <2>3, <1>a, FileOps DEF GuardClears
  <2>4. CASE GuardMovesOut
    BY <2>4, <1>a, FileOps DEF GuardMovesOut
  <2>5. CASE GuardRollsBack
    BY <2>5, <1>a, FileOps DEF GuardRollsBack
  <2>6. CASE GuardUnstages
    BY <2>6, <1>a, FileOps DEF GuardUnstages
  <2>7. CASE GuardMovesIn
    BY <2>7, <1>a, FileOps DEF GuardMovesIn
  <2>8. CASE GuardUnstamps
    BY <2>8, <1>a, FileOps DEF GuardUnstamps
  <2> QED
    BY <2>1, <2>2, <2>3, <2>4, <2>5, <2>6, <2>7, <2>8 DEF Guard, GuardExits, GuardBoots, GuardChooses, GuardFinishes
<1> USE DataDirAssumption, SystemAssumption
    DEF Boot, Idle, To, Restore, GuardUnchanged, StageUnchanged, RestoreUnchanged, disk, markers,
       env, dirVars, cliVars, At, Goto, Issue, Running, Off, Done,
       Inv, TypeOK, TypeCorrect, Orderly, Restoring, Phase, DbState, RestoreState, StageState,
       Step, Attempt, Tree
<1>1. CASE GuardExits
  BY <1>1, <1>d DEF GuardExits, Pending
<1>2. CASE GuardBoots
  BY <1>2, <1>d DEF GuardBoots, Pending
<1>3. CASE GuardChooses
  BY <1>3, <1>d DEF GuardChooses, Swappable, Locked
<1>4. CASE GuardRefuses
  BY <1>4, <1>d DEF GuardRefuses
<1>5. CASE GuardClears
  BY <1>5, <1>d DEF GuardClears
<1>6. CASE GuardMovesOut
  BY <1>6, <1>d DEF GuardMovesOut
<1>7. CASE GuardRollsBack
  BY <1>7, <1>d DEF GuardRollsBack
<1>8. CASE GuardUnstages
  BY <1>8, <1>d DEF GuardUnstages
<1>9. CASE GuardMovesIn
  BY <1>9, <1>d DEF GuardMovesIn
<1>10. CASE GuardUnstamps
  BY <1>10, <1>d DEF GuardUnstamps
<1>11. CASE GuardFinishes
  BY <1>11, <1>d DEF GuardFinishes
<1> QED
  BY <1>1, <1>2, <1>3, <1>4, <1>5, <1>6, <1>7, <1>8, <1>9, <1>10, <1>11 DEF Guard

LEMMA GuardControl ==
  ASSUME ~RoleMovesAnytime, ~Orphans, Inv, Guard, Watch
  PROVE  Orderly' /\ Alone'
<1>w. /\ cli'.op = cli.op /\ cli'.step = cli.step /\ cli'.id = cli.id
  BY Watched DEF Inv
<1> USE DataDirAssumption, SystemAssumption
    DEF Boot, Idle, To, Restore, GuardUnchanged, StageUnchanged, RestoreUnchanged, disk, markers,
       env, dirVars, cliVars, At, Goto, Issue, Running, Off, Done,
       Inv, TypeOK, TypeCorrect, Orderly, Alone, Restoring, Swapping, Phase, Attempt
<1>1. CASE GuardExits
  BY <1>1, <1>w DEF GuardExits, Pending
<1>2. CASE GuardBoots
  BY <1>2, <1>w DEF GuardBoots, Pending
<1>3. CASE GuardChooses
  BY <1>3, <1>w DEF GuardChooses, Swappable, Locked
<1>4. CASE GuardRefuses
  BY <1>4, <1>w DEF GuardRefuses
<1>5. CASE GuardClears
  BY <1>5, <1>w DEF GuardClears
<1>6. CASE GuardMovesOut
  BY <1>6, <1>w DEF GuardMovesOut
<1>7. CASE GuardRollsBack
  BY <1>7, <1>w DEF GuardRollsBack
<1>8. CASE GuardUnstages
  BY <1>8, <1>w DEF GuardUnstages
<1>9. CASE GuardMovesIn
  BY <1>9, <1>w DEF GuardMovesIn
<1>10. CASE GuardUnstamps
  BY <1>10, <1>w DEF GuardUnstamps
<1>11. CASE GuardFinishes
  BY <1>11, <1>w DEF GuardFinishes
<1> QED
  BY <1>1, <1>2, <1>3, <1>4, <1>5, <1>6, <1>7, <1>8, <1>9, <1>10, <1>11 DEF Guard

LEMMA GuardData ==
  ASSUME ~RoleMovesAnytime, ~Orphans, Inv, Guard, Watch
  PROVE  Data'
<1>a. dir \in [Place -> SUBSET File]
  BY DEF Inv, TypeOK, TypeCorrect
<1>w. /\ cli'.op = cli.op /\ cli'.step = cli.step /\ cli'.id = cli.id
      /\ good' = IF db = "finish" /\ mark # None /\ mark' = None THEN mark.id ELSE good
  BY Watched DEF Watch, Inv
<1> USE DataDirAssumption, SystemAssumption
    DEF Boot, Idle, To, Restore, GuardUnchanged, StageUnchanged, RestoreUnchanged, disk, markers,
       env, dirVars, cliVars, At, Goto, Issue, Running, Off, Done,
       Inv, Data, TypeOK, TypeCorrect, Orderly, Alone, Restoring, Swapping, Place, Empty,
       Phase, Attempt, Tree
<1>1. CASE GuardExits
  BY <1>1, <1>w, Trees
  DEF GuardExits, Pending, Settled, HoldsOne, Fresh, ReseedWhole, OneMovesOut, Proves, Cluster,
         RestoreWhole, Kept
<1>2. CASE GuardBoots
  BY <1>2, <1>w, Trees
  DEF GuardBoots, Pending, Settled, HoldsOne, Fresh, ReseedWhole, OneMovesOut, Proves, Cluster,
         RestoreWhole, Kept
<1>3. CASE GuardChooses
  <2>1. Settled'
    BY <1>3, <1>w, Trees DEF GuardChooses, Swappable, Locked, Settled, HoldsOne, Fresh
  <2>2. ReseedWhole'
    <3>1. /\ db = "guard" /\ rmark = None /\ Pending /\ stager.pc = "idle"
          /\ UNCHANGED <<disk, env, stager>>
      BY <1>3 DEF GuardChooses, Locked
    <3>2. ASSUME mark = None, intent = "standby" PROVE Swappable
      <4>1. dir["stage"] = Stamped(ready) /\ ready \in Attempt
        BY <3>1, <3>2 DEF ReseedWhole, Pending
      <4> QED
        BY <3>1, <3>2, <4>1, StampedProves DEF Swappable, Pending
    <3>3. /\ db' = "refuse" => intent = "primary"
          /\ db' = "out" => Proves("stage")
          /\ db' \in {"rollback", "unstage"} => ~Proves("stage")
          /\ db' \notin {"unstage", "unstamp", "finish", "up"}
      BY <1>3, <3>2 DEF GuardChooses
    <3> QED
      BY <3>1, <3>3 DEF ReseedWhole, OneMovesOut, Proves, Cluster
  <2>3. RestoreWhole'
    BY <1>3, <1>w, Trees DEF GuardChooses, Swappable, Locked, RestoreWhole
  <2>4. Kept'
    BY <1>3, <1>w, Trees DEF GuardChooses, Swappable, Locked, Kept
  <2> QED
    BY <2>1, <2>2, <2>3, <2>4
<1>4. CASE GuardRefuses
  <2>1. Settled'
    <3>1. CASE Rm("stage")
      BY <1>4, <1>w, Trees, <1>a, <3>1, Removed DEF GuardRefuses, Settled, HoldsOne, Fresh
    <3>2. CASE ~Rm("stage")
      BY <1>4, <1>w, Trees, <3>2 DEF GuardRefuses, Settled, HoldsOne, Fresh
    <3> QED
      BY <3>1, <3>2
  <2>2. ReseedWhole'
    <3>1. CASE Rm("stage")
      BY <1>4, <1>w, Trees, <1>a, <3>1, Removed DEF GuardRefuses, ReseedWhole, OneMovesOut, Proves, Cluster
    <3>2. CASE ~Rm("stage")
      BY <1>4, <1>w, Trees, <3>2 DEF GuardRefuses, ReseedWhole, OneMovesOut, Proves, Cluster
    <3> QED
      BY <3>1, <3>2
  <2>3. RestoreWhole'
    <3>1. CASE Rm("stage")
      BY <1>4, <1>w, Trees, <1>a, <3>1, Removed DEF GuardRefuses, RestoreWhole
    <3>2. CASE ~Rm("stage")
      BY <1>4, <1>w, Trees, <3>2 DEF GuardRefuses, RestoreWhole
    <3> QED
      BY <3>1, <3>2
  <2>4. Kept'
    <3>1. CASE Rm("stage")
      BY <1>4, <1>w, Trees, <1>a, <3>1, Removed DEF GuardRefuses, Kept
    <3>2. CASE ~Rm("stage")
      BY <1>4, <1>w, Trees, <3>2 DEF GuardRefuses, Kept
    <3> QED
      BY <3>1, <3>2
  <2> QED
    BY <2>1, <2>2, <2>3, <2>4
<1>5. CASE GuardClears
  <2>1. Settled'
    <3>1. CASE Rm("discard")
      BY <1>5, <1>w, Trees, <1>a, <3>1, Removed DEF GuardClears, Settled, HoldsOne, Fresh
    <3>2. CASE Rm("retired")
      BY <1>5, <1>w, Trees, <1>a, <3>2, Removed DEF GuardClears, Settled, HoldsOne, Fresh
    <3>3. CASE ~Rm("discard") /\ ~Rm("retired")
      BY <1>5, <1>w, Trees, <3>3 DEF GuardClears, Settled, HoldsOne, Fresh
    <3> QED
      BY <3>1, <3>2, <3>3
  <2>2. ReseedWhole'
    <3>1. CASE Rm("discard")
      BY <1>5, <1>w, Trees, <1>a, <3>1, Removed DEF GuardClears, ReseedWhole, OneMovesOut, Proves, Cluster
    <3>2. CASE Rm("retired")
      BY <1>5, <1>w, Trees, <1>a, <3>2, Removed DEF GuardClears, ReseedWhole, OneMovesOut, Proves, Cluster
    <3>3. CASE ~Rm("discard") /\ ~Rm("retired")
      <4>1. /\ dir["discard"] = {} /\ mark' = [phase |-> "out", id |-> ready] /\ db' = "out"
            /\ UNCHANGED <<dir, ready, stager>> /\ db = "clear"
        BY <1>5, <3>3 DEF GuardClears
      <4>2. HoldsOne /\ dir["stage"] = Stamped(ready) /\ ready \in Attempt /\ stager.pc = "idle"
        BY <4>1 DEF Settled, Fresh, ReseedWhole
      <4>3. Cluster("stage") = Whole(ready) /\ Proves("stage")
        BY <4>2, StampedProves
      <4>4. mark' # None
        BY <4>1, <4>2
      <4> QED
        BY <4>1, <4>2, <4>3, <4>4 DEF ReseedWhole, OneMovesOut, HoldsOne, Proves, Cluster
    <3> QED
      BY <3>1, <3>2, <3>3
  <2>3. RestoreWhole'
    <3>1. CASE Rm("discard")
      BY <1>5, <1>w, Trees, <1>a, <3>1, Removed DEF GuardClears, RestoreWhole
    <3>2. CASE Rm("retired")
      BY <1>5, <1>w, Trees, <1>a, <3>2, Removed DEF GuardClears, RestoreWhole
    <3>3. CASE ~Rm("discard") /\ ~Rm("retired")
      BY <1>5, <1>w, Trees, <3>3 DEF GuardClears, RestoreWhole
    <3> QED
      BY <3>1, <3>2, <3>3
  <2>4. Kept'
    <3>1. CASE Rm("discard")
      BY <1>5, <1>w, Trees, <1>a, <3>1, Removed DEF GuardClears, Kept
    <3>2. CASE Rm("retired")
      BY <1>5, <1>w, Trees, <1>a, <3>2, Removed DEF GuardClears, Kept
    <3>3. CASE ~Rm("discard") /\ ~Rm("retired")
      BY <1>5, <1>w, Trees, <3>3 DEF GuardClears, Kept
    <3> QED
      BY <3>1, <3>2, <3>3
  <2> QED
    BY <2>1, <2>2, <2>3, <2>4
<1>6. CASE GuardMovesOut
  <2>1. Settled'
    <3>1. CASE Mv("root", "discard")
      BY <1>6, <1>w, Trees, <1>a, <3>1, Moved DEF GuardMovesOut, Settled, HoldsOne, Fresh
    <3>2. CASE ~Mv("root", "discard")
      BY <1>6, <1>w, Trees, <3>2 DEF GuardMovesOut, Settled, HoldsOne, Fresh
    <3> QED
      BY <3>1, <3>2
  <2>2. ReseedWhole'
    <3>1. CASE Mv("root", "discard")
      <4>1. /\ dir'["root"] \cup dir'["discard"] = dir["root"] \cup dir["discard"]
            /\ dir'["stage"] = dir["stage"]
        BY <1>a, <3>1, Moved DEF Cluster
      <4>2. /\ db' = db /\ mark' = mark /\ mark # None /\ mark.phase = "out" /\ stager.pc = "idle"
            /\ db = "out" /\ stager' = stager
        BY <1>6, <3>1 DEF GuardMovesOut, Mv, Cluster, Empty
      <4> QED
        BY <4>1, <4>2 DEF ReseedWhole, OneMovesOut, Proves, Cluster
    <3>2. CASE ~Mv("root", "discard")
      BY <1>6, <1>w, Trees, <3>2 DEF GuardMovesOut, ReseedWhole, OneMovesOut, Proves, Cluster
    <3> QED
      BY <3>1, <3>2
  <2>3. RestoreWhole'
    <3>1. CASE Mv("root", "discard")
      BY <1>6, <1>w, Trees, <1>a, <3>1, Moved DEF GuardMovesOut, RestoreWhole
    <3>2. CASE ~Mv("root", "discard")
      BY <1>6, <1>w, Trees, <3>2 DEF GuardMovesOut, RestoreWhole
    <3> QED
      BY <3>1, <3>2
  <2>4. Kept'
    <3>1. CASE Mv("root", "discard")
      BY <1>6, <1>w, Trees, <1>a, <3>1, Moved DEF GuardMovesOut, Kept
    <3>2. CASE ~Mv("root", "discard")
      BY <1>6, <1>w, Trees, <3>2 DEF GuardMovesOut, Kept
    <3> QED
      BY <3>1, <3>2
  <2> QED
    BY <2>1, <2>2, <2>3, <2>4
<1>7. CASE GuardRollsBack
  <2>1. Settled'
    <3>1. CASE Mv("discard", "root")
      BY <1>7, <1>w, Trees, <1>a, <3>1, Moved DEF GuardRollsBack, Settled, HoldsOne, Fresh
    <3>2. CASE ~Mv("discard", "root")
      BY <1>7, <1>w, Trees, <3>2 DEF GuardRollsBack, Settled, HoldsOne, Fresh
    <3> QED
      BY <3>1, <3>2
  <2>2. ReseedWhole'
    <3>1. CASE Mv("discard", "root")
      <4>1. /\ dir'["root"] \cup dir'["discard"] = dir["root"] \cup dir["discard"]
            /\ dir'["stage"] = dir["stage"]
        BY <1>a, <3>1, Moved DEF Cluster
      <4>2. /\ db' = db /\ mark' = mark /\ mark # None /\ mark.phase = "out" /\ stager.pc = "idle"
            /\ db = "rollback" /\ stager' = stager
        BY <1>7, <3>1 DEF GuardRollsBack, Mv, Cluster, Empty
      <4> QED
        BY <4>1, <4>2 DEF ReseedWhole, OneMovesOut, Proves, Cluster
    <3>2. CASE ~Mv("discard", "root")
      <4>1. /\ db = "rollback" /\ db' = "unstage" /\ Empty("discard")
            /\ UNCHANGED <<dir, markers, env, stager>>
        BY <1>7, <3>2 DEF GuardRollsBack
      <4>2. mark # None /\ mark.phase = "out" /\ stager.pc = "idle"
        BY <4>1
      <4> QED
        BY <4>1, <4>2 DEF ReseedWhole, OneMovesOut, Proves, Cluster
    <3> QED
      BY <3>1, <3>2
  <2>3. RestoreWhole'
    <3>1. CASE Mv("discard", "root")
      BY <1>7, <1>w, Trees, <1>a, <3>1, Moved DEF GuardRollsBack, RestoreWhole
    <3>2. CASE ~Mv("discard", "root")
      BY <1>7, <1>w, Trees, <3>2 DEF GuardRollsBack, RestoreWhole
    <3> QED
      BY <3>1, <3>2
  <2>4. Kept'
    <3>1. CASE Mv("discard", "root")
      BY <1>7, <1>w, Trees, <1>a, <3>1, Moved DEF GuardRollsBack, Kept
    <3>2. CASE ~Mv("discard", "root")
      BY <1>7, <1>w, Trees, <3>2 DEF GuardRollsBack, Kept
    <3> QED
      BY <3>1, <3>2
  <2> QED
    BY <2>1, <2>2, <2>3, <2>4
<1>8. CASE GuardUnstages
  <2>1. Settled'
    <3>1. CASE Rm("stage")
      BY <1>8, <1>w, Trees, <1>a, <3>1, Removed DEF GuardUnstages, Settled, HoldsOne, Fresh
    <3>2. CASE ~Rm("stage")
      <4>1. dir["discard"] = {} /\ OneMovesOut
        BY <1>8 DEF GuardUnstages, ReseedWhole
      <4>2. HoldsOne
        BY <4>1 DEF OneMovesOut, HoldsOne
      <4> QED
        BY <1>8, <3>2, <4>2 DEF GuardUnstages, Settled, HoldsOne
    <3> QED
      BY <3>1, <3>2
  <2>2. ReseedWhole'
    <3>1. CASE Rm("stage")
      <4>1. /\ db = "unstage" /\ UNCHANGED <<db, mark, stager, ready>>
            /\ dir'["stage"] \subseteq dir["stage"]
            /\ dir'["root"] = dir["root"] /\ dir'["discard"] = dir["discard"]
        BY <1>8, <1>a, <3>1, Removed DEF GuardUnstages
      <4>2. mark # None /\ mark.phase = "out" /\ stager.pc = "idle"
        BY <4>1
      <4>3. OneMovesOut /\ dir["discard"] = {} /\ ~Proves("stage")
        BY <4>1, <4>2 DEF ReseedWhole
      <4> QED
        BY <4>1, <4>2, <4>3 DEF ReseedWhole, OneMovesOut, Proves
    <3>2. CASE ~Rm("stage")
      BY <1>8, <1>w, Trees, <3>2 DEF GuardUnstages, ReseedWhole, OneMovesOut, Proves, Cluster
    <3> QED
      BY <3>1, <3>2
  <2>3. RestoreWhole'
    <3>1. CASE Rm("stage")
      BY <1>8, <1>w, Trees, <1>a, <3>1, Removed DEF GuardUnstages, RestoreWhole
    <3>2. CASE ~Rm("stage")
      BY <1>8, <1>w, Trees, <3>2 DEF GuardUnstages, RestoreWhole
    <3> QED
      BY <3>1, <3>2
  <2>4. Kept'
    <3>1. CASE Rm("stage")
      BY <1>8, <1>w, Trees, <1>a, <3>1, Removed DEF GuardUnstages, Kept
    <3>2. CASE ~Rm("stage")
      <4>1. dir["discard"] = {} /\ OneMovesOut /\ intent = "standby" /\ rmark = None /\ mark # None
        BY <1>8 DEF GuardUnstages, ReseedWhole
      <4>2. PICK t \in Tree : dir["root"] = Whole(t)
        BY <4>1 DEF OneMovesOut
      <4>3. good # None => good = t
        BY <4>1, <4>2, Trees DEF Kept
      <4> QED
        BY <1>8, <1>w, <3>2, <4>1, <4>2, <4>3 DEF GuardUnstages, Kept
    <3> QED
      BY <3>1, <3>2
  <2> QED
    BY <2>1, <2>2, <2>3, <2>4
<1>9. CASE GuardMovesIn
  <2>1. Settled'
    <3>1. CASE Mv("stage", "root")
      BY <1>9, <1>w, Trees, <1>a, <3>1, Moved DEF GuardMovesIn, Settled, HoldsOne, Fresh
    <3>2. CASE ~Mv("stage", "root")
      BY <1>9, <1>w, Trees, <3>2 DEF GuardMovesIn, Settled, HoldsOne, Fresh
    <3> QED
      BY <3>1, <3>2
  <2>2. ReseedWhole'
    <3>1. CASE Mv("stage", "root")
      BY <1>9, <1>w, Trees, <1>a, <3>1, Moved DEF GuardMovesIn, ReseedWhole, OneMovesOut, Proves, Cluster
    <3>2. CASE ~Mv("stage", "root")
      BY <1>9, <1>w, Trees, <3>2 DEF GuardMovesIn, ReseedWhole, OneMovesOut, Proves, Cluster
    <3> QED
      BY <3>1, <3>2
  <2>3. RestoreWhole'
    <3>1. CASE Mv("stage", "root")
      BY <1>9, <1>w, Trees, <1>a, <3>1, Moved DEF GuardMovesIn, RestoreWhole
    <3>2. CASE ~Mv("stage", "root")
      BY <1>9, <1>w, Trees, <3>2 DEF GuardMovesIn, RestoreWhole
    <3> QED
      BY <3>1, <3>2
  <2>4. Kept'
    <3>1. CASE Mv("stage", "root")
      BY <1>9, <1>w, Trees, <1>a, <3>1, Moved DEF GuardMovesIn, Kept
    <3>2. CASE ~Mv("stage", "root")
      BY <1>9, <1>w, Trees, <3>2 DEF GuardMovesIn, Kept
    <3> QED
      BY <3>1, <3>2
  <2> QED
    BY <2>1, <2>2, <2>3, <2>4
<1>10. CASE GuardUnstamps
  <2>1. Settled'
    <3>1. CASE Rm("stage")
      BY <1>10, <1>w, Trees, <1>a, <3>1, Removed DEF GuardUnstamps, Settled, HoldsOne, Fresh
    <3>2. CASE ~Rm("stage")
      BY <1>10, <1>w, Trees, <3>2 DEF GuardUnstamps, Settled, HoldsOne, Fresh
    <3> QED
      BY <3>1, <3>2
  <2>2. ReseedWhole'
    <3>1. CASE Rm("stage")
      BY <1>10, <1>w, Trees, <1>a, <3>1, Removed DEF GuardUnstamps, ReseedWhole, OneMovesOut, Proves, Cluster
    <3>2. CASE ~Rm("stage")
      BY <1>10, <1>w, Trees, <3>2 DEF GuardUnstamps, ReseedWhole, OneMovesOut, Proves, Cluster
    <3> QED
      BY <3>1, <3>2
  <2>3. RestoreWhole'
    <3>1. CASE Rm("stage")
      BY <1>10, <1>w, Trees, <1>a, <3>1, Removed DEF GuardUnstamps, RestoreWhole
    <3>2. CASE ~Rm("stage")
      BY <1>10, <1>w, Trees, <3>2 DEF GuardUnstamps, RestoreWhole
    <3> QED
      BY <3>1, <3>2
  <2>4. Kept'
    <3>1. CASE Rm("stage")
      BY <1>10, <1>w, Trees, <1>a, <3>1, Removed DEF GuardUnstamps, Kept
    <3>2. CASE ~Rm("stage")
      BY <1>10, <1>w, Trees, <3>2 DEF GuardUnstamps, Kept
    <3> QED
      BY <3>1, <3>2
  <2> QED
    BY <2>1, <2>2, <2>3, <2>4
<1>11. CASE GuardFinishes
  <2>1. Settled'
    <3>1. dir["root"] = Whole(mark.id) /\ mark.id \in Tree
      <4>1. db = "finish" /\ mark # None /\ mark.phase = "in"
        BY <1>11 DEF GuardFinishes
      <4>2. dir["root"] = Whole(mark.id)
        BY <4>1 DEF ReseedWhole
      <4> QED
        BY <4>1, <4>2
    <3> QED
      BY <1>11, <3>1 DEF GuardFinishes, Settled, HoldsOne
  <2>2. ReseedWhole'
    BY <1>11, <1>w, Trees DEF GuardFinishes, ReseedWhole, OneMovesOut, Proves, Cluster
  <2>3. RestoreWhole'
    BY <1>11, <1>w, Trees DEF GuardFinishes, RestoreWhole
  <2>4. Kept'
    <3>1. db = "finish" /\ mark # None /\ mark.phase = "in"
      BY <1>11 DEF GuardFinishes
    <3>2. dir["root"] = Whole(mark.id)
      BY <3>1 DEF ReseedWhole
    <3>3. dir["prev"] = {} /\ rmark = None
      BY <3>1 DEF Kept
    <3> QED
      BY <1>11, <1>w, <3>2, <3>3 DEF GuardFinishes, Kept
  <2> QED
    BY <2>1, <2>2, <2>3, <2>4
<1> QED
  BY <1>1, <1>2, <1>3, <1>4, <1>5, <1>6, <1>7, <1>8, <1>9, <1>10, <1>11 DEF Guard

-----------------------------------------------------------------------------
(* The reseed stage.                                                       *)

LEMMA StageTyped ==
  ASSUME ~RoleMovesAnytime, ~Orphans, Inv, Stage, Watch
  PROVE  TypeCorrect'
<1>a. dir \in [Place -> SUBSET File]
  BY DEF Inv, TypeOK, TypeCorrect
<1>b. \A e \in Entry \cup {Id} : stager.pc # "idle" => <<stager.id, e>> \in File
  BY DEF Inv, TypeOK, TypeCorrect, Orderly, File, Tree, Attempt
<1>d. dir' \in [Place -> SUBSET File]
  <2> USE DEF Inv, Place, Restoring, disk, dirVars, cliVars, GuardUnchanged, StageUnchanged,
         RestoreUnchanged, markers, env, cliVars
  <2>1. CASE UNCHANGED dir
    BY <2>1, <1>a
  <2>2. CASE StageClears
    BY <2>2, <1>a, FileOps DEF StageClears
  <2>3. CASE StageCopies
    BY <2>3, <1>a, <1>b, FileOps DEF StageCopies
  <2>4. CASE StageUndoes
    BY <2>4, <1>a, FileOps DEF StageUndoes
  <2> QED
    BY <2>1, <2>2, <2>3, <2>4 DEF Stage, StageArms, StageFails
<1> USE DataDirAssumption, SystemAssumption
    DEF Boot, Idle, To, Restore, GuardUnchanged, StageUnchanged, RestoreUnchanged, disk, markers,
       env, dirVars, cliVars, At, Goto, Issue, Running, Off, Done,
       Inv, TypeOK, TypeCorrect, Orderly, Restoring, Phase, DbState, RestoreState, StageState,
       Step, Attempt, Tree
<1>1. CASE StageClears
  BY <1>1, <1>d DEF StageClears
<1>2. CASE StageCopies
  BY <1>2, <1>d DEF StageCopies
<1>3. CASE StageArms
  BY <1>3, <1>d DEF StageArms
<1>4. CASE StageFails
  BY <1>4, <1>d DEF StageFails
<1>5. CASE StageUndoes
  BY <1>5, <1>d DEF StageUndoes
<1> QED
  BY <1>1, <1>2, <1>3, <1>4, <1>5 DEF Stage

LEMMA StageControl ==
  ASSUME ~RoleMovesAnytime, ~Orphans, Inv, Stage, Watch
  PROVE  Orderly' /\ Alone'
<1>w. /\ cli'.op = cli.op /\ cli'.step = cli.step /\ cli'.id = cli.id
  BY Watched DEF Inv
<1> USE DataDirAssumption, SystemAssumption
    DEF Boot, Idle, To, Restore, GuardUnchanged, StageUnchanged, RestoreUnchanged, disk, markers,
       env, dirVars, cliVars, At, Goto, Issue, Running, Off, Done,
       Inv, TypeOK, TypeCorrect, Orderly, Alone, Restoring, Swapping, Phase, Attempt
<1>1. CASE StageClears
  BY <1>1, <1>w DEF StageClears
<1>2. CASE StageCopies
  BY <1>2, <1>w DEF StageCopies
<1>3. CASE StageArms
  BY <1>3, <1>w DEF StageArms
<1>4. CASE StageFails
  BY <1>4, <1>w DEF StageFails
<1>5. CASE StageUndoes
  BY <1>5, <1>w DEF StageUndoes
<1> QED
  BY <1>1, <1>2, <1>3, <1>4, <1>5 DEF Stage

LEMMA StageData ==
  ASSUME ~RoleMovesAnytime, ~Orphans, Inv, Stage, Watch
  PROVE  Data'
<1>a. dir \in [Place -> SUBSET File]
  BY DEF Inv, TypeOK, TypeCorrect
<1>w. /\ cli'.op = cli.op /\ cli'.step = cli.step /\ cli'.id = cli.id
      /\ good' = IF db = "finish" /\ mark # None /\ mark' = None THEN mark.id ELSE good
  BY Watched DEF Watch, Inv
<1> USE DataDirAssumption, SystemAssumption
    DEF Boot, Idle, To, Restore, GuardUnchanged, StageUnchanged, RestoreUnchanged, disk, markers,
       env, dirVars, cliVars, At, Goto, Issue, Running, Off, Done,
       Inv, Data, TypeOK, TypeCorrect, Orderly, Alone, Restoring, Swapping, Place, Empty,
       Phase, Attempt, Tree
<1>1. CASE StageClears
  <2>1. Settled'
    <3>1. CASE Rm("stage")
      BY <1>1, <1>w, Trees, <1>a, <3>1, Removed DEF StageClears, Settled, HoldsOne, Fresh
    <3>2. CASE ~Rm("stage")
      BY <1>1, <1>w, Trees, <3>2 DEF StageClears, Settled, HoldsOne, Fresh
    <3> QED
      BY <3>1, <3>2
  <2>2. ReseedWhole'
    <3>1. CASE Rm("stage")
      BY <1>1, <1>w, Trees, <1>a, <3>1, Removed DEF StageClears, ReseedWhole, OneMovesOut, Proves, Cluster
    <3>2. CASE ~Rm("stage")
      BY <1>1, <1>w, Trees, <3>2 DEF StageClears, ReseedWhole, OneMovesOut, Proves, Cluster
    <3> QED
      BY <3>1, <3>2
  <2>3. RestoreWhole'
    <3>1. CASE Rm("stage")
      BY <1>1, <1>w, Trees, <1>a, <3>1, Removed DEF StageClears, RestoreWhole
    <3>2. CASE ~Rm("stage")
      BY <1>1, <1>w, Trees, <3>2 DEF StageClears, RestoreWhole
    <3> QED
      BY <3>1, <3>2
  <2>4. Kept'
    <3>1. CASE Rm("stage")
      BY <1>1, <1>w, Trees, <1>a, <3>1, Removed DEF StageClears, Kept
    <3>2. CASE ~Rm("stage")
      BY <1>1, <1>w, Trees, <3>2 DEF StageClears, Kept
    <3> QED
      BY <3>1, <3>2
  <2> QED
    BY <2>1, <2>2, <2>3, <2>4
<1>2. CASE StageCopies
  <2>1. Settled'
    <3>1. /\ stager' = stager /\ UNCHANGED <<markers, env, db, restorer>>
          /\ \A q \in Place \ {"stage"} : dir'[q] = dir[q]
      BY <1>2, <1>a, Added DEF StageCopies
    <3> QED
      BY <1>w, <3>1 DEF Settled, HoldsOne, Fresh
  <2>2. ReseedWhole'
    <3>1. /\ stager' = stager /\ UNCHANGED <<markers, env, db, restorer>>
          /\ \A q \in Place \ {"stage"} : dir'[q] = dir[q]
      BY <1>2, <1>a, Added DEF StageCopies
    <3>2. PICK e \in Entry \cup {Id} :
            /\ <<stager.id, e>> \notin dir["stage"]
            /\ e = Id => Whole(stager.id) \subseteq dir["stage"]
            /\ Add("stage", <<stager.id, e>>)
      BY <1>2 DEF StageCopies
    <3>3. dir'["stage"] = dir["stage"] \cup {<<stager.id, e>>}
      BY <1>a, <3>2, Added
    <3>4. stager.pc = "copy" /\ ready = None /\ mark = None /\ db # "refuse"
      BY <1>2 DEF StageCopies
    <3>5. dir["stage"] \subseteq Stamped(stager.id)
      BY <3>4 DEF ReseedWhole
    <3>6. dir'["stage"] \subseteq Stamped(stager.id)
      BY <3>3, <3>5 DEF Stamped
    <3>7. <<stager.id, Id>> \notin dir["stage"]
      <4> SUFFICES ASSUME <<stager.id, Id>> \in dir["stage"] PROVE FALSE
        OBVIOUS
      <4>1. dir["stage"] = Stamped(stager.id)
        BY <3>4 DEF ReseedWhole
      <4> QED
        BY <3>2, <4>1 DEF Stamped
    <3>8. ASSUME <<stager.id, Id>> \in dir'["stage"] PROVE dir'["stage"] = Stamped(stager.id)
      <4>1. e = Id
        BY <3>3, <3>7, <3>8
      <4> QED
        BY <3>2, <3>3, <3>6, <4>1 DEF Stamped, Whole
    <3> QED
      BY <3>1, <3>4, <3>6, <3>8 DEF ReseedWhole
  <2>3. RestoreWhole'
    BY <1>2, <1>w, Trees DEF StageCopies, RestoreWhole
  <2>4. Kept'
    <3>1. /\ stager' = stager /\ UNCHANGED <<markers, env, db, restorer>>
          /\ \A q \in Place \ {"stage"} : dir'[q] = dir[q]
      BY <1>2, <1>a, Added DEF StageCopies
    <3> QED
      BY <1>2, <1>w, <3>1 DEF Kept, StageCopies
  <2> QED
    BY <2>1, <2>2, <2>3, <2>4
<1>3. CASE StageArms
  BY <1>3, <1>w, Trees
  DEF StageArms, Settled, HoldsOne, Fresh, ReseedWhole, OneMovesOut, Proves, Cluster,
         RestoreWhole, Kept
<1>4. CASE StageFails
  BY <1>4, <1>w, Trees
  DEF StageFails, Settled, HoldsOne, Fresh, ReseedWhole, OneMovesOut, Proves, Cluster,
         RestoreWhole, Kept
<1>5. CASE StageUndoes
  <2>1. Settled'
    <3>1. CASE Rm("stage")
      BY <1>5, <1>w, Trees, <1>a, <3>1, Removed DEF StageUndoes, Settled, HoldsOne, Fresh
    <3>2. CASE ~Rm("stage")
      BY <1>5, <1>w, Trees, <3>2 DEF StageUndoes, Settled, HoldsOne, Fresh
    <3> QED
      BY <3>1, <3>2
  <2>2. ReseedWhole'
    <3>1. CASE Rm("stage")
      BY <1>5, <1>w, Trees, <1>a, <3>1, Removed DEF StageUndoes, ReseedWhole, OneMovesOut, Proves, Cluster
    <3>2. CASE ~Rm("stage")
      BY <1>5, <1>w, Trees, <3>2 DEF StageUndoes, ReseedWhole, OneMovesOut, Proves, Cluster
    <3> QED
      BY <3>1, <3>2
  <2>3. RestoreWhole'
    <3>1. CASE Rm("stage")
      BY <1>5, <1>w, Trees, <1>a, <3>1, Removed DEF StageUndoes, RestoreWhole
    <3>2. CASE ~Rm("stage")
      BY <1>5, <1>w, Trees, <3>2 DEF StageUndoes, RestoreWhole
    <3> QED
      BY <3>1, <3>2
  <2>4. Kept'
    <3>1. CASE Rm("stage")
      BY <1>5, <1>w, Trees, <1>a, <3>1, Removed DEF StageUndoes, Kept
    <3>2. CASE ~Rm("stage")
      BY <1>5, <1>w, Trees, <3>2 DEF StageUndoes, Kept
    <3> QED
      BY <3>1, <3>2
  <2> QED
    BY <2>1, <2>2, <2>3, <2>4
<1> QED
  BY <1>1, <1>2, <1>3, <1>4, <1>5 DEF Stage

-----------------------------------------------------------------------------
(* The restore script.                                                     *)

LEMMA RestoreTyped ==
  ASSUME ~RoleMovesAnytime, ~Orphans, Inv, RestoreScript, Watch
  PROVE  TypeCorrect'
<1>a. dir \in [Place -> SUBSET File]
  BY DEF Inv, TypeOK, TypeCorrect
<1>b. \A e \in Entry : Restoring => <<restorer.id, e>> \in File
  BY DEF Inv, TypeOK, TypeCorrect, Orderly, File, Tree, Attempt
<1>d. dir' \in [Place -> SUBSET File]
  <2> USE DEF Inv, Place, Restoring, disk, dirVars, cliVars, GuardUnchanged, StageUnchanged,
         RestoreUnchanged, markers, env, cliVars
  <2>1. CASE UNCHANGED dir
    BY <2>1, <1>a
  <2>2. CASE RestoreClears
    BY <2>2, <1>a, FileOps DEF RestoreClears
  <2>3. CASE RestoreFetches
    BY <2>3, <1>a, <1>b, FileOps DEF RestoreFetches
  <2>4. CASE RestoreFails
    BY <2>4, <1>a DEF RestoreFails
  <2>5. CASE RestoreSettles
    BY <2>5, <1>a, FileOps DEF RestoreSettles
  <2>6. CASE RestoreSetsAside
    BY <2>6, <1>a, FileOps DEF RestoreSetsAside
  <2>7. CASE RestoreKeepsOld
    BY <2>7, <1>a, FileOps DEF RestoreKeepsOld
  <2>8. CASE RestoreSweeps
    BY <2>8, <1>a, FileOps DEF RestoreSweeps
  <2>9. CASE RestoreMovesIn
    BY <2>9, <1>a, FileOps DEF RestoreMovesIn
  <2>10. CASE RestoreDrops
    BY <2>10, <1>a, FileOps DEF RestoreDrops
  <2> QED
    BY <2>1, <2>2, <2>3, <2>4, <2>5, <2>6, <2>7, <2>8, <2>9, <2>10 DEF RestoreScript, RestoreSkips, RestoreLocks, RestoreFinishes
<1> USE DataDirAssumption, SystemAssumption
    DEF Boot, Idle, To, Restore, GuardUnchanged, StageUnchanged, RestoreUnchanged, disk, markers,
       env, dirVars, cliVars, At, Goto, Issue, Running, Off, Done,
       Inv, TypeOK, TypeCorrect, Orderly, Restoring, Phase, DbState, RestoreState, StageState,
       Step, Attempt, Tree
<1>1. CASE RestoreSkips
  BY <1>1, <1>d DEF RestoreSkips, Restored
<1>2. CASE RestoreLocks
  BY <1>2, <1>d DEF RestoreLocks, Restored
<1>3. CASE RestoreClears
  BY <1>3, <1>d DEF RestoreClears
<1>4. CASE RestoreFetches
  <2>1. restorer' \in [pc : RestoreState, id : Attempt \cup {None}]
    BY <1>4 DEF RestoreFetches
  <2> QED
    BY <1>4, <1>d, <2>1 DEF RestoreFetches
<1>5. CASE RestoreFails
  BY <1>5, <1>d DEF RestoreFails
<1>6. CASE RestoreSettles
  BY <1>6, <1>d DEF RestoreSettles, Settle, Root
<1>7. CASE RestoreSetsAside
  BY <1>7, <1>d DEF RestoreSetsAside
<1>8. CASE RestoreKeepsOld
  BY <1>8, <1>d DEF RestoreKeepsOld
<1>9. CASE RestoreSweeps
  BY <1>9, <1>d DEF RestoreSweeps
<1>10. CASE RestoreMovesIn
  BY <1>10, <1>d DEF RestoreMovesIn
<1>11. CASE RestoreDrops
  BY <1>11, <1>d DEF RestoreDrops
<1>12. CASE RestoreFinishes
  BY <1>12, <1>d DEF RestoreFinishes
<1> QED
  BY <1>1, <1>2, <1>3, <1>4, <1>5, <1>6, <1>7, <1>8, <1>9, <1>10, <1>11, 
     <1>12 DEF RestoreScript

LEMMA RestoreControl ==
  ASSUME ~RoleMovesAnytime, ~Orphans, Inv, RestoreScript, Watch
  PROVE  Orderly' /\ Alone'
<1>w. /\ cli'.op = cli.op /\ cli'.step = cli.step /\ cli'.id = cli.id
  BY Watched DEF Inv
<1> USE DataDirAssumption, SystemAssumption
    DEF Boot, Idle, To, Restore, GuardUnchanged, StageUnchanged, RestoreUnchanged, disk, markers,
       env, dirVars, cliVars, At, Goto, Issue, Running, Off, Done,
       Inv, TypeOK, TypeCorrect, Orderly, Alone, Restoring, Swapping, Phase, Attempt
<1>1. CASE RestoreSkips
  BY <1>1, <1>w DEF RestoreSkips, Restored
<1>2. CASE RestoreLocks
  BY <1>2, <1>w DEF RestoreLocks, Restored
<1>3. CASE RestoreClears
  BY <1>3, <1>w DEF RestoreClears
<1>4. CASE RestoreFetches
  <2>1. /\ restorer.pc = "fetch" /\ restorer'.id = restorer.id /\ restorer'.pc \in {"fetch", "settle"}
        /\ UNCHANGED <<markers, db, env, stager, kills>>
    BY <1>4 DEF RestoreFetches
  <2> QED
    BY <1>w, <2>1
<1>5. CASE RestoreFails
  BY <1>5, <1>w DEF RestoreFails
<1>6. CASE RestoreSettles
  BY <1>6, <1>w DEF RestoreSettles, Settle, Root
<1>7. CASE RestoreSetsAside
  BY <1>7, <1>w DEF RestoreSetsAside
<1>8. CASE RestoreKeepsOld
  BY <1>8, <1>w DEF RestoreKeepsOld
<1>9. CASE RestoreSweeps
  <2>1. db \notin {"clear", "out", "rollback", "unstage", "in", "unstamp", "finish"}
    BY <1>9 DEF RestoreSweeps, Alone
  <2>2. CASE restorer' = restorer
    BY <1>9, <1>w, <2>1, <2>2 DEF RestoreSweeps
  <2>3. CASE mark' = None /\ Restore("movein") /\ UNCHANGED <<dir, ready>>
    BY <1>9, <1>w, <2>1, <2>3 DEF RestoreSweeps
  <2> QED
    BY <1>9, <2>2, <2>3 DEF RestoreSweeps
<1>10. CASE RestoreMovesIn
  BY <1>10, <1>w DEF RestoreMovesIn
<1>11. CASE RestoreDrops
  BY <1>11, <1>w DEF RestoreDrops
<1>12. CASE RestoreFinishes
  BY <1>12, <1>w DEF RestoreFinishes
<1> QED
  BY <1>1, <1>2, <1>3, <1>4, <1>5, <1>6, <1>7, <1>8, <1>9, <1>10, <1>11, 
     <1>12 DEF RestoreScript

\* What a step of the fetch leaves alone: the restore directory and the script's own step differ.
LEMMA Fetched ==
  ASSUME TypeCorrect, RestoreFetches
  PROVE  /\ restorer.pc = "fetch" /\ restorer'.id = restorer.id /\ restorer'.pc \in {"fetch", "settle"}
         /\ db' = db /\ UNCHANGED <<markers, env>>
         /\ \A q \in Place \ {"restore"} : dir'[q] = dir[q]
<1>1. /\ restorer.pc = "fetch" /\ db' = db /\ UNCHANGED <<markers, env>>
  BY DEF RestoreFetches, RestoreUnchanged, markers, env
<1>2. dir \in [Place -> SUBSET File] /\ restorer \in [pc : RestoreState, id : Attempt \cup {None}]
  BY DEF TypeCorrect
<1>3. CASE \E e \in Entry : Add("restore", <<restorer.id, e>>) /\ UNCHANGED restorer
  <2>1. "restore" \in Place
    BY DEF Place
  <2> QED
    BY <1>1, <1>2, <1>3, <2>1, Added
<1>4. CASE Restore("settle") /\ UNCHANGED dir
  BY <1>1, <1>2, <1>4 DEF Restore
<1> QED
  BY <1>3, <1>4 DEF RestoreFetches

LEMMA RestoreData ==
  ASSUME ~RoleMovesAnytime, ~Orphans, Inv, RestoreScript, Watch
  PROVE  Data'
<1>a. dir \in [Place -> SUBSET File]
  BY DEF Inv, TypeOK, TypeCorrect
<1>w. /\ cli'.op = cli.op /\ cli'.step = cli.step /\ cli'.id = cli.id
      /\ good' = IF db = "finish" /\ mark # None /\ mark' = None THEN mark.id ELSE good
  BY Watched DEF Watch, Inv
<1>f. RestoreFetches => /\ restorer.pc = "fetch" /\ restorer'.id = restorer.id
                        /\ restorer'.pc \in {"fetch", "settle"}
                        /\ db' = db /\ UNCHANGED <<markers, env>>
                        /\ \A q \in Place \ {"restore"} : dir'[q] = dir[q]
  BY Fetched DEF Inv, TypeOK
<1> USE DataDirAssumption, SystemAssumption
    DEF Boot, Idle, To, Restore, GuardUnchanged, StageUnchanged, RestoreUnchanged, disk, markers,
       env, dirVars, cliVars, At, Goto, Issue, Running, Off, Done,
       Inv, Data, TypeOK, TypeCorrect, Orderly, Alone, Restoring, Swapping, Place, Empty,
       Phase, Attempt, Tree
<1>1. CASE RestoreSkips
  BY <1>1, <1>w, Trees
  DEF RestoreSkips, Restored, Settled, HoldsOne, Fresh, ReseedWhole, OneMovesOut, Proves, Cluster,
         RestoreWhole, Kept
<1>2. CASE RestoreLocks
  BY <1>2, <1>w, Trees
  DEF RestoreLocks, Restored, Settled, HoldsOne, Fresh, ReseedWhole, OneMovesOut, Proves, Cluster,
         RestoreWhole, Kept
<1>3. CASE RestoreClears
  <2>1. Settled'
    <3>1. CASE Rm("restore")
      BY <1>3, <1>w, Trees, <1>a, <3>1, Removed DEF RestoreClears, Settled, HoldsOne, Fresh
    <3>2. CASE ~Rm("restore")
      BY <1>3, <1>w, Trees, <3>2 DEF RestoreClears, Settled, HoldsOne, Fresh
    <3> QED
      BY <3>1, <3>2
  <2>2. ReseedWhole'
    <3>1. CASE Rm("restore")
      BY <1>3, <1>w, Trees, <1>a, <3>1, Removed DEF RestoreClears, ReseedWhole, OneMovesOut, Proves, Cluster
    <3>2. CASE ~Rm("restore")
      BY <1>3, <1>w, Trees, <3>2 DEF RestoreClears, ReseedWhole, OneMovesOut, Proves, Cluster
    <3> QED
      BY <3>1, <3>2
  <2>3. RestoreWhole'
    <3>1. CASE Rm("restore")
      BY <1>3, <1>w, Trees, <1>a, <3>1, Removed DEF RestoreClears, RestoreWhole
    <3>2. CASE ~Rm("restore")
      BY <1>3, <1>w, Trees, <3>2 DEF RestoreClears, RestoreWhole
    <3> QED
      BY <3>1, <3>2
  <2>4. Kept'
    <3>1. CASE Rm("restore")
      BY <1>3, <1>w, Trees, <1>a, <3>1, Removed DEF RestoreClears, Kept
    <3>2. CASE ~Rm("restore")
      BY <1>3, <1>w, Trees, <3>2 DEF RestoreClears, Kept
    <3> QED
      BY <3>1, <3>2
  <2> QED
    BY <2>1, <2>2, <2>3, <2>4
<1>4. CASE RestoreFetches
  <2>1. Settled'
    <3>1. /\ restorer.pc = "fetch" /\ restorer'.id = restorer.id /\ restorer'.pc \in {"fetch", "settle"}
          /\ db' = db /\ UNCHANGED <<markers, env>>
          /\ \A q \in Place \ {"restore"} : dir'[q] = dir[q]
      BY <1>4, <1>f
    <3> QED
      BY <1>w, <3>1 DEF Settled, HoldsOne, Fresh
  <2>2. ReseedWhole'
    BY <1>4, <1>w, Trees DEF RestoreFetches, ReseedWhole, OneMovesOut, Proves, Cluster
  <2>3. RestoreWhole'
    <3>1. CASE \E e \in Entry : Add("restore", <<restorer.id, e>>) /\ UNCHANGED restorer
      <4>1. PICK e \in Entry : Add("restore", <<restorer.id, e>>) /\ UNCHANGED restorer
        BY <3>1
      <4>2. dir'["restore"] = dir["restore"] \cup {<<restorer.id, e>>}
        BY <1>a, <4>1, Added
      <4>3. <<restorer.id, e>> \in Whole(restorer.id)
        BY DEF Whole
      <4> QED
        BY <1>4, <4>1, <4>2, <4>3 DEF RestoreFetches, RestoreWhole
    <3>2. CASE Whole(restorer.id) \subseteq dir["restore"] /\ Restore("settle") /\ UNCHANGED dir
      BY <1>4, <3>2 DEF RestoreFetches, RestoreWhole
    <3> QED
      BY <1>4, <3>1, <3>2 DEF RestoreFetches
  <2>4. Kept'
    <3>1. /\ restorer.pc = "fetch" /\ restorer'.id = restorer.id /\ restorer'.pc \in {"fetch", "settle"}
          /\ db' = db /\ UNCHANGED <<markers, env>>
          /\ \A q \in Place \ {"restore"} : dir'[q] = dir[q]
      BY <1>4, <1>f
    <3> QED
      BY <1>4, <1>w, <3>1 DEF Kept
  <2> QED
    BY <2>1, <2>2, <2>3, <2>4
<1>5. CASE RestoreFails
  <2>1. Settled'
    BY <1>5, <1>w, Trees DEF RestoreFails, Settled, HoldsOne, Fresh
  <2>2. ReseedWhole'
    BY <1>5, <1>w, Trees DEF RestoreFails, ReseedWhole, OneMovesOut, Proves, Cluster
  <2>3. RestoreWhole'
    BY <1>5, <1>w, Trees DEF RestoreFails, RestoreWhole
  <2>4. Kept'
    BY <1>5, <1>w, Trees DEF RestoreFails, Kept
  <2> QED
    BY <2>1, <2>2, <2>3, <2>4
<1>6. CASE RestoreSettles
  <2>1. Settled'
    <3>1. CASE Rm("discard")
      BY <1>6, <1>w, Trees, <1>a, <3>1, Removed DEF RestoreSettles, Settle, Root, Settled, HoldsOne, Fresh
    <3>2. CASE Rm("retired")
      BY <1>6, <1>w, Trees, <1>a, <3>2, Removed DEF RestoreSettles, Settle, Root, Settled, HoldsOne, Fresh
    <3>3. CASE ~Rm("discard") /\ ~Rm("retired")
      BY <1>6, <1>w, Trees, <3>3 DEF RestoreSettles, Settle, Root, Settled, HoldsOne, Fresh
    <3> QED
      BY <3>1, <3>2, <3>3
  <2>2. ReseedWhole'
    <3>1. CASE Rm("discard")
      BY <1>6, <1>w, Trees, <1>a, <3>1, Removed DEF RestoreSettles, Settle, Root, ReseedWhole, OneMovesOut, Proves, Cluster
    <3>2. CASE Rm("retired")
      BY <1>6, <1>w, Trees, <1>a, <3>2, Removed DEF RestoreSettles, Settle, Root, ReseedWhole, OneMovesOut, Proves, Cluster
    <3>3. CASE ~Rm("discard") /\ ~Rm("retired")
      BY <1>6, <1>w, Trees, <3>3 DEF RestoreSettles, Settle, Root, ReseedWhole, OneMovesOut, Proves, Cluster
    <3> QED
      BY <3>1, <3>2, <3>3
  <2>3. RestoreWhole'
    <3>1. CASE Rm("discard")
      BY <1>6, <1>w, Trees, <1>a, <3>1, Removed DEF RestoreSettles, Settle, Root, RestoreWhole
    <3>2. CASE Rm("retired")
      BY <1>6, <1>w, Trees, <1>a, <3>2, Removed DEF RestoreSettles, Settle, Root, RestoreWhole
    <3>3. CASE ~Rm("discard") /\ ~Rm("retired")
      BY <1>6, <1>w, Trees, <3>3 DEF RestoreSettles, Settle, Root, RestoreWhole
    <3> QED
      BY <3>1, <3>2, <3>3
  <2>4. Kept'
    <3>1. CASE Rm("discard")
      BY <1>6, <1>w, Trees, <1>a, <3>1, Removed DEF RestoreSettles, Settle, Root, Kept
    <3>2. CASE Rm("retired")
      BY <1>6, <1>w, Trees, <1>a, <3>2, Removed DEF RestoreSettles, Settle, Root, Kept
    <3>3. CASE ~Rm("discard") /\ ~Rm("retired")
      BY <1>6, <1>w, Trees, <3>3 DEF RestoreSettles, Settle, Root, Kept
    <3> QED
      BY <3>1, <3>2, <3>3
  <2> QED
    BY <2>1, <2>2, <2>3, <2>4
<1>7. CASE RestoreSetsAside
  <2>1. Settled'
    <3>1. CASE Mv("root", "discard")
      BY <1>7, <1>w, Trees, <1>a, <3>1, Moved DEF RestoreSetsAside, Settled, HoldsOne, Fresh
    <3>2. CASE ~Mv("root", "discard")
      BY <1>7, <1>w, Trees, <3>2 DEF RestoreSetsAside, Settled, HoldsOne, Fresh
    <3> QED
      BY <3>1, <3>2
  <2>2. ReseedWhole'
    <3>1. CASE Mv("root", "discard")
      BY <1>7, <1>w, Trees, <1>a, <3>1, Moved DEF RestoreSetsAside, ReseedWhole, OneMovesOut, Proves, Cluster
    <3>2. CASE ~Mv("root", "discard")
      BY <1>7, <1>w, Trees, <3>2 DEF RestoreSetsAside, ReseedWhole, OneMovesOut, Proves, Cluster
    <3> QED
      BY <3>1, <3>2
  <2>3. RestoreWhole'
    <3>1. CASE Mv("root", "discard")
      BY <1>7, <1>w, Trees, <1>a, <3>1, Moved DEF RestoreSetsAside, RestoreWhole
    <3>2. CASE ~Mv("root", "discard")
      BY <1>7, <1>w, Trees, <3>2 DEF RestoreSetsAside, RestoreWhole
    <3> QED
      BY <3>1, <3>2
  <2>4. Kept'
    <3>1. CASE Mv("root", "discard")
      BY <1>7, <1>w, Trees, <1>a, <3>1, Moved DEF RestoreSetsAside, Kept
    <3>2. CASE ~Mv("root", "discard")
      BY <1>7, <1>w, Trees, <3>2 DEF RestoreSetsAside, Kept
    <3> QED
      BY <3>1, <3>2
  <2> QED
    BY <2>1, <2>2, <2>3, <2>4
<1>8. CASE RestoreKeepsOld
  <2>1. Settled'
    <3>1. CASE Mv("root", "prev")
      BY <1>8, <1>w, Trees, <1>a, <3>1, Moved DEF RestoreKeepsOld, Settled, HoldsOne, Fresh
    <3>2. CASE ~Mv("root", "prev")
      BY <1>8, <1>w, Trees, <3>2 DEF RestoreKeepsOld, Settled, HoldsOne, Fresh
    <3> QED
      BY <3>1, <3>2
  <2>2. ReseedWhole'
    <3>1. CASE Mv("root", "prev")
      BY <1>8, <1>w, Trees, <1>a, <3>1, Moved DEF RestoreKeepsOld, ReseedWhole, OneMovesOut, Proves, Cluster
    <3>2. CASE ~Mv("root", "prev")
      BY <1>8, <1>w, Trees, <3>2 DEF RestoreKeepsOld, ReseedWhole, OneMovesOut, Proves, Cluster
    <3> QED
      BY <3>1, <3>2
  <2>3. RestoreWhole'
    <3>1. CASE Mv("root", "prev")
      BY <1>8, <1>w, Trees, <1>a, <3>1, Moved DEF RestoreKeepsOld, RestoreWhole
    <3>2. CASE ~Mv("root", "prev")
      BY <1>8, <1>w, Trees, <3>2 DEF RestoreKeepsOld, RestoreWhole
    <3> QED
      BY <3>1, <3>2
  <2>4. Kept'
    <3>1. CASE Mv("root", "prev")
      BY <1>8, <1>w, Trees, <1>a, <3>1, Moved DEF RestoreKeepsOld, Kept
    <3>2. CASE ~Mv("root", "prev")
      BY <1>8, <1>w, Trees, <3>2 DEF RestoreKeepsOld, Kept
    <3> QED
      BY <3>1, <3>2
  <2> QED
    BY <2>1, <2>2, <2>3, <2>4
<1>9. CASE RestoreSweeps
  <2>1. Settled'
    <3>1. CASE Rm("stage")
      BY <1>9, <1>w, Trees, <1>a, <3>1, Removed DEF RestoreSweeps, Settled, HoldsOne, Fresh
    <3>2. CASE ~Rm("stage")
      BY <1>9, <1>w, Trees, <3>2 DEF RestoreSweeps, Settled, HoldsOne, Fresh
    <3> QED
      BY <3>1, <3>2
  <2>2. ReseedWhole'
    <3>1. CASE Rm("stage")
      BY <1>9, <1>w, Trees, <1>a, <3>1, Removed DEF RestoreSweeps, ReseedWhole, OneMovesOut, Proves, Cluster
    <3>2. CASE ~Rm("stage")
      BY <1>9, <1>w, Trees, <3>2 DEF RestoreSweeps, ReseedWhole, OneMovesOut, Proves, Cluster
    <3> QED
      BY <3>1, <3>2
  <2>3. RestoreWhole'
    <3>1. CASE Rm("stage")
      BY <1>9, <1>w, Trees, <1>a, <3>1, Removed DEF RestoreSweeps, RestoreWhole
    <3>2. CASE ~Rm("stage")
      BY <1>9, <1>w, Trees, <3>2 DEF RestoreSweeps, RestoreWhole
    <3> QED
      BY <3>1, <3>2
  <2>4. Kept'
    <3>1. CASE Rm("stage")
      BY <1>9, <1>w, Trees, <1>a, <3>1, Removed DEF RestoreSweeps, Kept
    <3>2. CASE ~Rm("stage")
      BY <1>9, <1>w, Trees, <3>2 DEF RestoreSweeps, Kept
    <3> QED
      BY <3>1, <3>2
  <2> QED
    BY <2>1, <2>2, <2>3, <2>4
<1>10. CASE RestoreMovesIn
  <2>1. Settled'
    <3>1. CASE Mv("restore", "root")
      BY <1>10, <1>w, Trees, <1>a, <3>1, Moved DEF RestoreMovesIn, Settled, HoldsOne, Fresh
    <3>2. CASE ~Mv("restore", "root")
      BY <1>10, <1>w, Trees, <3>2 DEF RestoreMovesIn, Settled, HoldsOne, Fresh
    <3> QED
      BY <3>1, <3>2
  <2>2. ReseedWhole'
    <3>1. CASE Mv("restore", "root")
      BY <1>10, <1>w, Trees, <1>a, <3>1, Moved DEF RestoreMovesIn, ReseedWhole, OneMovesOut, Proves, Cluster
    <3>2. CASE ~Mv("restore", "root")
      BY <1>10, <1>w, Trees, <3>2 DEF RestoreMovesIn, ReseedWhole, OneMovesOut, Proves, Cluster
    <3> QED
      BY <3>1, <3>2
  <2>3. RestoreWhole'
    <3>1. CASE Mv("restore", "root")
      <4>1. dir'["root"] \cup dir'["restore"] = dir["root"] \cup dir["restore"]
        BY <1>a, <3>1, Moved DEF Cluster
      <4>2. restorer' = restorer /\ restorer.pc = "movein"
        BY <1>10, <3>1 DEF RestoreMovesIn, Mv, Cluster
      <4> QED
        BY <4>1, <4>2 DEF RestoreWhole
    <3>2. CASE ~Mv("restore", "root")
      <4>1. Empty("restore") /\ Restore("drop") /\ UNCHANGED dir /\ restorer.pc = "movein"
        BY <1>10, <3>2 DEF RestoreMovesIn
      <4>2. dir["root"] = Whole(restorer.id)
        BY <4>1 DEF RestoreWhole
      <4> QED
        BY <4>1, <4>2 DEF RestoreWhole
    <3> QED
      BY <3>1, <3>2
  <2>4. Kept'
    <3>1. CASE Mv("restore", "root")
      BY <1>10, <1>w, Trees, <1>a, <3>1, Moved DEF RestoreMovesIn, Kept
    <3>2. CASE ~Mv("restore", "root")
      BY <1>10, <1>w, Trees, <3>2 DEF RestoreMovesIn, Kept
    <3> QED
      BY <3>1, <3>2
  <2> QED
    BY <2>1, <2>2, <2>3, <2>4
<1>11. CASE RestoreDrops
  <2>1. Settled'
    <3>1. CASE Rm("discard")
      BY <1>11, <1>w, Trees, <1>a, <3>1, Removed DEF RestoreDrops, Settled, HoldsOne, Fresh
    <3>2. CASE ~Rm("discard")
      BY <1>11, <1>w, Trees, <3>2 DEF RestoreDrops, Settled, HoldsOne, Fresh
    <3> QED
      BY <3>1, <3>2
  <2>2. ReseedWhole'
    <3>1. CASE Rm("discard")
      BY <1>11, <1>w, Trees, <1>a, <3>1, Removed DEF RestoreDrops, ReseedWhole, OneMovesOut, Proves, Cluster
    <3>2. CASE ~Rm("discard")
      BY <1>11, <1>w, Trees, <3>2 DEF RestoreDrops, ReseedWhole, OneMovesOut, Proves, Cluster
    <3> QED
      BY <3>1, <3>2
  <2>3. RestoreWhole'
    <3>1. CASE Rm("discard")
      BY <1>11, <1>w, Trees, <1>a, <3>1, Removed DEF RestoreDrops, RestoreWhole
    <3>2. CASE ~Rm("discard")
      BY <1>11, <1>w, Trees, <3>2 DEF RestoreDrops, RestoreWhole
    <3> QED
      BY <3>1, <3>2
  <2>4. Kept'
    <3>1. CASE Rm("discard")
      BY <1>11, <1>w, Trees, <1>a, <3>1, Removed DEF RestoreDrops, Kept
    <3>2. CASE ~Rm("discard")
      BY <1>11, <1>w, Trees, <3>2 DEF RestoreDrops, Kept
    <3> QED
      BY <3>1, <3>2
  <2> QED
    BY <2>1, <2>2, <2>3, <2>4
<1>12. CASE RestoreFinishes
  <2>1. Settled'
    <3>1. dir["root"] = Whole(restorer.id) /\ restorer.id \in Tree
      BY <1>12 DEF RestoreFinishes, RestoreWhole
    <3> QED
      BY <1>12, <3>1 DEF RestoreFinishes, Settled, HoldsOne
  <2>2. ReseedWhole'
    BY <1>12, <1>w, Trees DEF RestoreFinishes, ReseedWhole, OneMovesOut, Proves, Cluster
  <2>3. RestoreWhole'
    BY <1>12, <1>w, Trees DEF RestoreFinishes, RestoreWhole
  <2>4. Kept'
    BY <1>12, <1>w, Trees DEF RestoreFinishes, Kept
  <2> QED
    BY <2>1, <2>2, <2>3, <2>4
<1> QED
  BY <1>1, <1>2, <1>3, <1>4, <1>5, <1>6, <1>7, <1>8, <1>9, <1>10, <1>11, 
     <1>12 DEF RestoreScript

-----------------------------------------------------------------------------
(* Starts of containers and pods.                                          *)

LEMMA StartTyped ==
  ASSUME ~RoleMovesAnytime, ~Orphans, Inv, Restarts \/ PodStarts, Watch
  PROVE  TypeCorrect'
<1>a. dir \in [Place -> SUBSET File]
  BY DEF Inv, TypeOK, TypeCorrect
<1>d. dir' \in [Place -> SUBSET File]
  <2> USE DEF Inv, Place, Restoring, disk, dirVars, cliVars, GuardUnchanged, StageUnchanged,
         RestoreUnchanged, markers, env, cliVars
  <2>1. CASE UNCHANGED dir
    BY <2>1, <1>a
  <2> QED
    BY <2>1 DEF Restarts, PodStarts
<1> USE DataDirAssumption, SystemAssumption
    DEF Boot, Idle, To, Restore, GuardUnchanged, StageUnchanged, RestoreUnchanged, disk, markers,
       env, dirVars, cliVars, At, Goto, Issue, Running, Off, Done,
       Inv, TypeOK, TypeCorrect, Orderly, Restoring, Phase, DbState, RestoreState, StageState,
       Step, Attempt, Tree
<1>1. CASE Restarts
  BY <1>1, <1>d DEF Restarts
<1>2. CASE PodStarts
  BY <1>2, <1>d DEF PodStarts
<1> QED
  BY <1>1, <1>2

LEMMA StartControl ==
  ASSUME ~RoleMovesAnytime, ~Orphans, Inv, Restarts \/ PodStarts, Watch
  PROVE  Orderly' /\ Alone'
<1>w. /\ cli'.op = cli.op /\ cli'.step = cli.step /\ cli'.id = cli.id
  BY Watched DEF Inv
<1> USE DataDirAssumption, SystemAssumption
    DEF Boot, Idle, To, Restore, GuardUnchanged, StageUnchanged, RestoreUnchanged, disk, markers,
       env, dirVars, cliVars, At, Goto, Issue, Running, Off, Done,
       Inv, TypeOK, TypeCorrect, Orderly, Alone, Restoring, Swapping, Phase, Attempt
<1>1. CASE Restarts
  BY <1>1, <1>w DEF Restarts
<1>2. CASE PodStarts
  BY <1>2, <1>w DEF PodStarts
<1> QED
  BY <1>1, <1>2

LEMMA StartData ==
  ASSUME ~RoleMovesAnytime, ~Orphans, Inv, Restarts \/ PodStarts, Watch
  PROVE  Data'
<1>a. dir \in [Place -> SUBSET File]
  BY DEF Inv, TypeOK, TypeCorrect
<1>w. /\ cli'.op = cli.op /\ cli'.step = cli.step /\ cli'.id = cli.id
      /\ good' = IF db = "finish" /\ mark # None /\ mark' = None THEN mark.id ELSE good
  BY Watched DEF Watch, Inv
<1> USE DataDirAssumption, SystemAssumption
    DEF Boot, Idle, To, Restore, GuardUnchanged, StageUnchanged, RestoreUnchanged, disk, markers,
       env, dirVars, cliVars, At, Goto, Issue, Running, Off, Done,
       Inv, Data, TypeOK, TypeCorrect, Orderly, Alone, Restoring, Swapping, Place, Empty,
       Phase, Attempt, Tree
<1>1. CASE Restarts
  BY <1>1, <1>w, Trees
  DEF Restarts, Settled, HoldsOne, Fresh, ReseedWhole, OneMovesOut, Proves, Cluster,
         RestoreWhole, Kept
<1>2. CASE PodStarts
  BY <1>2, <1>w, Trees
  DEF PodStarts, Settled, HoldsOne, Fresh, ReseedWhole, OneMovesOut, Proves, Cluster,
         RestoreWhole, Kept
<1> QED
  BY <1>1, <1>2

-----------------------------------------------------------------------------
(* Kills.                                                                  *)

LEMMA FaultTyped ==
  ASSUME ~RoleMovesAnytime, ~Orphans, Inv, Faults, Watch
  PROVE  TypeCorrect'
<1>a. dir \in [Place -> SUBSET File]
  BY DEF Inv, TypeOK, TypeCorrect
<1>k. kills' \in 0 .. MaxKills
  BY DataDirAssumption DEF Faults, Inv, TypeOK, TypeCorrect
<1>d. dir' \in [Place -> SUBSET File]
  <2> USE DEF Inv, Place, Restoring, disk, dirVars, cliVars, GuardUnchanged, StageUnchanged,
         RestoreUnchanged, markers, env, cliVars
  <2>1. CASE UNCHANGED dir
    BY <2>1, <1>a
  <2>2. CASE LoseStage
    BY <2>2, <1>a DEF LoseStage
  <2> QED
    BY <2>1, <2>2 DEF Faults, KillDb, KillPod, KillRestore
<1> USE DataDirAssumption, SystemAssumption
    DEF Boot, Idle, To, Restore, GuardUnchanged, StageUnchanged, RestoreUnchanged, disk, markers,
       env, dirVars, cliVars, At, Goto, Issue, Running, Off, Done,
       Inv, TypeOK, TypeCorrect, Orderly, Restoring, Phase, DbState, RestoreState, StageState,
       Step, Attempt, Tree
<1>1. CASE KillDb
  BY <1>1, <1>d, <1>k DEF KillDb
<1>2. CASE KillPod
  BY <1>2, <1>d, <1>k DEF KillPod
<1>3. CASE KillRestore
  BY <1>3, <1>d, <1>k DEF KillRestore
<1>4. CASE LoseStage
  BY <1>4, <1>d, <1>k DEF LoseStage
<1> QED
  BY <1>1, <1>2, <1>3, <1>4 DEF Faults

LEMMA FaultControl ==
  ASSUME ~RoleMovesAnytime, ~Orphans, Inv, Faults, Watch
  PROVE  Orderly' /\ Alone'
<1>w. /\ cli'.op = cli.op /\ cli'.step = cli.step /\ cli'.id = cli.id
  BY Watched DEF Inv
<1> USE DataDirAssumption, SystemAssumption
    DEF Boot, Idle, To, Restore, GuardUnchanged, StageUnchanged, RestoreUnchanged, disk, markers,
       env, dirVars, cliVars, At, Goto, Issue, Running, Off, Done,
       Inv, TypeOK, TypeCorrect, Orderly, Alone, Restoring, Swapping, Phase, Attempt
<1>1. CASE KillDb
  BY <1>1, <1>w DEF KillDb
<1>2. CASE KillPod
  BY <1>2, <1>w DEF KillPod
<1>3. CASE KillRestore
  BY <1>3, <1>w DEF KillRestore
<1>4. CASE LoseStage
  BY <1>4, <1>w DEF LoseStage
<1> QED
  BY <1>1, <1>2, <1>3, <1>4 DEF Faults

LEMMA FaultData ==
  ASSUME ~RoleMovesAnytime, ~Orphans, Inv, Faults, Watch
  PROVE  Data'
<1>a. dir \in [Place -> SUBSET File]
  BY DEF Inv, TypeOK, TypeCorrect
<1>w. /\ cli'.op = cli.op /\ cli'.step = cli.step /\ cli'.id = cli.id
      /\ good' = IF db = "finish" /\ mark # None /\ mark' = None THEN mark.id ELSE good
  BY Watched DEF Watch, Inv
<1> USE DataDirAssumption, SystemAssumption
    DEF Boot, Idle, To, Restore, GuardUnchanged, StageUnchanged, RestoreUnchanged, disk, markers,
       env, dirVars, cliVars, At, Goto, Issue, Running, Off, Done,
       Inv, Data, TypeOK, TypeCorrect, Orderly, Alone, Restoring, Swapping, Place, Empty,
       Phase, Attempt, Tree
<1>1. CASE KillDb
  BY <1>1, <1>w, Trees
  DEF KillDb, Settled, HoldsOne, Fresh, ReseedWhole, OneMovesOut, Proves, Cluster,
         RestoreWhole, Kept
<1>2. CASE KillPod
  BY <1>2, <1>w, Trees
  DEF KillPod, Settled, HoldsOne, Fresh, ReseedWhole, OneMovesOut, Proves, Cluster,
         RestoreWhole, Kept
<1>3. CASE KillRestore
  BY <1>3, <1>w, Trees
  DEF KillRestore, Settled, HoldsOne, Fresh, ReseedWhole, OneMovesOut, Proves, Cluster,
         RestoreWhole, Kept
<1>4. CASE LoseStage
  <2>1. Settled'
    BY <1>4, <1>w, Trees DEF LoseStage, Settled, HoldsOne, Fresh
  <2>2. ReseedWhole'
    BY <1>4, <1>w, Trees DEF LoseStage, ReseedWhole, OneMovesOut, Proves, Cluster
  <2>3. RestoreWhole'
    BY <1>4, <1>w, Trees DEF LoseStage, RestoreWhole
  <2>4. Kept'
    BY <1>4, <1>w, Trees DEF LoseStage, Kept
  <2> QED
    BY <2>1, <2>2, <2>3, <2>4
<1> QED
  BY <1>1, <1>2, <1>3, <1>4 DEF Faults

-----------------------------------------------------------------------------
(* The commands.                                                           *)

LEMMA CommandTyped ==
  ASSUME ~RoleMovesAnytime, ~Orphans, Inv, Commands
  PROVE  TypeOK'
<1>a. dir \in [Place -> SUBSET File]
  BY DEF Inv, TypeOK, TypeCorrect
<1>o. {Off, Done} \subseteq [op : {"none", "reseed", "restore"}, step : Step,
                             id : Attempt \cup {None}, same : BOOLEAN]
  <2>1. Off \in [op : {"none", "reseed", "restore"}, step : Step,
                 id : Attempt \cup {None}, same : BOOLEAN]
    BY DEF Off, Step
  <2>2. "done" \in Step
    BY DEF Step
  <2>3. Done \in [op : {"none", "reseed", "restore"}, step : Step,
                  id : Attempt \cup {None}, same : BOOLEAN]
    BY <2>1, <2>2 DEF Done
  <2> QED
    BY <2>1, <2>3
<1>d. dir' \in [Place -> SUBSET File]
  <2> USE DEF Inv, Place, Restoring, disk, dirVars, cliVars, GuardUnchanged, StageUnchanged,
         RestoreUnchanged, markers, env, cliVars
  <2>1. CASE UNCHANGED dir
    BY <2>1, <1>a
  <2>2. CASE ReseedDiscards
    BY <2>2, <1>a, FileOps DEF ReseedDiscards
  <2>3. CASE RetirePrevious
    BY <2>3, <1>a DEF RetirePrevious
  <2>4. CASE RemoveDiscard
    BY <2>4, <1>a, FileOps DEF RemoveDiscard
  <2> QED
    BY <2>1, <2>2, <2>3, <2>4 DEF Commands, Reseed, ReseedStages, ReseedStaged, ReseedStops, ReseedWaits, ReseedRestartFails, ReseedDisarms, ReseedChecks, SetRestoreMarker, RolloutRestart, Proven, ClearRestoreMarker, RemoveRecord, Abandon, ComposeRestore, ComposeStopsDb, ComposeRuns, ComposeRan, ComposeStopsRun, ComposeProbes, ComposeUp, ComposeStartsDb, ChangeRole, CommandEnds
<1> USE DataDirAssumption, SystemAssumption
    DEF Boot, Idle, To, Restore, GuardUnchanged, StageUnchanged, RestoreUnchanged, disk, markers,
       env, dirVars, cliVars, At, Goto, Issue, Running, Off, Done,
       Inv, TypeOK, TypeCorrect, Orderly, Restoring, Phase, DbState, RestoreState, StageState,
       Step, Attempt, Tree
<1>1. CASE Reseed
  BY <1>1, <1>d, <1>o DEF Reseed
<1>2. CASE ReseedStages
  BY <1>2, <1>d, <1>o DEF ReseedStages
<1>3. CASE ReseedStaged
  BY <1>3, <1>d, <1>o DEF ReseedStaged
<1>4. CASE ReseedStops
  BY <1>4, <1>d, <1>o DEF ReseedStops
<1>5. CASE ReseedWaits
  BY <1>5, <1>d, <1>o DEF ReseedWaits
<1>6. CASE ReseedRestartFails
  BY <1>6, <1>d, <1>o DEF ReseedRestartFails
<1>7. CASE ReseedDisarms
  <2> HIDE DEF Off, Done
  <2> QED
    BY <1>7, <1>d, <1>o DEF ReseedDisarms
<1>8. CASE ReseedChecks
  <2> HIDE DEF Off, Done
  <2> QED
    BY <1>8, <1>d, <1>o DEF ReseedChecks
<1>9. CASE ReseedDiscards
  <2> HIDE DEF Off, Done
  <2> QED
    BY <1>9, <1>d, <1>o DEF ReseedDiscards
<1>10. CASE SetRestoreMarker
  BY <1>10, <1>d, <1>o DEF SetRestoreMarker
<1>11. CASE RolloutRestart
  BY <1>11, <1>d, <1>o DEF RolloutRestart
<1>12. CASE Proven
  BY <1>12, <1>d, <1>o DEF Proven
<1>13. CASE RetirePrevious
  BY <1>13, <1>d, <1>o DEF RetirePrevious
<1>14. CASE ClearRestoreMarker
  BY <1>14, <1>d, <1>o DEF ClearRestoreMarker
<1>15. CASE RemoveRecord
  <2> HIDE DEF Off, Done
  <2> QED
    BY <1>15, <1>d, <1>o DEF RemoveRecord
<1>16. CASE RemoveDiscard
  <2> HIDE DEF Off, Done
  <2> QED
    BY <1>16, <1>d, <1>o DEF RemoveDiscard
<1>17. CASE Abandon
  BY <1>17, <1>d, <1>o DEF Abandon
<1>18. CASE ComposeRestore
  BY <1>18, <1>d, <1>o DEF ComposeRestore
<1>19. CASE ComposeStopsDb
  BY <1>19, <1>d, <1>o DEF ComposeStopsDb
<1>20. CASE ComposeRuns
  BY <1>20, <1>d, <1>o DEF ComposeRuns
<1>21. CASE ComposeRan
  BY <1>21, <1>d, <1>o DEF ComposeRan
<1>22. CASE ComposeStopsRun
  BY <1>22, <1>d, <1>o DEF ComposeStopsRun
<1>23. CASE ComposeProbes
  <2> HIDE DEF Off, Done
  <2> QED
    BY <1>23, <1>d, <1>o DEF ComposeProbes
<1>24. CASE ComposeUp
  BY <1>24, <1>d, <1>o DEF ComposeUp
<1>25. CASE ComposeStartsDb
  BY <1>25, <1>d, <1>o DEF ComposeStartsDb
<1>26. CASE ChangeRole
  BY <1>26, <1>d, <1>o DEF ChangeRole
<1>27. CASE CommandEnds
  <2> HIDE DEF Off, Done
  <2> QED
    BY <1>27, <1>d, <1>o DEF CommandEnds
<1> QED
  BY <1>1, <1>2, <1>3, <1>4, <1>5, <1>6, <1>7, <1>8, <1>9, <1>10, <1>11, 
     <1>12, <1>13, <1>14, <1>15, <1>16, <1>17, <1>18, <1>19, <1>20, <1>21, 
     <1>22, <1>23, <1>24, <1>25, <1>26, <1>27 DEF Commands

LEMMA CommandControl ==
  ASSUME ~RoleMovesAnytime, ~Orphans, Inv, Commands
  PROVE  Orderly' /\ Alone'
<1> USE DataDirAssumption, SystemAssumption
    DEF Boot, Idle, To, Restore, GuardUnchanged, StageUnchanged, RestoreUnchanged, disk, markers,
       env, dirVars, cliVars, At, Goto, Issue, Running, Off, Done,
       Inv, TypeOK, TypeCorrect, Orderly, Alone, Restoring, Swapping, Phase, Attempt
<1>1. CASE Reseed
  BY <1>1 DEF Reseed
<1>2. CASE ReseedStages
  BY <1>2 DEF ReseedStages
<1>3. CASE ReseedStaged
  BY <1>3 DEF ReseedStaged
<1>4. CASE ReseedStops
  BY <1>4 DEF ReseedStops
<1>5. CASE ReseedWaits
  BY <1>5 DEF ReseedWaits
<1>6. CASE ReseedRestartFails
  BY <1>6 DEF ReseedRestartFails
<1>7. CASE ReseedDisarms
  <2>1. ~Swapping /\ Running /\ mark = None
    BY <1>7 DEF ReseedDisarms, Disarmable, Locked
  <2>2. cli.id # None /\ intent = "standby" /\ tier = "k8s" /\ rmark = None
    BY <1>7 DEF ReseedDisarms
  <2>3. Orderly'
    BY <1>7, <2>1, <2>2 DEF ReseedDisarms
  <2>4. Alone'
    BY <1>7, <2>1, <2>2 DEF ReseedDisarms
  <2> QED
    BY <2>3, <2>4
<1>8. CASE ReseedChecks
  BY <1>8 DEF ReseedChecks
<1>9. CASE ReseedDiscards
  BY <1>9 DEF ReseedDiscards
<1>10. CASE SetRestoreMarker
  BY <1>10 DEF SetRestoreMarker
<1>11. CASE RolloutRestart
  BY <1>11 DEF RolloutRestart
<1>12. CASE Proven
  BY <1>12 DEF Proven
<1>13. CASE RetirePrevious
  BY <1>13 DEF RetirePrevious
<1>14. CASE ClearRestoreMarker
  BY <1>14 DEF ClearRestoreMarker
<1>15. CASE RemoveRecord
  BY <1>15 DEF RemoveRecord
<1>16. CASE RemoveDiscard
  BY <1>16 DEF RemoveDiscard
<1>17. CASE Abandon
  BY <1>17 DEF Abandon
<1>18. CASE ComposeRestore
  BY <1>18 DEF ComposeRestore
<1>19. CASE ComposeStopsDb
  BY <1>19 DEF ComposeStopsDb
<1>20. CASE ComposeRuns
  BY <1>20 DEF ComposeRuns
<1>21. CASE ComposeRan
  BY <1>21 DEF ComposeRan
<1>22. CASE ComposeStopsRun
  BY <1>22 DEF ComposeStopsRun
<1>23. CASE ComposeProbes
  BY <1>23 DEF ComposeProbes
<1>24. CASE ComposeUp
  BY <1>24 DEF ComposeUp
<1>25. CASE ComposeStartsDb
  BY <1>25 DEF ComposeStartsDb
<1>26. CASE ChangeRole
  BY <1>26 DEF ChangeRole
<1>27. CASE CommandEnds
  BY <1>27 DEF CommandEnds
<1> QED
  BY <1>1, <1>2, <1>3, <1>4, <1>5, <1>6, <1>7, <1>8, <1>9, <1>10, <1>11, 
     <1>12, <1>13, <1>14, <1>15, <1>16, <1>17, <1>18, <1>19, <1>20, <1>21, 
     <1>22, <1>23, <1>24, <1>25, <1>26, <1>27 DEF Commands

LEMMA CommandData ==
  ASSUME ~RoleMovesAnytime, ~Orphans, Inv, Commands
  PROVE  Data'
<1>a. dir \in [Place -> SUBSET File]
  BY DEF Inv, TypeOK, TypeCorrect
<1> USE DataDirAssumption, SystemAssumption
    DEF Boot, Idle, To, Restore, GuardUnchanged, StageUnchanged, RestoreUnchanged, disk, markers,
       env, dirVars, cliVars, At, Goto, Issue, Running, Off, Done,
       Inv, Data, TypeOK, TypeCorrect, Orderly, Alone, Restoring, Swapping, Place, Empty,
       Phase, Attempt, Tree
<1>1. CASE Reseed
  BY <1>1, Trees
  DEF Reseed, Settled, HoldsOne, Fresh, ReseedWhole, OneMovesOut, Proves, Cluster,
         RestoreWhole, Kept
<1>2. CASE ReseedStages
  BY <1>2, Trees
  DEF ReseedStages, Settled, HoldsOne, Fresh, ReseedWhole, OneMovesOut, Proves, Cluster,
         RestoreWhole, Kept
<1>3. CASE ReseedStaged
  BY <1>3, Trees
  DEF ReseedStaged, Settled, HoldsOne, Fresh, ReseedWhole, OneMovesOut, Proves, Cluster,
         RestoreWhole, Kept
<1>4. CASE ReseedStops
  BY <1>4, Trees
  DEF ReseedStops, Settled, HoldsOne, Fresh, ReseedWhole, OneMovesOut, Proves, Cluster,
         RestoreWhole, Kept
<1>5. CASE ReseedWaits
  BY <1>5, Trees
  DEF ReseedWaits, Settled, HoldsOne, Fresh, ReseedWhole, OneMovesOut, Proves, Cluster,
         RestoreWhole, Kept
<1>6. CASE ReseedRestartFails
  BY <1>6, Trees
  DEF ReseedRestartFails, Settled, HoldsOne, Fresh, ReseedWhole, OneMovesOut, Proves, Cluster,
         RestoreWhole, Kept
<1>7. CASE ReseedDisarms
  BY <1>7, Trees
  DEF ReseedDisarms, Disarmable, Locked, Settled, HoldsOne, Fresh, ReseedWhole, OneMovesOut, Proves, Cluster,
         RestoreWhole, Kept
<1>8. CASE ReseedChecks
  BY <1>8, Trees
  DEF ReseedChecks, Settled, HoldsOne, Fresh, ReseedWhole, OneMovesOut, Proves, Cluster,
         RestoreWhole, Kept
<1>9. CASE ReseedDiscards
  <2>1. Settled'
    <3>1. CASE Rm("discard")
      BY <1>9, Trees, <1>a, <3>1, Removed DEF ReseedDiscards, Settled, HoldsOne, Fresh
    <3>2. CASE Rm("retired")
      BY <1>9, Trees, <1>a, <3>2, Removed DEF ReseedDiscards, Settled, HoldsOne, Fresh
    <3>3. CASE ~Rm("discard") /\ ~Rm("retired")
      BY <1>9, Trees, <3>3 DEF ReseedDiscards, Settled, HoldsOne, Fresh
    <3> QED
      BY <3>1, <3>2, <3>3
  <2>2. ReseedWhole'
    <3>1. CASE Rm("discard")
      BY <1>9, Trees, <1>a, <3>1, Removed DEF ReseedDiscards, ReseedWhole, OneMovesOut, Proves, Cluster
    <3>2. CASE Rm("retired")
      BY <1>9, Trees, <1>a, <3>2, Removed DEF ReseedDiscards, ReseedWhole, OneMovesOut, Proves, Cluster
    <3>3. CASE ~Rm("discard") /\ ~Rm("retired")
      BY <1>9, Trees, <3>3 DEF ReseedDiscards, ReseedWhole, OneMovesOut, Proves, Cluster
    <3> QED
      BY <3>1, <3>2, <3>3
  <2>3. RestoreWhole'
    <3>1. CASE Rm("discard")
      BY <1>9, Trees, <1>a, <3>1, Removed DEF ReseedDiscards, RestoreWhole
    <3>2. CASE Rm("retired")
      BY <1>9, Trees, <1>a, <3>2, Removed DEF ReseedDiscards, RestoreWhole
    <3>3. CASE ~Rm("discard") /\ ~Rm("retired")
      BY <1>9, Trees, <3>3 DEF ReseedDiscards, RestoreWhole
    <3> QED
      BY <3>1, <3>2, <3>3
  <2>4. Kept'
    <3>1. CASE Rm("discard")
      BY <1>9, Trees, <1>a, <3>1, Removed DEF ReseedDiscards, Kept
    <3>2. CASE Rm("retired")
      BY <1>9, Trees, <1>a, <3>2, Removed DEF ReseedDiscards, Kept
    <3>3. CASE ~Rm("discard") /\ ~Rm("retired")
      BY <1>9, Trees, <3>3 DEF ReseedDiscards, Kept
    <3> QED
      BY <3>1, <3>2, <3>3
  <2> QED
    BY <2>1, <2>2, <2>3, <2>4
<1>10. CASE SetRestoreMarker
  BY <1>10, Trees
  DEF SetRestoreMarker, Settled, HoldsOne, Fresh, ReseedWhole, OneMovesOut, Proves, Cluster,
         RestoreWhole, Kept
<1>11. CASE RolloutRestart
  BY <1>11, Trees
  DEF RolloutRestart, Settled, HoldsOne, Fresh, ReseedWhole, OneMovesOut, Proves, Cluster,
         RestoreWhole, Kept
<1>12. CASE Proven
  BY <1>12, Trees
  DEF Proven, Settled, HoldsOne, Fresh, ReseedWhole, OneMovesOut, Proves, Cluster,
         RestoreWhole, Kept
<1>13. CASE RetirePrevious
  <2>1. Settled'
    BY <1>13, Trees DEF RetirePrevious, Settled, HoldsOne, Fresh
  <2>2. ReseedWhole'
    BY <1>13, Trees DEF RetirePrevious, ReseedWhole, OneMovesOut, Proves, Cluster
  <2>3. RestoreWhole'
    BY <1>13, Trees DEF RetirePrevious, RestoreWhole
  <2>4. Kept'
    BY <1>13, Trees DEF RetirePrevious, Kept
  <2> QED
    BY <2>1, <2>2, <2>3, <2>4
<1>14. CASE ClearRestoreMarker
  BY <1>14, Trees
  DEF ClearRestoreMarker, Settled, HoldsOne, Fresh, ReseedWhole, OneMovesOut, Proves, Cluster,
         RestoreWhole, Kept
<1>15. CASE RemoveRecord
  BY <1>15, Trees
  DEF RemoveRecord, Settled, HoldsOne, Fresh, ReseedWhole, OneMovesOut, Proves, Cluster,
         RestoreWhole, Kept
<1>16. CASE RemoveDiscard
  <2>1. Settled'
    <3>1. CASE Rm("discard")
      BY <1>16, Trees, <1>a, <3>1, Removed DEF RemoveDiscard, Settled, HoldsOne, Fresh
    <3>2. CASE Rm("retired")
      BY <1>16, Trees, <1>a, <3>2, Removed DEF RemoveDiscard, Settled, HoldsOne, Fresh
    <3>3. CASE ~Rm("discard") /\ ~Rm("retired")
      BY <1>16, Trees, <3>3 DEF RemoveDiscard, Settled, HoldsOne, Fresh
    <3> QED
      BY <3>1, <3>2, <3>3
  <2>2. ReseedWhole'
    <3>1. CASE Rm("discard")
      BY <1>16, Trees, <1>a, <3>1, Removed DEF RemoveDiscard, ReseedWhole, OneMovesOut, Proves, Cluster
    <3>2. CASE Rm("retired")
      BY <1>16, Trees, <1>a, <3>2, Removed DEF RemoveDiscard, ReseedWhole, OneMovesOut, Proves, Cluster
    <3>3. CASE ~Rm("discard") /\ ~Rm("retired")
      BY <1>16, Trees, <3>3 DEF RemoveDiscard, ReseedWhole, OneMovesOut, Proves, Cluster
    <3> QED
      BY <3>1, <3>2, <3>3
  <2>3. RestoreWhole'
    <3>1. CASE Rm("discard")
      BY <1>16, Trees, <1>a, <3>1, Removed DEF RemoveDiscard, RestoreWhole
    <3>2. CASE Rm("retired")
      BY <1>16, Trees, <1>a, <3>2, Removed DEF RemoveDiscard, RestoreWhole
    <3>3. CASE ~Rm("discard") /\ ~Rm("retired")
      BY <1>16, Trees, <3>3 DEF RemoveDiscard, RestoreWhole
    <3> QED
      BY <3>1, <3>2, <3>3
  <2>4. Kept'
    <3>1. CASE Rm("discard")
      BY <1>16, Trees, <1>a, <3>1, Removed DEF RemoveDiscard, Kept
    <3>2. CASE Rm("retired")
      BY <1>16, Trees, <1>a, <3>2, Removed DEF RemoveDiscard, Kept
    <3>3. CASE ~Rm("discard") /\ ~Rm("retired")
      BY <1>16, Trees, <3>3 DEF RemoveDiscard, Kept
    <3> QED
      BY <3>1, <3>2, <3>3
  <2> QED
    BY <2>1, <2>2, <2>3, <2>4
<1>17. CASE Abandon
  BY <1>17, Trees
  DEF Abandon, Settled, HoldsOne, Fresh, ReseedWhole, OneMovesOut, Proves, Cluster,
         RestoreWhole, Kept
<1>18. CASE ComposeRestore
  BY <1>18, Trees
  DEF ComposeRestore, Settled, HoldsOne, Fresh, ReseedWhole, OneMovesOut, Proves, Cluster,
         RestoreWhole, Kept
<1>19. CASE ComposeStopsDb
  BY <1>19, Trees
  DEF ComposeStopsDb, Settled, HoldsOne, Fresh, ReseedWhole, OneMovesOut, Proves, Cluster,
         RestoreWhole, Kept
<1>20. CASE ComposeRuns
  BY <1>20, Trees
  DEF ComposeRuns, Settled, HoldsOne, Fresh, ReseedWhole, OneMovesOut, Proves, Cluster,
         RestoreWhole, Kept
<1>21. CASE ComposeRan
  BY <1>21, Trees
  DEF ComposeRan, Settled, HoldsOne, Fresh, ReseedWhole, OneMovesOut, Proves, Cluster,
         RestoreWhole, Kept
<1>22. CASE ComposeStopsRun
  BY <1>22, Trees
  DEF ComposeStopsRun, Settled, HoldsOne, Fresh, ReseedWhole, OneMovesOut, Proves, Cluster,
         RestoreWhole, Kept
<1>23. CASE ComposeProbes
  BY <1>23, Trees
  DEF ComposeProbes, Settled, HoldsOne, Fresh, ReseedWhole, OneMovesOut, Proves, Cluster,
         RestoreWhole, Kept
<1>24. CASE ComposeUp
  BY <1>24, Trees
  DEF ComposeUp, Settled, HoldsOne, Fresh, ReseedWhole, OneMovesOut, Proves, Cluster,
         RestoreWhole, Kept
<1>25. CASE ComposeStartsDb
  BY <1>25, Trees
  DEF ComposeStartsDb, Settled, HoldsOne, Fresh, ReseedWhole, OneMovesOut, Proves, Cluster,
         RestoreWhole, Kept
<1>26. CASE ChangeRole
  BY <1>26, Trees
  DEF ChangeRole, Settled, HoldsOne, Fresh, ReseedWhole, OneMovesOut, Proves, Cluster,
         RestoreWhole, Kept
<1>27. CASE CommandEnds
  BY <1>27, Trees
  DEF CommandEnds, Settled, HoldsOne, Fresh, ReseedWhole, OneMovesOut, Proves, Cluster,
         RestoreWhole, Kept
<1> QED
  BY <1>1, <1>2, <1>3, <1>4, <1>5, <1>6, <1>7, <1>8, <1>9, <1>10, <1>11, 
     <1>12, <1>13, <1>14, <1>15, <1>16, <1>17, <1>18, <1>19, <1>20, <1>21, 
     <1>22, <1>23, <1>24, <1>25, <1>26, <1>27 DEF Commands

-----------------------------------------------------------------------------
(* The invariant, and the theorems.                                        *)

LEMMA Initially == Init => Inv
<1> SUFFICES ASSUME Init PROVE Inv
  OBVIOUS
<1>0. 0 \in Tree /\ Whole(0) \subseteq File
  <2>1. 0 \in Tree
    BY DataDirAssumption DEF Tree
  <2> QED
    BY <2>1, Trees
<1> USE DataDirAssumption, SystemAssumption DEF Init, Blank, Off, Idle, Phase, Attempt, Tree
<1>1. dir \in [Place -> SUBSET File]
  BY <1>0 DEF On
<1>2. TypeOK
  <2>1. TypeCorrect
    BY <1>1 DEF TypeCorrect, DbState, RestoreState, StageState
  <2>2. cli \in [op : {"none", "reseed", "restore"}, step : Step,
                 id : Attempt \cup {None}, same : BOOLEAN]
    <3>1. 1 \in Attempt /\ {"none", "wait"} \subseteq Step
      BY DEF Step
    <3>2. cli = Off \/ cli = [op |-> "restore", step |-> "wait", id |-> 1, same |-> FALSE]
      BY DEF Init
    <3> HIDE DEF Init, Off
    <3>3. Off \in [op : {"none", "reseed", "restore"}, step : Step,
                   id : Attempt \cup {None}, same : BOOLEAN]
      BY <3>1 DEF Off
    <3>4. [op |-> "restore", step |-> "wait", id |-> 1, same |-> FALSE] \in
            [op : {"none", "reseed", "restore"}, step : Step,
             id : Attempt \cup {None}, same : BOOLEAN]
      BY <3>1
    <3> QED
      BY <3>2, <3>3, <3>4
  <2>3. issued \in 0 .. MaxAttempt /\ good \in Tree \cup {None}
    BY <1>0
  <2> QED
    BY <2>1, <2>2, <2>3 DEF TypeOK
<1>3. Orderly
  BY DEF Orderly, Restoring
<1>4. Alone
  BY DEF Alone, At, Running, Swapping
<1>5. Data
  <2>1. dir["prev"] = {} /\ (dir["root"] = Whole(0) \/ dir["root"] = {})
    BY DEF On, Place
  <2>2. Settled
    BY <1>0, <2>1 DEF Settled, HoldsOne, Fresh, On, Place
  <2>3. ReseedWhole
    BY DEF ReseedWhole
  <2>4. RestoreWhole
    BY DEF RestoreWhole
  <2>5. Kept
    BY <1>0, <2>1 DEF Kept, On, Place
  <2> QED
    BY <2>2, <2>3, <2>4, <2>5 DEF Data
<1> QED
  BY <1>2, <1>3, <1>4, <1>5 DEF Inv

LEMMA Preserved ==
  ASSUME ~RoleMovesAnytime, ~Orphans, Inv, [Next]_vars
  PROVE  Inv'
<1>1. CASE Commands
  BY <1>1, CommandTyped, CommandControl, CommandData DEF Inv
<1>2. CASE Scripts /\ Watch
  <2>1. TypeCorrect' /\ Orderly' /\ Alone' /\ Data'
    <3>1. CASE Guard
      BY <1>2, <3>1, GuardTyped, GuardControl, GuardData
    <3>2. CASE Stage
      BY <1>2, <3>2, StageTyped, StageControl, StageData
    <3>3. CASE RestoreScript
      BY <1>2, <3>3, RestoreTyped, RestoreControl, RestoreData
    <3>4. CASE Restarts \/ PodStarts
      BY <1>2, <3>4, StartTyped, StartControl, StartData
    <3>5. CASE Faults
      BY <1>2, <3>5, FaultTyped, FaultControl, FaultData
    <3> QED
      BY <1>2, <3>1, <3>2, <3>3, <3>4, <3>5 DEF Scripts
  <2>2. TypeOK'
    BY <1>2, <2>1, Watched DEF Inv, TypeOK
  <2> QED
    BY <2>1, <2>2 DEF Inv
<1>3. CASE UNCHANGED vars
  <2> USE <1>3 DEF vars, dirVars, disk, markers, env, cliVars
  <2>1. TypeOK' /\ Orderly' /\ Alone'
    BY DEF Inv, TypeOK, TypeCorrect, Orderly, Alone, Restoring, Swapping, Running, At
  <2>2. Data'
    BY DEF Inv, Data, Settled, HoldsOne, Fresh, ReseedWhole, OneMovesOut, Proves, Cluster,
           RestoreWhole, Kept
  <2> QED
    BY <2>1, <2>2 DEF Inv
<1> QED
  BY <1>1, <1>2, <1>3 DEF Next

\* What the invariant says of postgres and of the database it serves.
LEMMA Consequences ==
  Inv => BootsWhole /\ KeepsDatabase /\ NoSwapUnderPostgres
<1> SUFFICES ASSUME Inv PROVE BootsWhole /\ KeepsDatabase /\ NoSwapUnderPostgres
  OBVIOUS
<1>1. BootsWhole
  BY DEF Inv, Data, Alone, Settled, HoldsOne, Fresh, BootsWhole
<1>2. KeepsDatabase
  BY DEF Inv, Data, Kept, KeepsDatabase
<1>3. NoSwapUnderPostgres
  BY DEF Inv, Alone, NoSwapUnderPostgres
<1> QED
  BY <1>1, <1>2, <1>3

\* Every reachable state of the volume, its scripts and its commands is well
\* typed.
THEOREM VolumeTypeCorrect ==
  ASSUME ~RoleMovesAnytime, ~Orphans
  PROVE  Spec => []TypeOK
<1>1. Inv /\ [Next]_vars => Inv'
  BY Preserved
<1>2. Inv => TypeOK
  BY DEF Inv
<1> QED
  BY Initially, <1>1, <1>2, PTL DEF Spec

\* However the scripts are killed and run again, postgres only boots over one
\* whole tree (db-guard.sh 56-62).
THEOREM VolumeBootsWhole ==
  ASSUME ~RoleMovesAnytime, ~Orphans
  PROVE  Spec => []BootsWhole
<1>1. Inv /\ [Next]_vars => Inv'
  BY Preserved
<1> QED
  BY Initially, <1>1, Consequences, PTL DEF Spec

\* The database last proven on the volume is never moved where no script looks
\* for it, and never removed before the next one is proven.
THEOREM VolumeKeepsDatabase ==
  ASSUME ~RoleMovesAnytime, ~Orphans
  PROVE  Spec => []KeepsDatabase
<1>1. Inv /\ [Next]_vars => Inv'
  BY Preserved
<1> QED
  BY Initially, <1>1, Consequences, PTL DEF Spec

\* No restore moves files under a running postgres, as long as nothing starts
\* the database while a restore container of an earlier command still runs.
THEOREM VolumeSwapsAlone ==
  ASSUME ~RoleMovesAnytime, ~Orphans
  PROVE  Spec => []NoSwapUnderPostgres
<1>1. Inv /\ [Next]_vars => Inv'
  BY Preserved
<1> QED
  BY Initially, <1>1, Consequences, PTL DEF Spec

-----------------------------------------------------------------------------
(* Attempts are numbered as they are issued, and so are the trees they     *)
(* stage: what is on the volume was staged before what is not yet.         *)

Upto(n) == {t \in Tree : t <= n} \X (Entry \cup {Id})

\* A command of a new attempt, none of whose scripts has run.
Unused == At("reseed", "stage") \/ At("restore", "stop") \/ At("restore", "run")
Used == IF Unused THEN issued - 1 ELSE issued
Ids == (0 .. Used) \cup {None}

\* No file and no marker is of an attempt no script has run for.
Numbered ==
  /\ \A p \in Place : dir[p] \subseteq Upto(Used)
  /\ ready \in Ids /\ from \in Ids /\ good \in Ids
  /\ stager.id \in Ids /\ restorer.id \in Ids
  /\ mark # None => mark.id \in Ids
  /\ Unused => issued > 0
  /\ cli.op # "none" => cli.id = issued
  /\ secret # None => secret = issued /\ tier = "k8s"

\* A tree staged for a reseed is younger than the one it takes the place of.
StagedLater ==
  /\ stager.pc \in {"clear", "copy"} => dir["root"] \subseteq Upto(stager.id - 1)
  /\ ready # None /\ mark = None /\ rmark = None => dir["root"] \subseteq Upto(ready - 1)
  /\ mark # None /\ mark.phase = "out" =>
       dir["root"] \cup dir["discard"] \subseteq Upto(mark.id - 1)
  /\ restorer.pc \in {"movein", "drop", "record"} => ready = None

\* A restore swaps in once: its attempt is younger than the database last
\* proven, or the volume records that it has swapped in.
Older(id) == good = None \/ good < id
RestoredOnce ==
  /\ restorer.pc = "record" => from = restorer.id
  /\ secret # None /\ rmark = None =>
       dir["root"] \subseteq Upto(secret - 1) \/ from = secret
  /\ secret # None => Older(secret) \/ from = secret
  /\ restorer.pc # "idle" /\ restorer.id # None /\ rmark = None =>
       Older(restorer.id) \/ (restorer.pc = "start" /\ Restored)
  /\ restorer.pc # "idle" /\ secret # None /\ restorer.id \notin {None, secret} => Older(secret)
  /\ cli.op = "restore" /\ cli.step \in {"clean", "sweep"} => secret = None

\* The database kept from before an unproven restore is whole, or on its way.
KeptWhole ==
  /\ rmark = "out" => \E t \in Tree : dir["root"] \cup dir["prev"] = Whole(t)
  /\ rmark # "out" => dir["prev"] = {} \/ \E t \in Tree : dir["prev"] = Whole(t)

Ordered == Numbered /\ StagedLater /\ RestoredOnce /\ KeptWhole

LEMMA UptoTrees ==
  /\ \A m, n \in Int : m <= n => Upto(m) \subseteq Upto(n)
  /\ \A t \in Tree, n \in Int : Whole(t) \subseteq Upto(n) <=> t <= n
  /\ \A t \in Tree, n \in Int, e \in Entry \cup {Id} : t <= n => <<t, e>> \in Upto(n)
  /\ \A a \in Attempt : a \in Tree /\ a \in Int
  /\ Tree \subseteq Int
<1>1. Tree \subseteq Int /\ Attempt \subseteq Tree
  BY DataDirAssumption DEF Tree, Attempt
<1>2. ASSUME NEW m \in Int, NEW n \in Int, m <= n PROVE Upto(m) \subseteq Upto(n)
  <2>1. \A t \in Tree : t <= m => t <= n
    BY <1>1, <1>2
  <2> QED
    BY <2>1 DEF Upto
<1>3. ASSUME NEW t \in Tree, NEW n \in Int PROVE Whole(t) \subseteq Upto(n) <=> t <= n
  <2>1. <<t, Version>> \in Whole(t)
    BY Trees
  <2>2. <<t, Version>> \in Upto(n) => t <= n
    BY DEF Upto
  <2>3. t <= n => Whole(t) \subseteq Upto(n)
    BY DEF Upto, Whole
  <2> QED
    BY <2>1, <2>2, <2>3
<1>4. \A t \in Tree, n \in Int, e \in Entry \cup {Id} : t <= n => <<t, e>> \in Upto(n)
  BY DEF Upto
<1> QED
  BY <1>1, <1>2, <1>3, <1>4

\* Moving and removing files makes none.
LEMMA Carried ==
  ASSUME dir \in [Place -> SUBSET File], NEW p \in Place, NEW q \in Place \ {p},
         Rm(p) \/ Mv(p, q), NEW S, \A r \in Place : dir[r] \subseteq S
  PROVE  \A r \in Place : dir'[r] \subseteq S
<1>1. CASE Rm(p)
  BY <1>1, Removed
<1>2. CASE Mv(p, q)
  <2>1. PICK f \in Cluster(p) : /\ dir'[p] = dir[p] \ {f} /\ dir'[q] = dir[q] \cup {f}
                                /\ \A r \in Place \ {p, q} : dir'[r] = dir[r]
    BY <1>2, Moved
  <2>2. f \in S
    BY DEF Cluster
  <2> QED
    BY <2>1, <2>2
<1> QED
  BY <1>1, <1>2

\* What a step of a script writes was on the volume, or is its own attempt.
Sourced ==
  /\ ready' \in {ready, None, stager.id} /\ from' \in {from, restorer.id}
  /\ stager'.id \in {stager.id, None} /\ restorer'.id \in {restorer.id, None, secret}
  /\ mark' # None => mark'.id = ready \/ (mark # None /\ mark'.id = mark.id)
  /\ good' = good \/ (mark # None /\ good' = mark.id)
  /\ UNCHANGED env

LEMMA ScriptSources ==
  ASSUME Inv, Scripts, Watch
  PROVE  Sourced
<1>w. good' = good \/ (mark # None /\ good' = mark.id)
  BY DEF Watch
<1>t. stager.id \in {stager.id, None} /\ restorer.id \in {restorer.id, None, secret}
  OBVIOUS
<1> USE <1>w, <1>t DEF Sourced, env, disk, markers, GuardUnchanged, StageUnchanged, RestoreUnchanged
<1>1. CASE Guard
  <2>1. mark # None => [mark EXCEPT !.phase = "in"].id = mark.id
    BY DEF Inv, TypeOK, TypeCorrect
  <2>2. UNCHANGED <<env, restorer, stager, from>>
    BY <1>1 DEF Guard, GuardExits, GuardBoots, GuardChooses, GuardRefuses, GuardClears,
                GuardMovesOut, GuardRollsBack, GuardUnstages, GuardMovesIn, GuardUnstamps,
                GuardFinishes
  <2>3. ready' \in {ready, None}
    BY <1>1 DEF Guard, GuardExits, GuardBoots, GuardChooses, GuardRefuses, GuardClears,
                GuardMovesOut, GuardRollsBack, GuardUnstages, GuardMovesIn, GuardUnstamps,
                GuardFinishes
  <2>4. mark' \in {mark, None} \/ mark' = [phase |-> "out", id |-> ready]
        \/ (db = "out" /\ mark' = [mark EXCEPT !.phase = "in"])
    BY <1>1 DEF Guard, GuardExits, GuardBoots, GuardChooses, GuardRefuses, GuardClears,
                GuardMovesOut, GuardRollsBack, GuardUnstages, GuardMovesIn, GuardUnstamps,
                GuardFinishes
  <2>5. db = "out" => mark # None
    BY DEF Inv, Orderly
  <2>6. mark' # None => mark'.id = ready \/ (mark # None /\ mark'.id = mark.id)
    <3>1. CASE mark' \in {mark, None}
      BY <3>1
    <3>2. CASE mark' = [phase |-> "out", id |-> ready]
      BY <3>2
    <3>3. CASE db = "out" /\ mark' = [mark EXCEPT !.phase = "in"]
      BY <2>1, <2>5, <3>3
    <3> QED
      BY <2>4, <3>1, <3>2, <3>3
  <2>7. stager' = stager /\ restorer' = restorer /\ from' = from
    BY <2>2
  <2> QED
    BY <2>2, <2>3, <2>6, <2>7
<1>2. CASE Stage
  BY <1>2 DEF Stage, StageClears, StageCopies, StageArms, StageFails, StageUndoes, To, Idle,
              Inv, TypeOK, TypeCorrect
<1>3. CASE RestoreScript
  <2>1. restorer \in [pc : RestoreState, id : Attempt \cup {None}]
    BY DEF Inv, TypeOK, TypeCorrect
  <2>2. restorer' = Idle \/ \E c \in RestoreState : restorer' = [restorer EXCEPT !.pc = c]
    BY <1>3, <2>1 DEF RestoreScript, RestoreSkips, RestoreLocks, RestoreClears, RestoreFetches,
              RestoreFails, RestoreSettles, Settle, RestoreSetsAside, RestoreKeepsOld,
              RestoreSweeps, RestoreMovesIn, RestoreDrops, RestoreFinishes, Restore, RestoreState
  <2>3. restorer'.id \in {restorer.id, None}
    BY <2>1, <2>2 DEF Idle
  <2>4. ready' \in {ready, None} /\ mark' \in {mark, None} /\ from' \in {from, restorer.id}
        /\ stager' = stager /\ UNCHANGED env
    BY <1>3 DEF RestoreScript, RestoreSkips, RestoreLocks, RestoreClears, RestoreFetches,
              RestoreFails, RestoreSettles, Settle, RestoreSetsAside, RestoreKeepsOld,
              RestoreSweeps, RestoreMovesIn, RestoreDrops, RestoreFinishes
  <2> QED
    BY <2>3, <2>4
<1>4. CASE Restarts \/ PodStarts \/ Faults
  BY <1>4 DEF Restarts, PodStarts, Faults, KillDb, KillPod, KillRestore, LoseStage, Idle
<1> QED
  BY <1>1, <1>2, <1>3, <1>4 DEF Scripts

\* The files a script's step leaves are what was there and its own attempt's.
LEMMA ScriptFiles ==
  ASSUME Inv, Scripts, NEW n \in Int, \A p \in Place : dir[p] \subseteq Upto(n),
         stager.id = None \/ stager.id <= n, restorer.id = None \/ restorer.id <= n
  PROVE  \A p \in Place : dir'[p] \subseteq Upto(n)
<1>a. dir \in [Place -> SUBSET File]
  BY DEF Inv, TypeOK, TypeCorrect
<1>1. CASE UNCHANGED dir
  BY <1>1
<1>2. CASE \E p \in Place : Rm(p)
  <2>1. PICK p \in Place : Rm(p)
    BY <1>2
  <2>2. \E q \in Place : q # p
    BY DEF Place
  <2> QED
    BY <1>a, <2>1, <2>2, Carried
<1>3. CASE \E p \in Place : \E q \in Place \ {p} : Mv(p, q)
  BY <1>a, <1>3, Carried
<1>4. CASE \E p \in Place, e \in Entry \cup {Id}, a \in {stager.id, restorer.id} \ {None} :
             Add(p, <<a, e>>)
  <2>1. PICK p \in Place, e \in Entry \cup {Id}, a \in {stager.id, restorer.id} \ {None} :
               Add(p, <<a, e>>)
    BY <1>4
  <2>2. a \in Attempt /\ a <= n
    BY DEF Inv, TypeOK, TypeCorrect
  <2>3. <<a, e>> \in Upto(n)
    BY <2>2, UptoTrees
  <2> QED
    BY <1>a, <2>1, <2>3, Added
<1>5. CASE \E p \in Place : \E S : dir' = [dir EXCEPT ![p] = @ \ S]
  BY <1>a, <1>5
<1> USE DEF disk, Place, StageUnchanged, RestoreUnchanged, GuardUnchanged
<1>6. CASE Guard
  BY <1>1, <1>2, <1>3, <1>6
  DEF Guard, GuardExits, GuardBoots, GuardChooses, GuardRefuses, GuardClears,
      GuardMovesOut, GuardRollsBack, GuardUnstages, GuardMovesIn, GuardUnstamps, GuardFinishes
<1>7. CASE Stage
  <2>1. stager.pc # "idle" => stager.id # None
    BY DEF Inv, Orderly
  <2>2. CASE StageCopies
    BY <1>4, <2>1, <2>2 DEF StageCopies
  <2> QED
    BY <1>1, <1>2, <1>7, <2>2 DEF Stage, StageClears, StageArms, StageFails, StageUndoes
<1>8. CASE RestoreScript
  <2>1. restorer.pc = "fetch" => restorer.id # None
    BY DEF Inv, Orderly, Restoring
  <2>2. CASE RestoreFetches
    BY <1>1, <1>4, <2>1, <2>2 DEF RestoreFetches
  <2>3. CASE RestoreFails
    <3>1. dir' = [dir EXCEPT !["restore"] = @ \ dir["restore"]]
      BY <1>a, <2>3 DEF RestoreFails
    <3> QED
      BY <1>5, <3>1
  <2> QED
    BY <1>1, <1>2, <1>3, <1>8, <2>2, <2>3
    DEF RestoreScript, RestoreSkips, RestoreLocks, RestoreClears, RestoreSettles,
        RestoreSetsAside, RestoreKeepsOld, RestoreSweeps, RestoreMovesIn, RestoreDrops,
        RestoreFinishes
<1>9. CASE Restarts \/ PodStarts \/ Faults
  BY <1>1, <1>5, <1>9 DEF Restarts, PodStarts, Faults, KillDb, KillPod, KillRestore, LoseStage
<1> QED
  BY <1>6, <1>7, <1>8, <1>9 DEF Scripts

LEMMA ScriptNumbered ==
  ASSUME Inv, Inv', Numbered, Scripts, Watch
  PROVE  Numbered'
<1>1. Sourced
  BY ScriptSources
<1>2. cli'.op = cli.op /\ cli'.step = cli.step /\ cli'.id = cli.id /\ issued' = issued
  BY Watched DEF Inv, Watch
<1>3. Used' = Used /\ Ids' = Ids /\ (Unused' <=> Unused)
  BY <1>2 DEF Used, Ids, Unused, At
<1>4. Used \in Int /\ issued \in Nat
  <2>1. issued \in Nat
    BY DataDirAssumption DEF Inv, TypeOK
  <2> QED
    BY <2>1 DEF Used
<1>5. \A p \in Place : dir'[p] \subseteq Upto(Used)
  <2>1. stager.id = None \/ stager.id <= Used
    BY <1>4 DEF Numbered, Ids
  <2>2. restorer.id = None \/ restorer.id <= Used
    BY <1>4 DEF Numbered, Ids
  <2> HIDE DEF Used
  <2> QED
    BY <1>4, <2>1, <2>2, ScriptFiles DEF Numbered
<1>6. secret \in Ids
  <2>1. secret # None => ~Unused
    BY DEF Numbered, Unused, At, Inv, Alone, Orderly
  <2> QED
    BY <1>4, <2>1 DEF Numbered, Used, Ids
<1>7. None \in Ids
  BY DEF Ids
<1> QED
  BY <1>1, <1>2, <1>3, <1>5, <1>6, <1>7 DEF Numbered, Sourced, env

\* Nor does a command make files.
LEMMA CommandFiles ==
  ASSUME Inv, Commands, NEW S, \A p \in Place : dir[p] \subseteq S
  PROVE  \A p \in Place : dir'[p] \subseteq S
<1>a. dir \in [Place -> SUBSET File]
  BY DEF Inv, TypeOK, TypeCorrect
<1>1. CASE UNCHANGED dir
  BY <1>1
<1>2. CASE \E p \in Place : Rm(p)
  <2>1. PICK p \in Place : Rm(p)
    BY <1>2
  <2>2. \E q \in Place : q # p
    BY DEF Place
  <2> QED
    BY <1>a, <2>1, <2>2, Carried
<1>3. CASE RetirePrevious
  <2>1. dir' = [dir EXCEPT !["retired"] = @ \cup dir["prev"], !["prev"] = {}]
    BY <1>3 DEF RetirePrevious
  <2> QED
    BY <1>a, <2>1 DEF Place
<1> QED
  BY <1>1, <1>2, <1>3
  DEF Commands, Reseed, ReseedStages, ReseedStaged, ReseedStops, ReseedWaits,
      ReseedRestartFails, ReseedDisarms, ReseedChecks, ReseedDiscards, SetRestoreMarker,
      RolloutRestart, Proven, ClearRestoreMarker, RemoveRecord, RemoveDiscard, Abandon,
      ComposeRestore, ComposeStopsDb, ComposeRuns, ComposeRan, ComposeStopsRun, ComposeProbes,
      ComposeUp, ComposeStartsDb, ChangeRole, CommandEnds, dirVars, disk, Place

\* An attempt is used from the first step that leaves it anything.
LEMMA UsedGrows ==
  ASSUME Inv, Numbered, Commands
  PROVE  /\ Used \in Int /\ Used' \in Int /\ Used <= Used' /\ Used' <= issued'
         /\ Unused' => issued' > 0
         /\ cli'.op # "none" => cli'.id = issued'
<1>1. issued \in Nat /\ Used \in Int
  BY DataDirAssumption DEF Inv, TypeOK, Used
<1>2. CASE \E op \in {"reseed", "restore"}, step \in Step : Issue(op, step)
  <2>1. issued' = issued + 1 /\ cli'.id = issued + 1 /\ cli.op = "none"
    BY <1>2 DEF Issue
  <2> QED
    BY <1>1, <2>1 DEF Used, Unused, At
<1>3. CASE issued' = issued /\ (cli'.op = "none" \/ (cli'.op = cli.op /\ cli'.id = cli.id))
           /\ (Unused' => Unused)
  BY <1>1, <1>3 DEF Used, Numbered
<1>4. cli \in [op : {"none", "reseed", "restore"}, step : Step, id : Attempt \cup {None}, same : BOOLEAN]
  BY DEF Inv, TypeOK
<1> USE DEF Unused, At, Goto, Off, Done, cliVars
<1>5. CASE Reseed \/ SetRestoreMarker \/ ComposeRestore
  BY <1>2, <1>5 DEF Reseed, SetRestoreMarker, ComposeRestore, Step
<1>6. CASE ReseedStages \/ ReseedStaged \/ ReseedStops \/ ReseedWaits \/ ReseedRestartFails
           \/ ReseedDisarms \/ ReseedChecks \/ ReseedDiscards \/ RolloutRestart \/ Proven
  BY <1>3, <1>4, <1>6
  DEF ReseedStages, ReseedStaged, ReseedStops, ReseedWaits, ReseedRestartFails, ReseedDisarms,
      ReseedChecks, ReseedDiscards, RolloutRestart, Proven
<1>7. CASE RetirePrevious \/ ClearRestoreMarker \/ RemoveRecord \/ RemoveDiscard \/ Abandon
           \/ ComposeStopsDb \/ ComposeRuns \/ ComposeRan
  BY <1>3, <1>4, <1>7
  DEF RetirePrevious, ClearRestoreMarker, RemoveRecord, RemoveDiscard, Abandon,
      ComposeStopsDb, ComposeRuns, ComposeRan
<1>8. CASE ComposeStopsRun \/ ComposeProbes \/ ComposeUp \/ ComposeStartsDb \/ ChangeRole
           \/ CommandEnds
  BY <1>3, <1>4, <1>8
  DEF ComposeStopsRun, ComposeProbes, ComposeUp, ComposeStartsDb, ChangeRole, CommandEnds
<1> QED
  BY <1>5, <1>6, <1>7, <1>8 DEF Commands

LEMMA CommandNumbered ==
  ASSUME ~Orphans, Inv, Inv', Numbered, Commands
  PROVE  Numbered'
<1>1. /\ Used \in Int /\ Used' \in Int /\ Used <= Used' /\ Used' <= issued'
      /\ Unused' => issued' > 0
      /\ cli'.op # "none" => cli'.id = issued'
  BY UsedGrows
<1>2. \A p \in Place : dir'[p] \subseteq Upto(Used')
  <2>1. Upto(Used) \subseteq Upto(Used')
    BY <1>1, UptoTrees
  <2>2. \A p \in Place : dir'[p] \subseteq Upto(Used)
    BY CommandFiles DEF Numbered
  <2> QED
    BY <2>1, <2>2
<1>3. Ids \subseteq Ids' /\ None \in Ids
  BY <1>1 DEF Ids
<1>4. mark' = mark /\ ready' \in {ready, None} /\ from' \in {from, None}
  BY DEF Commands, Reseed, ReseedStages, ReseedStaged, ReseedStops, ReseedWaits,
      ReseedRestartFails, ReseedDisarms, ReseedChecks, ReseedDiscards, SetRestoreMarker,
      RolloutRestart, Proven, RetirePrevious, ClearRestoreMarker, RemoveRecord, RemoveDiscard, Abandon,
      ComposeRestore, ComposeStopsDb, ComposeRuns, ComposeRan, ComposeStopsRun, ComposeProbes,
      ComposeUp, ComposeStartsDb, ChangeRole, CommandEnds, dirVars, disk, markers
<1>5. good' \in Ids'
  <2>1. CASE RetirePrevious
    <3>1. good' \in Tree /\ dir["root"] = Whole(good')
      BY <2>1 DEF RetirePrevious
    <3>2. Whole(good') \subseteq Upto(Used)
      BY <3>1 DEF Numbered, Place
    <3>3. good' <= Used
      BY <1>1, <3>1, <3>2, UptoTrees
    <3>4. good' \in Nat
      BY <3>1, DataDirAssumption DEF Tree
    <3> QED
      BY <1>1, <3>3, <3>4 DEF Ids
  <2>2. CASE UNCHANGED good
    BY <1>3, <2>2 DEF Numbered
  <2> QED
    BY <2>1, <2>2 DEF Commands, Reseed, ReseedStages, ReseedStaged, ReseedStops, ReseedWaits,
      ReseedRestartFails, ReseedDisarms, ReseedChecks, ReseedDiscards, SetRestoreMarker,
      RolloutRestart, Proven, ClearRestoreMarker, RemoveRecord, RemoveDiscard, Abandon,
      ComposeRestore, ComposeStopsDb, ComposeRuns, ComposeRan, ComposeStopsRun, ComposeProbes,
      ComposeUp, ComposeStartsDb, ChangeRole, CommandEnds, cliVars
<1>6. stager'.id \in Ids' /\ restorer'.id \in Ids'
  <2>1. CASE ReseedStages \/ ReseedDisarms \/ ComposeRuns
    <3>1. issued' = issued /\ ~Unused' /\ cli.id = issued /\ issued \in Nat
      <4>1. cli.id = issued
        BY <2>1 DEF ReseedStages, ReseedDisarms, ComposeRuns, At, Numbered
      <4>2. issued' = issued /\ cli'.step \notin {"stage", "stop", "run"}
        BY <2>1 DEF ReseedStages, ReseedDisarms, ComposeRuns, Goto, Off, Inv, TypeOK
      <4>3. issued \in Nat
        BY DataDirAssumption DEF Inv, TypeOK
      <4> QED
        BY <4>1, <4>2, <4>3 DEF Unused, At
    <3>2. cli.id \in Ids'
      BY <3>1 DEF Ids, Used
    <3>3. /\ stager' = stager \/ stager'.id = cli.id
          /\ restorer' = restorer \/ restorer'.id = cli.id
      BY <2>1 DEF ReseedStages, ReseedDisarms, ComposeRuns
    <3> QED
      BY <1>3, <3>2, <3>3 DEF Numbered
  <2>2. CASE stager' \in {stager, Idle} /\ restorer' \in {restorer, Idle}
    BY <1>3, <2>2 DEF Numbered, Idle
  <2> QED
    BY <2>1, <2>2 DEF Commands, Reseed, ReseedStaged, ReseedStops, ReseedWaits,
      ReseedRestartFails, ReseedChecks, ReseedDiscards, SetRestoreMarker,
      RolloutRestart, Proven, RetirePrevious, ClearRestoreMarker, RemoveRecord, RemoveDiscard, Abandon,
      ComposeRestore, ComposeStopsDb, ComposeRan, ComposeStopsRun, ComposeProbes,
      ComposeUp, ComposeStartsDb, ChangeRole, CommandEnds, dirVars
<1>7. secret' # None => secret' = issued' /\ tier' = "k8s"
  <2>1. CASE SetRestoreMarker
    BY <2>1 DEF SetRestoreMarker, Issue
  <2>2. CASE Reseed \/ ComposeRestore
    BY <2>2 DEF Reseed, ComposeRestore, Numbered, Inv, Alone, dirVars, env
  <2>3. CASE UNCHANGED <<tier, issued>> /\ secret' \in {secret, None}
    BY <2>3 DEF Numbered
  <2> QED
    BY <2>1, <2>2, <2>3 DEF Commands, ReseedStages, ReseedStaged, ReseedStops, ReseedWaits,
      ReseedRestartFails, ReseedDisarms, ReseedChecks, ReseedDiscards,
      RolloutRestart, Proven, RetirePrevious, ClearRestoreMarker, RemoveRecord, RemoveDiscard, Abandon,
      ComposeStopsDb, ComposeRuns, ComposeRan, ComposeStopsRun, ComposeProbes,
      ComposeUp, ComposeStartsDb, ChangeRole, CommandEnds, dirVars, env, cliVars
<1> QED
  BY <1>1, <1>2, <1>3, <1>4, <1>5, <1>6, <1>7 DEF Numbered

LEMMA GuardStagesLater ==
  ASSUME Inv, Numbered, StagedLater, Guard
  PROVE  StagedLater'
<1>a. dir \in [Place -> SUBSET File]
  BY DEF Inv, TypeOK, TypeCorrect
<1>s. stager' = stager /\ restorer' = restorer /\ rmark' = rmark
  BY DEF Guard, GuardExits, GuardBoots, GuardChooses, GuardRefuses, GuardClears,
         GuardMovesOut, GuardRollsBack, GuardUnstages, GuardMovesIn, GuardUnstamps,
         GuardFinishes, GuardUnchanged, disk, markers
<1>i. Swapping => stager.pc = "idle"
  BY DEF Inv, Alone
<1> USE <1>s DEF disk, markers, Place
<1>1. CASE GuardExits \/ GuardBoots \/ GuardChooses
  BY <1>1 DEF GuardExits, GuardBoots, GuardChooses, StagedLater
<1>2. CASE GuardRefuses \/ GuardUnstamps
  <2>1. UNCHANGED mark /\ ready' \in {ready, None} /\ stager.pc = "idle"
    BY <1>i, <1>2 DEF GuardRefuses, GuardUnstamps, Swapping
  <2>2. dir'["root"] = dir["root"] /\ dir'["discard"] = dir["discard"]
    BY <1>a, <1>2, Removed DEF GuardRefuses, GuardUnstamps
  <2> QED
    BY <2>1, <2>2 DEF StagedLater
<1>3. CASE GuardClears
  <2>1. /\ ready' = ready /\ ready # None /\ mark = None /\ rmark = None
        /\ stager.pc = "idle"
    BY <1>i, <1>3 DEF GuardClears, Swapping, Inv, Orderly, Alone
  <2>2. dir'["root"] = dir["root"]
    BY <1>a, <1>3, Removed DEF GuardClears
  <2>3. dir["root"] \subseteq Upto(ready - 1)
    BY <2>1 DEF StagedLater
  <2>4. \/ mark' = None
        \/ dir'["discard"] = {} /\ mark' = [phase |-> "out", id |-> ready]
    BY <1>3, <2>1 DEF GuardClears, Empty
  <2> QED
    BY <2>1, <2>2, <2>3, <2>4 DEF StagedLater
<1>4. CASE GuardMovesOut
  <2>1. ready' = ready /\ mark # None /\ mark.phase = "out" /\ stager.pc = "idle"
    BY <1>i, <1>4 DEF GuardMovesOut, Swapping, Inv, Orderly
  <2>2. dir["root"] \cup dir["discard"] \subseteq Upto(mark.id - 1)
    BY <2>1 DEF StagedLater
  <2>3. CASE Mv("root", "discard") /\ UNCHANGED mark
    <3>1. PICK f \in Cluster("root") : /\ dir'["root"] = dir["root"] \ {f}
                                       /\ dir'["discard"] = dir["discard"] \cup {f}
      BY <1>a, <2>3, Moved
    <3>2. dir'["root"] \cup dir'["discard"] \subseteq Upto(mark.id - 1)
      BY <2>2, <3>1 DEF Cluster
    <3> QED
      BY <2>1, <2>3, <3>2 DEF StagedLater
  <2>4. CASE mark' = [mark EXCEPT !.phase = "in"]
    <3>1. mark' # None /\ mark'.phase = "in"
      <4>1. mark \in [phase : Phase, id : Attempt]
        BY <2>1 DEF Inv, TypeOK, TypeCorrect
      <4>2. mark'.phase = "in" /\ mark' \in [phase : Phase, id : Nat]
        BY <2>4, <4>1 DEF Phase, Attempt
      <4> QED
        BY <4>2, DataDirAssumption
    <3> QED
      BY <2>1, <3>1 DEF StagedLater
  <2> QED
    BY <1>4, <2>3, <2>4 DEF GuardMovesOut
<1>5. CASE GuardRollsBack
  <2>1. UNCHANGED <<ready, mark>> /\ mark # None /\ mark.phase = "out" /\ stager.pc = "idle"
    BY <1>i, <1>5 DEF GuardRollsBack, Swapping, Inv, Orderly
  <2>2. dir["root"] \cup dir["discard"] \subseteq Upto(mark.id - 1)
    BY <2>1 DEF StagedLater
  <2>3. dir'["root"] \cup dir'["discard"] \subseteq Upto(mark.id - 1)
    <3>1. CASE Mv("discard", "root")
      <4>1. PICK f \in Cluster("discard") : /\ dir'["discard"] = dir["discard"] \ {f}
                                            /\ dir'["root"] = dir["root"] \cup {f}
        BY <1>a, <3>1, Moved
      <4> QED
        BY <2>2, <4>1 DEF Cluster
    <3> QED
      BY <1>5, <2>2, <3>1 DEF GuardRollsBack
  <2> QED
    BY <2>1, <2>3 DEF StagedLater
<1>6. CASE GuardUnstages
  <2>1. mark # None /\ mark.phase = "out" /\ stager.pc = "idle"
    BY <1>i, <1>6 DEF GuardUnstages, Swapping, Inv, Orderly
  <2>2. dir'["root"] = dir["root"] /\ dir'["discard"] = dir["discard"]
    BY <1>a, <1>6, Removed DEF GuardUnstages
  <2>3. ready' \in {ready, None} /\ (mark' = mark \/ (mark' = None /\ ready' = None))
    BY <1>6 DEF GuardUnstages
  <2> QED
    BY <2>1, <2>2, <2>3 DEF StagedLater
<1>7. CASE GuardMovesIn \/ GuardFinishes
  <2>1. mark # None /\ mark.phase = "in" /\ stager.pc = "idle"
    BY <1>i, <1>7 DEF GuardMovesIn, GuardFinishes, Swapping, Inv, Orderly
  <2>2. ready' \in {ready, None} /\ (mark' = mark \/ (mark' = None /\ ready' = None))
    BY <1>7 DEF GuardMovesIn, GuardFinishes
  <2> QED
    BY <2>1, <2>2 DEF StagedLater
<1> QED
  BY <1>1, <1>2, <1>3, <1>4, <1>5, <1>6, <1>7 DEF Guard

LEMMA StageStagesLater ==
  ASSUME Inv, Numbered, StagedLater, Stage
  PROVE  StagedLater'
<1>a. dir \in [Place -> SUBSET File] /\ stager \in [pc : StageState, id : Attempt \cup {None}]
  BY DEF Inv, TypeOK, TypeCorrect
<1>s. restorer' = restorer /\ rmark' = rmark /\ mark' = mark
  BY DEF Stage, StageClears, StageCopies, StageArms, StageFails, StageUndoes, StageUnchanged
<1>i. mark = None /\ rmark = None /\ restorer.pc \notin {"movein", "drop", "record"}
  BY DEF Stage, StageClears, StageCopies, StageArms, StageFails, StageUndoes, Inv, Alone, Running
<1>1. dir'["root"] = dir["root"]
  <2>1. StageCopies => \E f : Add("stage", f)
    BY DEF StageCopies
  <2>2. CASE Rm("stage") \/ \E f : Add("stage", f)
    BY <1>a, <2>2, Removed, Added DEF Place
  <2> QED
    BY <2>1, <2>2 DEF Stage, StageClears, StageArms, StageFails, StageUndoes
<1>2. CASE StageArms
  <2>1. stager.pc = "copy" /\ ready' = stager.id /\ stager'.pc = "idle"
    BY <1>2 DEF StageArms, Idle
  <2> QED
    BY <1>1, <1>s, <1>i, <2>1 DEF StagedLater
<1>3. CASE ~StageArms
  <2>1. /\ ready' = ready
        /\ stager'.pc \in {"clear", "copy"} => stager.pc \in {"clear", "copy"} /\ stager'.id = stager.id
    BY <1>3, <1>a DEF Stage, StageClears, StageCopies, StageFails, StageUndoes, To, Idle
  <2> QED
    BY <1>1, <1>s, <1>i, <2>1 DEF StagedLater
<1> QED
  BY <1>2, <1>3

LEMMA RestoreStagesLater ==
  ASSUME Inv, Numbered, StagedLater, RestoreScript
  PROVE  StagedLater'
<1>a. dir \in [Place -> SUBSET File] /\ restorer \in [pc : RestoreState, id : Attempt \cup {None}]
  BY DEF Inv, TypeOK, TypeCorrect
<1>s. stager' = stager /\ stager.pc = "idle"
  BY DEF RestoreScript, RestoreSkips, RestoreLocks, RestoreClears, RestoreFetches,
         RestoreFails, RestoreSettles, RestoreSetsAside, RestoreKeepsOld,
         RestoreSweeps, RestoreMovesIn, RestoreDrops, RestoreFinishes, RestoreUnchanged,
         Inv, Alone, Running
<1> USE <1>s DEF Restore, disk, markers, RestoreUnchanged, Place
<1>1. CASE RestoreSkips \/ RestoreLocks
  <2>1. dir' = dir /\ ready' = ready /\ mark' = mark /\ rmark' = rmark
    BY <1>1 DEF RestoreSkips, RestoreLocks
  <2>2. restorer'.pc \in {"idle", "clear"}
    BY <1>1, <1>a DEF RestoreSkips, RestoreLocks, Idle
  <2> QED
    BY <2>1, <2>2 DEF StagedLater
<1>2. CASE RestoreClears \/ RestoreFetches \/ RestoreFails
  <2>1. restorer'.pc \in {"clear", "fetch", "settle", "idle"}
    <3>1. restorer.pc \in {"clear", "fetch"}
      BY <1>2 DEF RestoreClears, RestoreFetches, RestoreFails
    <3>2. restorer' \in {restorer, Idle} \/ Restore("fetch") \/ Restore("settle")
      BY <1>2 DEF RestoreClears, RestoreFetches, RestoreFails
    <3> QED
      BY <1>a, <3>1, <3>2 DEF Idle
  <2>2. UNCHANGED <<ready, mark, rmark>>
    BY <1>2 DEF RestoreClears, RestoreFetches, RestoreFails
  <2>3. dir'["root"] = dir["root"] /\ dir'["discard"] = dir["discard"]
    <3>1. CASE Rm("restore") \/ \E f : Add("restore", f)
      BY <1>a, <3>1, Removed, Added
    <3>2. CASE UNCHANGED dir \/ dir' = [dir EXCEPT !["restore"] = {}]
      BY <1>a, <3>2
    <3> QED
      BY <1>2, <3>1, <3>2 DEF RestoreClears, RestoreFetches, RestoreFails
  <2> QED
    BY <2>1, <2>2, <2>3 DEF StagedLater
<1>3. CASE RestoreSettles
  <2>1. restorer.id # None /\ restorer.pc = "settle"
    BY <1>3 DEF RestoreSettles, Inv, Orderly, Restoring
  <2>2. mark = None
    BY <2>1 DEF Inv, Alone
  <2>3. restorer'.pc \in {"settle", "aside", "toprev", "sweep"}
    BY <1>3, <1>a DEF RestoreSettles, Settle
  <2>4. UNCHANGED <<ready, mark>> /\ (rmark' = rmark \/ rmark' # None)
    BY <1>3, DataDirAssumption DEF RestoreSettles, Settle, Phase
  <2>5. dir'["root"] = dir["root"]
    BY <1>3, <1>a, Removed DEF RestoreSettles
  <2> QED
    BY <2>2, <2>3, <2>4, <2>5 DEF StagedLater
<1>4. CASE RestoreSetsAside \/ RestoreKeepsOld
  <2>1. rmark # None /\ mark = None /\ rmark' # None
    BY <1>4, DataDirAssumption
    DEF RestoreSetsAside, RestoreKeepsOld, Inv, Orderly, Alone, Phase
  <2>2. UNCHANGED mark /\ restorer'.pc \notin {"movein", "drop", "record"}
    BY <1>4, <1>a DEF RestoreSetsAside, RestoreKeepsOld
  <2> QED
    BY <2>1, <2>2 DEF StagedLater
<1>5. CASE RestoreSweeps
  <2>1. rmark # None /\ rmark' = rmark /\ mark = None /\ mark' = None
    BY <1>5, DataDirAssumption DEF RestoreSweeps, Inv, Orderly, Alone, Phase
  <2>2. restorer'.pc = "sweep" \/ ready' = None
    BY <1>5 DEF RestoreSweeps
  <2> QED
    BY <2>1, <2>2 DEF StagedLater
<1>6. CASE RestoreMovesIn \/ RestoreDrops \/ RestoreFinishes
  <2>1. rmark # None /\ mark = None /\ mark' = None /\ ready = None /\ ready' = None
    BY <1>6, DataDirAssumption
    DEF RestoreMovesIn, RestoreDrops, RestoreFinishes, Inv, Orderly, Alone, Phase, StagedLater
  <2> QED
    BY <2>1 DEF StagedLater
<1> QED
  BY <1>1, <1>2, <1>3, <1>4, <1>5, <1>6 DEF RestoreScript

LEMMA OthersStageLater ==
  ASSUME Inv, Numbered, StagedLater, Restarts \/ PodStarts \/ Faults
  PROVE  StagedLater'
<1>a. dir \in [Place -> SUBSET File]
  BY DEF Inv, TypeOK, TypeCorrect
<1>1. UNCHANGED <<ready, mark, rmark>> /\ stager' \in {stager, Idle}
  BY DEF Restarts, PodStarts, Faults, KillDb, KillPod, KillRestore, LoseStage, disk, markers
<1>2. dir'["root"] = dir["root"] /\ dir'["discard"] = dir["discard"]
  BY <1>a DEF Restarts, PodStarts, Faults, KillDb, KillPod, KillRestore, LoseStage, disk, Place
<1>3. restorer'.pc \in {"movein", "drop", "record"} => restorer'.pc = restorer.pc
  BY DEF Restarts, PodStarts, Faults, KillDb, KillPod, KillRestore, LoseStage, Idle
<1> QED
  BY <1>1, <1>2, <1>3 DEF StagedLater, Idle

LEMMA CommandStagesLater ==
  ASSUME Inv, Numbered, StagedLater, Commands
  PROVE  StagedLater'
<1>a. dir \in [Place -> SUBSET File]
  BY DEF Inv, TypeOK, TypeCorrect
<1>1. UNCHANGED <<mark, rmark>> /\ ready' \in {ready, None}
  BY DEF Commands, Reseed, ReseedStages, ReseedStaged, ReseedStops, ReseedWaits,
      ReseedRestartFails, ReseedDisarms, ReseedChecks, ReseedDiscards, SetRestoreMarker,
      RolloutRestart, Proven, RetirePrevious, ClearRestoreMarker, RemoveRecord, RemoveDiscard, Abandon,
      ComposeRestore, ComposeStopsDb, ComposeRuns, ComposeRan, ComposeStopsRun, ComposeProbes,
      ComposeUp, ComposeStartsDb, ChangeRole, CommandEnds, dirVars, disk, markers
<1>2. restorer'.pc \in {"movein", "drop", "record"} => restorer'.pc = restorer.pc
  BY DEF Commands, Reseed, ReseedStages, ReseedStaged, ReseedStops, ReseedWaits,
      ReseedRestartFails, ReseedDisarms, ReseedChecks, ReseedDiscards, SetRestoreMarker,
      RolloutRestart, Proven, RetirePrevious, ClearRestoreMarker, RemoveRecord, RemoveDiscard, Abandon,
      ComposeRestore, ComposeStopsDb, ComposeRuns, ComposeRan, ComposeStopsRun, ComposeProbes,
      ComposeUp, ComposeStartsDb, ChangeRole, CommandEnds, dirVars, Idle
<1>3. CASE ReseedStages
  <2>1. /\ stager' = [pc |-> "clear", id |-> cli.id] /\ ready' = None
        /\ dir' = dir /\ mark = None
    BY <1>3 DEF ReseedStages
  <2>2. Used = cli.id - 1
    BY <1>3 DEF ReseedStages, At, Used, Unused, Numbered
  <2>3. dir'["root"] \subseteq Upto(stager'.id - 1)
    BY <2>1, <2>2 DEF Numbered, Place
  <2> QED
    BY <1>1, <1>2, <2>1, <2>3 DEF StagedLater
<1>4. CASE ReseedDiscards \/ RemoveDiscard \/ RetirePrevious
  <2>1. dir'["root"] = dir["root"]
    <3>1. CASE RetirePrevious
      BY <1>a, <3>1 DEF RetirePrevious, Place
    <3> QED
      BY <1>4, <1>a, <3>1, Removed DEF ReseedDiscards, RemoveDiscard, Place
  <2>2. dir'["discard"] \subseteq dir["discard"]
    <3>1. CASE RetirePrevious
      BY <1>a, <3>1 DEF RetirePrevious, Place
    <3>2. CASE Rm("discard") \/ Rm("retired")
      BY <1>a, <3>2, Removed DEF Place
    <3> QED
      BY <1>4, <3>1, <3>2 DEF ReseedDiscards, RemoveDiscard
  <2>3. stager' = stager
    BY <1>4 DEF ReseedDiscards, RemoveDiscard, RetirePrevious
  <2> QED
    BY <1>1, <1>2, <2>1, <2>2, <2>3 DEF StagedLater
<1>5. CASE ~(ReseedStages \/ ReseedDiscards \/ RemoveDiscard \/ RetirePrevious)
  <2>1. dir' = dir
    BY <1>5 DEF Commands, Reseed, ReseedStaged, ReseedStops, ReseedWaits,
      ReseedRestartFails, ReseedDisarms, ReseedChecks, SetRestoreMarker,
      RolloutRestart, Proven, ClearRestoreMarker, RemoveRecord, Abandon,
      ComposeRestore, ComposeStopsDb, ComposeRuns, ComposeRan, ComposeStopsRun, ComposeProbes,
      ComposeUp, ComposeStartsDb, ChangeRole, CommandEnds, dirVars, disk
  <2>2. stager' = stager \/ stager'.pc \in {"idle", "undo"}
    BY <1>5 DEF Commands, Reseed, ReseedStaged, ReseedStops, ReseedWaits,
      ReseedRestartFails, ReseedDisarms, ReseedChecks, SetRestoreMarker,
      RolloutRestart, Proven, ClearRestoreMarker, RemoveRecord, Abandon,
      ComposeRestore, ComposeStopsDb, ComposeRuns, ComposeRan, ComposeStopsRun, ComposeProbes,
      ComposeUp, ComposeStartsDb, ChangeRole, CommandEnds, dirVars, Idle
  <2> QED
    BY <1>1, <1>2, <2>1, <2>2 DEF StagedLater
<1> QED
  BY <1>3, <1>4, <1>5

\* A step that is none of a restore's swap, but may end one.
Fetching == {"clear", "fetch", "settle"}
RestoreQuiet ==
  /\ UNCHANGED <<rmark, from, tier, secret>>
  /\ \/ restorer'.pc = "idle"
     \/ /\ restorer'.id = restorer.id
        /\ \/ restorer'.pc = restorer.pc
           \/ restorer.pc \in Fetching /\ restorer'.pc \in Fetching
  /\ cli'.op = "restore" /\ cli'.step \in {"clean", "sweep"} => secret = None
  /\ dir'["prev"] = dir["prev"]
  /\ intent = "standby" \/ (dir'["root"] = dir["root"] /\ good' = good)

LEMMA ScriptsQuiet ==
  ASSUME Inv, RestoredOnce, Guard \/ Stage \/ Restarts \/ Faults, Watch
  PROVE  RestoreQuiet
<1>a. dir \in [Place -> SUBSET File]
  BY DEF Inv, TypeOK, TypeCorrect
<1>w. /\ cli'.op = "restore" /\ cli'.step \in {"clean", "sweep"} => secret = None
      /\ good' = good \/ mark # None
  BY Watched DEF Inv, Watch, RestoredOnce
<1>m. mark # None => intent = "standby"
  BY DEF Inv, Alone
<1> USE <1>w, <1>m DEF disk, markers, env, Place, GuardUnchanged, StageUnchanged
<1>1. UNCHANGED <<rmark, from, tier, secret>> /\ (restorer' = restorer \/ restorer'.pc = "idle")
  <2>1. CASE Guard
    BY <2>1 DEF Guard, GuardExits, GuardBoots, GuardChooses, GuardRefuses, GuardClears,
         GuardMovesOut, GuardRollsBack, GuardUnstages, GuardMovesIn, GuardUnstamps,
         GuardFinishes
  <2>2. CASE Stage
    BY <2>2 DEF Stage, StageClears, StageCopies, StageArms, StageFails, StageUndoes
  <2>3. CASE Restarts \/ Faults
    BY <2>3 DEF Restarts, Faults, KillDb, KillPod, KillRestore, LoseStage, Idle
  <2> QED
    BY <2>1, <2>2, <2>3
<1>2. CASE UNCHANGED dir
  BY <1>1, <1>2 DEF RestoreQuiet
<1>3. CASE \E p \in {"stage", "discard", "retired"} : Rm(p)
  BY <1>a, <1>1, <1>3, Removed DEF RestoreQuiet
<1>4. CASE \E f : Add("stage", f)
  BY <1>a, <1>1, <1>4, Added DEF RestoreQuiet
<1>5. CASE mark # None /\ (Mv("root", "discard") \/ Mv("discard", "root") \/ Mv("stage", "root"))
  <2>1. dir'["prev"] = dir["prev"]
    BY <1>a, <1>5, Moved
  <2> QED
    BY <1>1, <1>5, <2>1 DEF RestoreQuiet
<1>6. CASE dir' = [dir EXCEPT !["stage"] = @ \ (Tree \X {Version})]
  BY <1>a, <1>1, <1>6 DEF RestoreQuiet
<1>7. CASE Guard
  <2>1. db \in {"out", "rollback", "in"} => mark # None
    BY DEF Inv, Orderly
  <2> QED
    BY <1>2, <1>3, <1>5, <1>7, <2>1
    DEF Guard, GuardExits, GuardBoots, GuardChooses, GuardRefuses, GuardClears,
        GuardMovesOut, GuardRollsBack, GuardUnstages, GuardMovesIn, GuardUnstamps, GuardFinishes
<1>8. CASE Stage
  BY <1>2, <1>3, <1>4, <1>8 DEF Stage, StageClears, StageCopies, StageArms, StageFails, StageUndoes
<1>9. CASE Restarts \/ Faults
  BY <1>2, <1>6, <1>9 DEF Restarts, Faults, KillDb, KillPod, KillRestore, LoseStage
<1> QED
  BY <1>7, <1>8, <1>9

LEMMA QuietKeeps ==
  ASSUME Inv, RestoredOnce, KeptWhole, RestoreQuiet
  PROVE  RestoredOnce' /\ KeptWhole'
<1>1. CASE intent = "standby"
  <2>1. secret' = None /\ rmark = None /\ rmark' = None /\ dir'["prev"] = dir["prev"]
    BY <1>1 DEF RestoreQuiet, Inv, Alone
  <2>2. restorer'.pc # "idle" => restorer'.pc = "start" /\ restorer'.id = None
    BY <1>1 DEF RestoreQuiet, Inv, Alone, Fetching
  <2>4. RestoredOnce'
    BY <2>1, <2>2 DEF RestoredOnce
  <2>5. KeptWhole'
    BY <2>1, DataDirAssumption DEF KeptWhole, Phase
  <2> QED
    BY <2>4, <2>5
<1>2. CASE intent # "standby"
  <2>1. /\ rmark' = rmark /\ from' = from /\ tier' = tier /\ secret' = secret /\ good' = good
        /\ dir'["prev"] = dir["prev"] /\ dir'["root"] = dir["root"]
        /\ cli'.op = "restore" /\ cli'.step \in {"clean", "sweep"} => secret = None
    BY <1>2 DEF RestoreQuiet
  <2>2. KeptWhole'
    BY <2>1 DEF KeptWhole
  <2>3. restorer'.pc # "idle" =>
          /\ restorer'.id = restorer.id
          /\ \/ restorer'.pc = restorer.pc
             \/ /\ restorer.pc \in {"clear", "fetch", "settle"}
                /\ restorer'.pc \in {"clear", "fetch", "settle"}
    BY DEF RestoreQuiet, Fetching
  <2>4. RestoredOnce'
    <3>1. secret' # None /\ rmark' = None =>
            dir'["root"] \subseteq Upto(secret' - 1) \/ from' = secret'
      BY <2>1 DEF RestoredOnce
    <3>2. secret' # None => Older(secret)' \/ from' = secret'
      BY <2>1 DEF RestoredOnce, Older
    <3>3. restorer'.pc = "record" => from' = restorer'.id
      BY <2>1, <2>3 DEF RestoredOnce
    <3>4. restorer'.pc # "idle" /\ restorer'.id # None /\ rmark' = None =>
            Older(restorer.id)' \/ (restorer'.pc = "start" /\ Restored')
      BY <2>1, <2>3 DEF RestoredOnce, Older, Restored
    <3>5. restorer'.pc # "idle" /\ secret' # None /\ restorer'.id \notin {None, secret'} =>
            Older(secret)'
      BY <2>1, <2>3 DEF RestoredOnce, Older
    <3>6. cli'.op = "restore" /\ cli'.step \in {"clean", "sweep"} => secret' = None
      BY <2>1 DEF RestoredOnce
    <3> QED
      BY <3>1, <3>2, <3>3, <3>4, <3>5, <3>6 DEF RestoredOnce
  <2> QED
    BY <2>2, <2>4
<1> QED
  BY <1>1, <1>2

LEMMA RestoreKeeps ==
  ASSUME Inv, Inv', Numbered, RestoredOnce, KeptWhole, RestoreScript, Watch
  PROVE  RestoredOnce' /\ KeptWhole'
<1>a. dir \in [Place -> SUBSET File] /\ restorer \in [pc : RestoreState, id : Attempt \cup {None}]
  BY DEF Inv, TypeOK, TypeCorrect
<1>d. db \in {"gone", "held"} /\ restorer.pc # "idle"
  BY DEF RestoreScript, RestoreSkips, RestoreLocks, RestoreClears, RestoreFetches,
         RestoreFails, RestoreSettles, RestoreSetsAside, RestoreKeepsOld,
         RestoreSweeps, RestoreMovesIn, RestoreDrops, RestoreFinishes, Inv, Alone
<1>w. /\ cli'.op = "restore" /\ cli'.step \in {"clean", "sweep"} => secret = None
      /\ good' = good
  BY Watched, <1>d DEF Inv, Watch, RestoredOnce
<1>e. tier' = tier /\ secret' = secret
  BY DEF RestoreScript, RestoreSkips, RestoreLocks, RestoreClears, RestoreFetches,
         RestoreFails, RestoreSettles, RestoreSetsAside, RestoreKeepsOld,
         RestoreSweeps, RestoreMovesIn, RestoreDrops, RestoreFinishes, RestoreUnchanged, env
<1>r. restorer.id # None \/ RestoreSkips
  BY DEF RestoreScript, RestoreSkips, RestoreLocks, RestoreClears, RestoreFetches,
         RestoreFails, RestoreSettles, RestoreSetsAside, RestoreKeepsOld,
         RestoreSweeps, RestoreMovesIn, RestoreDrops, RestoreFinishes, Inv, Orderly, Restoring
<1> USE <1>w, <1>e DEF disk, markers, Place
<1>1. CASE RestoreSkips \/ RestoreClears \/ RestoreFetches \/ RestoreFails
  <2>1. rmark' = rmark /\ from' = from
    BY <1>1 DEF RestoreSkips, RestoreClears, RestoreFetches, RestoreFails
  <2>2. dir'["root"] = dir["root"] /\ dir'["prev"] = dir["prev"]
    <3>1. CASE Rm("restore") \/ \E f : Add("restore", f)
      BY <1>a, <3>1, Removed, Added
    <3>2. CASE UNCHANGED dir \/ dir' = [dir EXCEPT !["restore"] = {}]
      BY <1>a, <3>2
    <3> QED
      BY <1>1, <3>1, <3>2 DEF RestoreSkips, RestoreClears, RestoreFetches, RestoreFails
  <2>3. restorer'.pc = "idle" \/ restorer' = restorer
        \/ (restorer.pc \in Fetching /\ (Restore("fetch") \/ Restore("settle")))
    <3>1. RestoreSkips \/ RestoreFails => restorer' = Idle
      BY DEF RestoreSkips, RestoreFails
    <3>2. RestoreClears => restorer.pc = "clear" /\ (restorer' = restorer \/ Restore("fetch"))
      BY DEF RestoreClears
    <3>3. RestoreFetches => restorer.pc = "fetch" /\ (restorer' = restorer \/ Restore("settle"))
      BY DEF RestoreFetches
    <3> QED
      BY <1>1, <3>1, <3>2, <3>3 DEF Idle, Fetching
  <2>4. \A c \in Fetching : Restore(c) => restorer'.pc = c /\ restorer'.id = restorer.id
    BY <1>a DEF Restore
  <2>6. {"fetch", "settle"} \subseteq Fetching
    BY DEF Fetching
  <2>5. RestoreQuiet
    BY <2>1, <2>2, <2>3, <2>4, <2>6 DEF RestoreQuiet
  <2> QED
    BY <2>5, QuietKeeps
<1>2. CASE RestoreLocks
  <2>1. /\ rmark' = rmark /\ from' = from /\ dir' = dir
        /\ restorer'.pc = "clear" /\ restorer'.id = restorer.id
    BY <1>2, <1>a DEF RestoreLocks, Restore
  <2>2. restorer.id # None /\ restorer.pc = "start" /\ (rmark = None => Older(restorer.id))
    BY <1>2 DEF RestoreLocks, RestoredOnce
  <2>3. KeptWhole'
    BY <2>1 DEF KeptWhole
  <2>4. RestoredOnce'
    BY <2>1, <2>2 DEF RestoredOnce, Older
  <2> QED
    BY <2>3, <2>4
<1>3. CASE RestoreSettles \/ RestoreSetsAside \/ RestoreKeepsOld \/ RestoreSweeps \/ RestoreMovesIn
  <2>1. from' = from
    BY <1>3 DEF RestoreSettles, RestoreSetsAside, RestoreKeepsOld, RestoreSweeps, RestoreMovesIn
  <2>2. /\ restorer'.id = restorer.id
        /\ restorer'.pc \in {"settle", "aside", "toprev", "sweep", "movein", "drop"}
        /\ restorer.pc \in {"settle", "aside", "toprev", "sweep", "movein"}
    BY <1>3, <1>a
    DEF RestoreSettles, Settle, RestoreSetsAside, RestoreKeepsOld, RestoreSweeps, RestoreMovesIn,
        Restore
  <2>3. \/ rmark' # None
        \/ rmark = None /\ rmark' = None /\ dir'["root"] = dir["root"]
    <3>1. CASE RestoreSettles
      <4>1. Settle => rmark' \in {rmark, "in", "out"}
        BY DEF Settle
      <4>2. dir'["root"] = dir["root"]
        BY <1>a, <3>1, Removed DEF RestoreSettles
      <4>3. rmark' \in {rmark, "in", "out"}
        BY <3>1, <4>1 DEF RestoreSettles
      <4> QED
        BY <4>2, <4>3, DataDirAssumption DEF Phase
    <3>2. CASE ~RestoreSettles
      <4>1. rmark \in Phase /\ rmark' \in Phase
        BY <1>3, <3>2
        DEF RestoreSetsAside, RestoreKeepsOld, RestoreSweeps, RestoreMovesIn, Inv, Orderly, Phase
      <4> QED
        BY <4>1, DataDirAssumption
    <3> QED
      BY <3>1, <3>2
  <2>4. RestoredOnce'
    BY <2>1, <2>2, <2>3 DEF RestoredOnce, Older
  <2>5. KeptWhole'
    <3>1. CASE RestoreSettles
      <4>1. dir'["root"] = dir["root"] /\ dir'["prev"] = dir["prev"]
        BY <1>a, <3>1, Removed DEF RestoreSettles
      <4>2. rmark' # "out" \/ rmark = "out" \/ (rmark' = "out" /\ Root = "live" /\ ~Empty("root"))
        BY <3>1 DEF RestoreSettles, Settle
      <4>3. CASE rmark' = "out" /\ Root = "live" /\ ~Empty("root")
        <5>1. mark = None /\ rmark = None /\ dir["prev"] = {} /\ dir["root"] # {}
          BY <4>3 DEF Root, Empty
        <5>2. \E t \in Tree : dir["root"] = Whole(t)
          BY <5>1 DEF Inv, Data, Settled, HoldsOne, Fresh
        <5> QED
          BY <4>1, <4>3, <5>1, <5>2 DEF KeptWhole
      <4>4. CASE rmark' # "out"
        <5>1. rmark # "out"
          BY <3>1, <4>4, DataDirAssumption DEF RestoreSettles, Settle, Root, Phase
        <5> QED
          BY <4>1, <4>4, <5>1 DEF KeptWhole
      <4>5. CASE rmark = "out" /\ rmark' = "out"
        BY <4>1, <4>5 DEF KeptWhole
      <4> QED
        BY <4>2, <4>3, <4>4, <4>5
    <3>2. CASE RestoreKeepsOld
      <4>1. rmark = "out"
        BY <3>2 DEF RestoreKeepsOld, Inv, Orderly
      <4>2. PICK t \in Tree : dir["root"] \cup dir["prev"] = Whole(t)
        BY <4>1 DEF KeptWhole
      <4>3. CASE Mv("root", "prev") /\ UNCHANGED rmark
        <5>1. PICK f \in Cluster("root") : /\ dir'["root"] = dir["root"] \ {f}
                                           /\ dir'["prev"] = dir["prev"] \cup {f}
          BY <1>a, <4>3, Moved
        <5>2. dir'["root"] \cup dir'["prev"] = Whole(t)
          BY <4>2, <5>1 DEF Cluster
        <5> QED
          BY <4>1, <4>3, <5>2 DEF KeptWhole
      <4>4. CASE dir["root"] = {} /\ rmark' = "in" /\ UNCHANGED dir
        BY <4>2, <4>4 DEF KeptWhole
      <4> QED
        BY <3>2, <4>3, <4>4 DEF RestoreKeepsOld, Empty
    <3>3. CASE RestoreSetsAside \/ RestoreSweeps \/ RestoreMovesIn
      <4>1. rmark = "in" /\ rmark' = "in"
        BY <3>3 DEF RestoreSetsAside, RestoreSweeps, RestoreMovesIn, Inv, Orderly
      <4>2. dir'["prev"] = dir["prev"]
        BY <1>a, <3>3, Moved, Removed DEF RestoreSetsAside, RestoreSweeps, RestoreMovesIn
      <4> QED
        BY <4>1, <4>2 DEF KeptWhole
    <3> QED
      BY <1>3, <3>1, <3>2, <3>3
  <2> QED
    BY <2>4, <2>5
<1>4. CASE RestoreDrops
  <2>1. rmark = "in" /\ rmark' = "in" /\ rmark' # None
    BY <1>4, DataDirAssumption DEF RestoreDrops, Inv, Orderly, Phase
  <2>2. dir'["prev"] = dir["prev"]
    BY <1>4, <1>a, Removed DEF RestoreDrops
  <2>3. \/ restorer' = restorer /\ from' = from /\ restorer.pc = "drop"
        \/ restorer'.pc = "record" /\ restorer'.id = restorer.id /\ from' = restorer.id
    BY <1>4, <1>a DEF RestoreDrops, Restore
  <2>4. restorer.id # None
    BY <1>4 DEF RestoreDrops, Inv, Orderly, Restoring
  <2>5. KeptWhole'
    BY <2>1, <2>2 DEF KeptWhole
  <2>6. RestoredOnce'
    BY <2>1, <2>3, <2>4, <1>d DEF RestoredOnce, Older
  <2> QED
    BY <2>5, <2>6
<1>5. CASE RestoreFinishes
  <2>1. /\ rmark = "in" /\ rmark' = None /\ rmark' # "out" /\ from' = from
        /\ dir' = dir /\ restorer'.pc = "idle"
    BY <1>5, <1>a, DataDirAssumption DEF RestoreFinishes, Restore, Inv, Orderly, Phase
  <2>2. from = restorer.id /\ dir["root"] = Whole(restorer.id) /\ restorer.id \in Attempt
    BY <1>5, <1>a DEF RestoreFinishes, RestoredOnce, Inv, Data, RestoreWhole, Orderly, Restoring
  <2>3. secret # None => dir["root"] \subseteq Upto(secret - 1) \/ from = secret
    <3>1. SUFFICES ASSUME secret # None PROVE dir["root"] \subseteq Upto(secret - 1) \/ from = secret
      OBVIOUS
    <3>2. secret = issued /\ issued \in Int /\ restorer.id <= issued
      <4>1. issued \in Int /\ Used <= issued
        BY DataDirAssumption DEF Inv, TypeOK, Used
      <4>2. restorer.id <= Used
        BY <4>1, <2>2, DataDirAssumption DEF Numbered, Ids, Attempt, Used
      <4>3. restorer.id \in Int /\ Used \in Int
        BY <2>2, <4>1, UptoTrees DEF Used
      <4> QED
        BY <3>1, <4>1, <4>2, <4>3 DEF Numbered
    <3>3. CASE restorer.id = secret
      BY <2>2, <3>3
    <3>4. CASE restorer.id # secret
      <4>1. restorer.id <= secret - 1 /\ restorer.id \in Tree /\ secret - 1 \in Int
        BY <2>2, <3>2, <3>4, UptoTrees
      <4>2. Whole(restorer.id) \subseteq Upto(secret - 1)
        BY <4>1, UptoTrees
      <4> QED
        BY <2>2, <4>2
    <3> QED
      BY <3>3, <3>4
  <2>4. KeptWhole'
    BY <2>1 DEF KeptWhole
  <2>5. RestoredOnce'
    BY <2>1, <2>3 DEF RestoredOnce, Older
  <2> QED
    BY <2>4, <2>5
<1> QED
  BY <1>1, <1>2, <1>3, <1>4, <1>5 DEF RestoreScript

LEMMA PodKeeps ==
  ASSUME Inv, Numbered, RestoredOnce, KeptWhole, PodStarts, Watch
  PROVE  RestoredOnce' /\ KeptWhole'
<1>1. /\ cli'.op = "restore" /\ cli'.step \in {"clean", "sweep"} => secret = None
      /\ good' = good
  BY Watched DEF Inv, Watch, RestoredOnce, PodStarts
<1>2. /\ dir' = dir /\ rmark' = rmark /\ from' = from /\ tier' = tier /\ secret' = secret
      /\ restorer'.pc = "start" /\ restorer'.id = secret
  BY DEF PodStarts, disk, markers, env
<1>3. KeptWhole'
  BY <1>2 DEF KeptWhole
<1>4. RestoredOnce'
  BY <1>1, <1>2 DEF RestoredOnce, Older, Restored, Numbered
<1> QED
  BY <1>3, <1>4

LEMMA CommandKeeps ==
  ASSUME ~Orphans, Inv, Inv', Numbered, Numbered', RestoredOnce, KeptWhole, Commands
  PROVE  RestoredOnce' /\ KeptWhole'
<1>a. /\ dir \in [Place -> SUBSET File]
      /\ cli \in [op : {"none", "reseed", "restore"}, step : Step, id : Attempt \cup {None},
                  same : BOOLEAN]
      /\ issued \in Nat /\ Used \in Int /\ Used <= issued
  BY DataDirAssumption DEF Inv, TypeOK, TypeCorrect, Used
<1> USE DEF disk, markers, env, dirVars, cliVars, At, Goto, Place
<1>1. CASE SetRestoreMarker
  <2>1. /\ secret' = issued + 1 /\ issued' = issued + 1 /\ dir' = dir /\ rmark' = rmark
        /\ from' = from /\ tier' = tier /\ restorer' = restorer /\ good' = good
        /\ cli'.step = "bounce"
    BY <1>1 DEF SetRestoreMarker, Issue
  <2>2. dir["root"] \subseteq Upto(secret' - 1)
    <3>1. Upto(Used) \subseteq Upto(issued) /\ secret' - 1 = issued
      BY <1>a, <2>1, UptoTrees
    <3> QED
      BY <3>1 DEF Numbered
  <2>3. good = None \/ good < secret'
    <3>1. good # None => good \in 0 .. Used
      BY DEF Numbered, Ids
    <3> QED
      BY <1>a, <2>1, <3>1
  <2>4. KeptWhole'
    BY <2>1 DEF KeptWhole
  <2>5. RestoredOnce'
    BY <2>1, <2>2, <2>3 DEF RestoredOnce, Older, Restored
  <2> QED
    BY <2>4, <2>5
<1>2. CASE RetirePrevious
  <2>1. /\ rmark = None /\ restorer.pc = "idle"
        /\ tier = "k8s" \/ secret = None
    BY <1>2 DEF RetirePrevious, Inv, Alone, Orderly, Running, Numbered, TypeOK, TypeCorrect
  <2>2. /\ rmark' = rmark /\ from' = from /\ tier' = tier /\ secret' = secret
        /\ restorer' = restorer /\ good' \in Tree /\ dir["root"] = Whole(good')
        /\ cli'.step = (IF tier = "k8s" THEN "unmark" ELSE "clean")
    BY <1>2, <1>a DEF RetirePrevious
  <2>3. dir'["root"] = dir["root"] /\ dir'["prev"] = {}
    BY <1>2, <1>a DEF RetirePrevious
  <2>4. secret # None => Older(secret)' \/ from = secret
    <3>1. SUFFICES ASSUME secret # None, dir["root"] \subseteq Upto(secret - 1)
                   PROVE  good' < secret
      BY <2>1, <2>2 DEF RestoredOnce, Older
    <3>2. secret \in Int /\ secret - 1 \in Int
      BY <1>a, <3>1 DEF Numbered
    <3>3. good' <= secret - 1 /\ good' \in Int
      BY <2>2, <3>1, <3>2, UptoTrees
    <3> QED
      BY <3>2, <3>3
  <2>5. KeptWhole'
    BY <2>1, <2>2, <2>3, DataDirAssumption DEF KeptWhole, Phase
  <2>6. RestoredOnce'
    BY <2>1, <2>2, <2>3, <2>4 DEF RestoredOnce, Older
  <2> QED
    BY <2>5, <2>6
<1>3. CASE ClearRestoreMarker \/ Abandon
  <2>1. /\ dir' = dir /\ rmark' = rmark /\ from' = from /\ tier' = tier /\ secret' = None
        /\ restorer' = restorer /\ good' = good
    BY <1>3 DEF ClearRestoreMarker, Abandon
  <2>2. KeptWhole'
    BY <2>1 DEF KeptWhole
  <2>3. RestoredOnce'
    BY <2>1 DEF RestoredOnce, Older, Restored
  <2> QED
    BY <2>2, <2>3
<1>4. CASE RemoveRecord
  <2>1. secret = None /\ restorer.pc = "idle"
    BY <1>4 DEF RemoveRecord, RestoredOnce, Inv, Alone, Running, TypeOK, TypeCorrect
  <2>2. /\ dir' = dir /\ rmark' = rmark /\ tier' = tier /\ secret' = secret
        /\ restorer' = restorer /\ good' = good
    BY <1>4 DEF RemoveRecord
  <2>3. KeptWhole'
    BY <2>2 DEF KeptWhole
  <2>4. RestoredOnce'
    BY <2>1, <2>2 DEF RestoredOnce
  <2> QED
    BY <2>3, <2>4
<1>5. CASE ComposeRuns
  <2>1. /\ dir' = dir /\ rmark' = rmark /\ tier' = tier /\ secret' = secret
        /\ restorer'.pc = "start" /\ restorer'.id = cli.id /\ good' = good
    BY <1>5 DEF ComposeRuns
  <2>2. secret = None /\ Used = cli.id - 1
    BY <1>5 DEF ComposeRuns, Inv, Orderly, Numbered, Used, Unused
  <2>3. good = None \/ good < cli.id
    <3>1. good # None => good \in 0 .. Used
      BY DEF Numbered, Ids
    <3>2. cli.id = issued
      BY <1>5 DEF ComposeRuns, Numbered
    <3> QED
      BY <1>a, <2>2, <3>1, <3>2
  <2>4. KeptWhole'
    BY <2>1 DEF KeptWhole
  <2>5. RestoredOnce'
    BY <2>1, <2>2, <2>3 DEF RestoredOnce, Older
  <2> QED
    BY <2>4, <2>5
<1>6. CASE ~(SetRestoreMarker \/ RetirePrevious \/ ClearRestoreMarker \/ Abandon \/ RemoveRecord
             \/ ComposeRuns)
  <2>1. /\ UNCHANGED <<rmark, from, tier, secret, good>>
        /\ restorer' = restorer \/ restorer' = Idle
    BY <1>6 DEF Commands, Reseed, ReseedStages, ReseedStaged, ReseedStops, ReseedWaits,
      ReseedRestartFails, ReseedDisarms, ReseedChecks, ReseedDiscards,
      RolloutRestart, Proven, RemoveDiscard,
      ComposeRestore, ComposeStopsDb, ComposeRan, ComposeStopsRun, ComposeProbes,
      ComposeUp, ComposeStartsDb, ChangeRole, CommandEnds
  <2>2. cli'.op = "restore" /\ cli'.step \in {"clean", "sweep"} =>
          cli.op = "restore" /\ cli.step \in {"clean", "sweep"}
    BY <1>6, <1>a DEF Commands, Reseed, ReseedStages, ReseedStaged, ReseedStops, ReseedWaits,
      ReseedRestartFails, ReseedDisarms, ReseedChecks, ReseedDiscards,
      RolloutRestart, Proven, RemoveDiscard, Issue, Off, Done,
      ComposeRestore, ComposeStopsDb, ComposeRan, ComposeStopsRun, ComposeProbes,
      ComposeUp, ComposeStartsDb, ChangeRole, CommandEnds
  <2>3. dir'["root"] = dir["root"] /\ dir'["prev"] = dir["prev"]
    <3>1. CASE Rm("discard") \/ Rm("retired")
      BY <1>a, <3>1, Removed
    <3>2. CASE UNCHANGED dir
      BY <3>2
    <3> QED
      BY <1>6, <3>1, <3>2 DEF Commands, Reseed, ReseedStages, ReseedStaged, ReseedStops, ReseedWaits,
      ReseedRestartFails, ReseedDisarms, ReseedChecks, ReseedDiscards,
      RolloutRestart, Proven, RemoveDiscard,
      ComposeRestore, ComposeStopsDb, ComposeRan, ComposeStopsRun, ComposeProbes,
      ComposeUp, ComposeStartsDb, ChangeRole, CommandEnds
  <2>4. RestoreQuiet
    BY <2>1, <2>2, <2>3 DEF RestoreQuiet, Idle, RestoredOnce
  <2> QED
    BY <2>4, QuietKeeps
<1> QED
  BY <1>1, <1>2, <1>3, <1>4, <1>5, <1>6

LEMMA InitiallyOrdered == Init => Ordered
<1> SUFFICES ASSUME Init PROVE Ordered
  OBVIOUS
<1> USE DataDirAssumption DEF Init, Blank, Off, Idle
<1>1. issued \in Nat /\ Used = issued /\ ~Unused
  BY DEF Used, Unused, At
<1>2. dir["prev"] = {} /\ (dir["root"] = Whole(0) \/ dir["root"] = {})
  BY DEF On, Place
<1>3. Numbered
  <2>1. 0 \in Tree /\ Whole(0) \subseteq Upto(issued)
    <3>1. 0 \in Tree /\ issued \in Int /\ 0 <= issued
      BY <1>1 DEF Tree
    <3> QED
      BY <3>1, UptoTrees
  <2>2. \A p \in Place : dir[p] \subseteq Whole(0)
    BY DEF On
  <2>3. \A p \in Place : dir[p] \subseteq Upto(Used)
    BY <1>1, <2>1, <2>2
  <2>4. /\ ready = None /\ from = None /\ mark = None /\ restorer.id = None /\ stager.id = None
        /\ good \in {0, None}
    OBVIOUS
  <2>5. cli.op # "none" => cli.id = issued
    OBVIOUS
  <2>6. secret # None => secret = issued /\ tier = "k8s"
    OBVIOUS
  <2>7. None \in Ids /\ 0 \in Ids
    BY <1>1 DEF Ids
  <2> HIDE DEF Init, Blank, Off, Idle
  <2> QED
    BY <1>1, <2>3, <2>4, <2>5, <2>6, <2>7 DEF Numbered
<1>4. StagedLater
  BY DEF StagedLater
<1>5. RestoredOnce
  <2>1. secret # None => dir["root"] = {} /\ good = None
    BY DEF On, Place
  <2> QED
    BY <2>1 DEF RestoredOnce, Older
<1>6. KeptWhole
  BY <1>2 DEF KeptWhole, Phase
<1> QED
  BY <1>3, <1>4, <1>5, <1>6 DEF Ordered

LEMMA OrderedPreserved ==
  ASSUME ~RoleMovesAnytime, ~Orphans, Inv, Ordered, [Next]_vars
  PROVE  Ordered'
<1>1. Inv'
  BY Preserved
<1>2. CASE Commands
  <2>1. Numbered'
    BY <1>1, <1>2, CommandNumbered DEF Ordered
  <2> QED
    BY <1>1, <1>2, <2>1, CommandStagesLater, CommandKeeps DEF Ordered
<1>3. CASE Scripts /\ Watch
  <2>1. Numbered'
    BY <1>1, <1>3, ScriptNumbered DEF Ordered
  <2>2. StagedLater'
    BY <1>3, GuardStagesLater, StageStagesLater, RestoreStagesLater, OthersStageLater
    DEF Ordered, Scripts
  <2>3. RestoredOnce' /\ KeptWhole'
    <3>1. CASE Guard \/ Stage \/ Restarts \/ Faults
      BY <1>3, <3>1, ScriptsQuiet, QuietKeeps DEF Ordered
    <3>2. CASE RestoreScript
      BY <1>1, <1>3, <3>2, RestoreKeeps DEF Ordered
    <3>3. CASE PodStarts
      BY <1>3, <3>3, PodKeeps DEF Ordered
    <3> QED
      BY <1>3, <3>1, <3>2, <3>3 DEF Scripts
  <2> QED
    BY <2>1, <2>2, <2>3 DEF Ordered
<1>4. CASE UNCHANGED vars
  <2>0. /\ dir' = dir /\ ready' = ready /\ mark' = mark /\ rmark' = rmark /\ from' = from
        /\ tier' = tier /\ secret' = secret /\ restorer' = restorer /\ stager' = stager
        /\ cli' = cli /\ issued' = issued /\ good' = good
    BY <1>4 DEF vars, dirVars, disk, markers, env, cliVars
  <2>1. Numbered'
    <3>1. Used' = Used /\ Ids' = Ids /\ Unused' = Unused
      BY <2>0 DEF Used, Ids, Unused, At
    <3> QED
      BY <2>0, <3>1 DEF Ordered, Numbered
  <2>2. StagedLater'
    BY <2>0 DEF Ordered, StagedLater
  <2>3. RestoredOnce' /\ KeptWhole'
    <3>1. RestoreQuiet
      BY <2>0 DEF RestoreQuiet, Ordered, RestoredOnce
    <3> QED
      BY <3>1, QuietKeeps DEF Ordered
  <2> QED
    BY <2>1, <2>2, <2>3 DEF Ordered
<1> QED
  BY <1>2, <1>3, <1>4 DEF Next

-----------------------------------------------------------------------------
(* The volume its scripts make of the directories.                         *)

Live ==
  IF rmark # None THEN None
  ELSE IF mark = None THEN TreeOf(dir["root"])
  ELSE IF mark.phase = "in" THEN mark.id
  ELSE TreeOf(dir["root"] \cup dir["discard"])
KeptTree == TreeOf(dir["prev"] \cup (IF rmark = "out" THEN dir["root"] ELSE {}))

LEMMA WholeTrees ==
  /\ \A t \in Tree : TreeOf(Whole(t)) = t /\ t # None
  /\ TreeOf({}) = None
  /\ \A S : TreeOf(S) \in Tree \cup {None}
<1>1. ASSUME NEW t \in Tree PROVE TreeOf(Whole(t)) = t /\ t # None
  <2>1. \A s \in Tree : Whole(t) = Whole(s) <=> s = t
    BY Trees
  <2>2. (CHOOSE s \in Tree : Whole(t) = Whole(s)) = t
    BY <2>1
  <2>3. t # None
    BY DataDirAssumption DEF Tree
  <2> QED
    BY <2>1, <2>2, <2>3 DEF TreeOf
<1>2. TreeOf({}) = None
  <2>1. \A t \in Tree : Whole(t) # {}
    BY Trees
  <2> QED
    BY <2>1 DEF TreeOf
<1>3. \A S : TreeOf(S) \in Tree \cup {None}
  BY DEF TreeOf
<1> QED
  BY <1>1, <1>2, <1>3

\* A step that moves neither marker nor what they are read with.
LEMMA SameVolume ==
  ASSUME rmark' = rmark, mark' = mark, dir'["root"] = dir["root"], dir'["prev"] = dir["prev"],
         mark = None \/ dir'["discard"] = dir["discard"]
  PROVE  Live' = Live /\ KeptTree' = KeptTree
BY DEF Live, KeptTree

VolumeStep == Volume!Next \/ (Live' = Live /\ KeptTree' = KeptTree)

LEMMA GuardKeepsVolume ==
  ASSUME Inv, Numbered, StagedLater, Guard
  PROVE  VolumeStep
<1>a. dir \in [Place -> SUBSET File]
  BY DEF Inv, TypeOK, TypeCorrect
<1>s. rmark' = rmark
  BY DEF Guard, GuardExits, GuardBoots, GuardChooses, GuardRefuses, GuardClears,
         GuardMovesOut, GuardRollsBack, GuardUnstages, GuardMovesIn, GuardUnstamps,
         GuardFinishes, GuardUnchanged, disk, markers
<1>m. mark # None => rmark = None /\ dir["prev"] = {} /\ mark \in [phase : Phase, id : Attempt]
  BY DEF Inv, Alone, Data, Kept, TypeOK, TypeCorrect
<1>o. rmark = None => rmark # "out"
  BY DataDirAssumption DEF Phase
<1> USE <1>s DEF disk, markers, Place
<1>1. CASE GuardExits \/ GuardBoots \/ GuardChooses \/ GuardRefuses \/ GuardUnstamps
  <2>1. mark' = mark
    BY <1>1 DEF GuardExits, GuardBoots, GuardChooses, GuardRefuses, GuardUnstamps
  <2>2. dir' = dir \/ Rm("stage")
    BY <1>1 DEF GuardExits, GuardBoots, GuardChooses, GuardRefuses, GuardUnstamps
  <2>3. dir'["root"] = dir["root"] /\ dir'["prev"] = dir["prev"] /\ dir'["discard"] = dir["discard"]
    BY <1>a, <2>2, Removed
  <2> QED
    BY <2>1, <2>3, SameVolume DEF VolumeStep
<1>2. CASE GuardClears
  <2>1. mark = None /\ rmark = None /\ ready # None
    BY <1>2 DEF GuardClears, Inv, Orderly, Alone, Swapping
  <2>2. CASE mark' = mark
    <3>1. dir'["root"] = dir["root"] /\ dir'["prev"] = dir["prev"]
      BY <1>2, <1>a, Removed DEF GuardClears
    <3> QED
      BY <2>1, <2>2, <3>1, SameVolume DEF VolumeStep
  <2>3. CASE mark' # mark
    <3>1. dir["discard"] = {} /\ dir' = dir /\ mark' = [phase |-> "out", id |-> ready]
      BY <1>2, <2>3 DEF GuardClears, Empty
    <3>2. dir["root"] \cup dir["discard"] = dir["root"] /\ mark'.phase = "out" /\ mark' # None
      BY <2>1, <2>3, <3>1
    <3>3. Live' = Live
      BY <2>1, <3>1, <3>2 DEF Live
    <3>4. KeptTree' = KeptTree
      BY <3>1 DEF KeptTree
    <3> QED
      BY <3>3, <3>4 DEF VolumeStep
  <2> QED
    BY <2>2, <2>3
<1>3. CASE GuardMovesOut \/ GuardRollsBack
  <2>1. mark # None /\ mark.phase = "out"
    BY <1>3 DEF GuardMovesOut, GuardRollsBack, Inv, Orderly
  <2>2. CASE (Mv("root", "discard") \/ Mv("discard", "root")) /\ mark' = mark
    <3>1. dir'["root"] \cup dir'["discard"] = dir["root"] \cup dir["discard"]
      <4>1. CASE Mv("root", "discard")
        <5>1. PICK f \in Cluster("root") : /\ dir'["root"] = dir["root"] \ {f}
                                           /\ dir'["discard"] = dir["discard"] \cup {f}
          BY <1>a, <4>1, Moved
        <5> QED
          BY <5>1 DEF Cluster
      <4>2. CASE Mv("discard", "root")
        <5>1. PICK f \in Cluster("discard") : /\ dir'["discard"] = dir["discard"] \ {f}
                                              /\ dir'["root"] = dir["root"] \cup {f}
          BY <1>a, <4>2, Moved
        <5> QED
          BY <5>1 DEF Cluster
      <4> QED
        BY <2>2, <4>1, <4>2
    <3>2. dir'["prev"] = dir["prev"]
      BY <1>a, <2>2, Moved
    <3>3. Live' = Live
      BY <2>1, <2>2, <3>1 DEF Live
    <3>4. KeptTree' = KeptTree
      BY <1>m, <1>o, <2>1, <3>2 DEF KeptTree
    <3> QED
      BY <3>3, <3>4 DEF VolumeStep
  <2>3. CASE dir' = dir /\ mark' = mark
    BY <2>3, SameVolume DEF VolumeStep
  <2>4. CASE /\ db = "out" /\ dir["root"] = {} /\ dir' = dir
             /\ mark' = [mark EXCEPT !.phase = "in"]
    <3>1. mark'.phase = "in" /\ mark'.id = mark.id /\ mark.id \in Attempt /\ mark' # None
      <4>1. mark'.phase = "in" /\ mark'.id = mark.id /\ mark.id \in Attempt
        BY <1>m, <2>1, <2>4
      <4>2. mark' \in [phase : Phase, id : Nat]
        BY <1>m, <2>1, <2>4 DEF Phase, Attempt
      <4> QED
        BY <4>1, <4>2, DataDirAssumption
    <3>2. PICK t \in Tree : dir["root"] \cup dir["discard"] = Whole(t)
      BY <2>1 DEF Inv, Data, ReseedWhole, OneMovesOut
    <3>3. Live = t /\ Live' = mark.id
      BY <1>m, <2>1, <3>1, <3>2, WholeTrees DEF Live
    <3>4. KeptTree = None /\ KeptTree' = None
      BY <1>m, <1>o, <2>1, <2>4, WholeTrees DEF KeptTree
    <3>5. t <= mark.id - 1 /\ t # mark.id /\ mark.id \in Tree
      <4>1. dir["root"] \cup dir["discard"] \subseteq Upto(mark.id - 1)
        BY <2>1 DEF StagedLater
      <4>2. mark.id \in Tree /\ mark.id \in Int /\ mark.id - 1 \in Int /\ t \in Int
        BY <3>1, UptoTrees
      <4>3. t <= mark.id - 1
        BY <3>2, <4>1, <4>2, UptoTrees
      <4> QED
        BY <4>2, <4>3
    <3>6. t # None
      BY WholeTrees
    <3>7. Volume!Reseed
      BY <3>3, <3>4, <3>5, <3>6 DEF Volume!Reseed, Live, KeptTree
    <3> QED
      BY <3>7 DEF VolumeStep, Volume!Next
  <2> QED
    BY <1>3, <2>2, <2>3, <2>4 DEF GuardMovesOut, GuardRollsBack, Empty
<1>4. CASE GuardUnstages \/ GuardMovesIn \/ GuardFinishes
  <2>1. mark # None /\ rmark = None
    BY <1>m, <1>4 DEF GuardUnstages, GuardMovesIn, GuardFinishes, Inv, Orderly
  <2>2. dir'["prev"] = dir["prev"]
    BY <1>4, <1>a, Removed, Moved DEF GuardUnstages, GuardMovesIn, GuardFinishes
  <2>3. KeptTree' = KeptTree
    BY <1>o, <2>1, <2>2 DEF KeptTree
  <2>4. Live' = Live
    <3>1. CASE GuardMovesIn
      <4>1. mark.phase = "in" /\ mark' = mark
        BY <3>1 DEF GuardMovesIn, Inv, Orderly
      <4> QED
        BY <2>1, <4>1 DEF Live
    <3>2. CASE GuardUnstages
      <4>1. mark.phase = "out" /\ dir["discard"] = {}
        BY <2>1, <3>2 DEF GuardUnstages, Inv, Orderly, Data, ReseedWhole
      <4>2. dir'["root"] = dir["root"] /\ dir'["discard"] = dir["discard"]
        BY <3>2, <1>a, Removed DEF GuardUnstages
      <4>3. dir["root"] \cup dir["discard"] = dir["root"] /\ mark' \in {mark, None}
        BY <3>2, <4>1 DEF GuardUnstages
      <4> QED
        BY <2>1, <4>1, <4>2, <4>3 DEF Live
    <3>3. CASE GuardFinishes
      <4>1. mark.phase = "in" /\ dir' = dir /\ mark' \in {mark, None}
        BY <3>3 DEF GuardFinishes, Inv, Orderly
      <4>2. dir["root"] = Whole(mark.id) /\ mark.id \in Tree
        <5>1. dir["root"] \cup Cluster("stage") = Whole(mark.id) /\ Cluster("stage") = {}
          BY <2>1, <3>3, <4>1 DEF GuardFinishes, Inv, Data, ReseedWhole
        <5>2. mark.id \in Attempt
          BY <1>m, <2>1
        <5> QED
          BY <5>1, <5>2, UptoTrees
      <4>3. TreeOf(dir["root"]) = mark.id
        BY <4>2, WholeTrees
      <4> QED
        BY <2>1, <4>1, <4>3 DEF Live
    <3> QED
      BY <1>4, <3>1, <3>2, <3>3
  <2> QED
    BY <2>3, <2>4 DEF VolumeStep
<1> QED
  BY <1>1, <1>2, <1>3, <1>4 DEF Guard

LEMMA RestoreKeepsVolume ==
  ASSUME Inv, KeptWhole, RestoreScript
  PROVE  VolumeStep
<1>a. dir \in [Place -> SUBSET File] /\ restorer \in [pc : RestoreState, id : Attempt \cup {None}]
  BY DEF Inv, TypeOK, TypeCorrect
<1>o. "out" # None /\ "in" # None
  BY DataDirAssumption DEF Phase
<1> USE DEF disk, markers, Place
<1>1. CASE RestoreSkips \/ RestoreLocks \/ RestoreClears \/ RestoreFetches \/ RestoreFails
  <2>1. rmark' = rmark /\ mark' = mark
    BY <1>1 DEF RestoreSkips, RestoreLocks, RestoreClears, RestoreFetches, RestoreFails
  <2>2. \/ UNCHANGED dir \/ Rm("restore") \/ \E f : Add("restore", f)
        \/ dir' = [dir EXCEPT !["restore"] = {}]
    BY <1>1 DEF RestoreSkips, RestoreLocks, RestoreClears, RestoreFetches, RestoreFails
  <2>3. dir'["root"] = dir["root"] /\ dir'["prev"] = dir["prev"] /\ dir'["discard"] = dir["discard"]
    BY <1>a, <2>2, Removed, Added
  <2> QED
    BY <2>1, <2>3, SameVolume DEF VolumeStep
<1>2. ASSUME Restoring PROVE mark = None
  <2>1. restorer.pc # "idle" /\ restorer.id # None /\ restorer.pc # "start"
    BY <1>2 DEF Restoring, Inv, Orderly
  <2> QED
    BY <2>1 DEF Inv, Alone
<1>3. CASE RestoreSettles
  <2>1. mark = None /\ mark' = None /\ restorer.id # None
    BY <1>2, <1>3 DEF RestoreSettles, Restoring, Inv, Orderly
  <2>2. dir'["root"] = dir["root"] /\ dir'["prev"] = dir["prev"]
    BY <1>3, <1>a, Removed DEF RestoreSettles
  <2>3. CASE rmark' = rmark
    BY <2>1, <2>2, <2>3, SameVolume DEF VolumeStep
  <2>4. CASE rmark' # rmark
    <3>1. \/ Root = "unproven" /\ rmark' = "in"
          \/ Root = "live" /\ ~Empty("root") /\ rmark' = "out"
          \/ Root = "live" /\ Empty("root") /\ rmark' = "in"
      BY <1>3, <2>4 DEF RestoreSettles, Settle, Root
    <3>2. rmark = None
      BY <1>o, <2>4, <3>1, <1>3 DEF Root, Inv, TypeOK, TypeCorrect, Phase
    <3>3. Live' = None /\ Live = TreeOf(dir["root"]) /\ rmark # "out"
      BY <1>o, <2>1, <3>1, <3>2 DEF Live
    <3>4. KeptTree = TreeOf(dir["prev"])
      <4>1. dir["prev"] \cup {} = dir["prev"]
        OBVIOUS
      <4> QED
        BY <3>3, <4>1 DEF KeptTree
    <3>5. CASE dir["root"] = {}
      <4>1. rmark' = "in" \/ rmark' = "out"
        BY <3>1
      <4>2. KeptTree' = KeptTree
        <5>1. dir["prev"] \cup dir["root"] = dir["prev"] /\ dir["prev"] \cup {} = dir["prev"]
          BY <3>5
        <5> QED
          BY <2>2, <3>4, <4>1, <5>1 DEF KeptTree
      <4>3. Live' = Live
        BY <3>3, <3>5, WholeTrees
      <4> QED
        BY <4>2, <4>3 DEF VolumeStep
    <3>6. CASE dir["root"] # {}
      <4>1. PICK t \in Tree : dir["root"] = Whole(t)
        BY <2>1, <3>2, <3>6 DEF Inv, Data, Settled, HoldsOne, Fresh
      <4>2. Live = t /\ t # None
        BY <3>3, <4>1, WholeTrees
      <4>3. KeptTree' = IF KeptTree = None THEN Live ELSE KeptTree
        <5>1. CASE dir["prev"] = {}
          <6>1. Root = "live" /\ rmark' = "out"
            BY <2>1, <3>1, <3>2, <3>6, <5>1 DEF Root, Empty
          <6>2. KeptTree = None
            BY <3>4, <5>1, WholeTrees
          <6>3. dir'["prev"] \cup dir'["root"] = Whole(t)
            BY <2>2, <4>1, <5>1
          <6>4. KeptTree' = t
            BY <6>1, <6>3, WholeTrees DEF KeptTree
          <6> QED
            BY <4>2, <6>2, <6>4
        <5>2. CASE dir["prev"] # {}
          <6>1. rmark' = "in"
            BY <3>1, <3>2, <5>2 DEF Root, Empty
          <6>2. PICK s \in Tree : dir["prev"] = Whole(s)
            BY <3>3, <5>2 DEF KeptWhole
          <6>3. KeptTree # None
            BY <3>4, <6>2, WholeTrees
          <6>4. dir'["prev"] \cup {} = dir["prev"]
            BY <2>2
          <6>5. KeptTree' = KeptTree
            BY <3>4, <6>1, <6>4 DEF KeptTree
          <6> QED
            BY <6>3, <6>5
        <5> QED
          BY <5>1, <5>2
      <4>4. Volume!BeginRestore
        BY <3>3, <4>2, <4>3 DEF Volume!BeginRestore, Live, KeptTree
      <4> QED
        BY <4>4 DEF VolumeStep, Volume!Next
    <3> QED
      BY <3>5, <3>6
  <2> QED
    BY <2>3, <2>4
<1>4. CASE RestoreSetsAside \/ RestoreSweeps \/ RestoreMovesIn \/ RestoreDrops
  <2>1. rmark = "in" /\ rmark' = "in"
    BY <1>4 DEF RestoreSetsAside, RestoreSweeps, RestoreMovesIn, RestoreDrops, Inv, Orderly
  <2>2. dir'["prev"] = dir["prev"]
    BY <1>a, <1>4, Moved, Removed DEF RestoreSetsAside, RestoreSweeps, RestoreMovesIn, RestoreDrops
  <2> QED
    BY <1>o, <2>1, <2>2 DEF VolumeStep, Live, KeptTree
<1>5. CASE RestoreKeepsOld
  <2>1. rmark = "out" /\ rmark' \in {"out", "in"}
    BY <1>5 DEF RestoreKeepsOld, Inv, Orderly
  <2>2. Live' = Live
    BY <1>o, <2>1 DEF Live
  <2>3. CASE Mv("root", "prev") /\ rmark' = rmark
    <3>1. PICK f \in Cluster("root") : /\ dir'["root"] = dir["root"] \ {f}
                                       /\ dir'["prev"] = dir["prev"] \cup {f}
      BY <1>a, <2>3, Moved
    <3>2. dir'["prev"] \cup dir'["root"] = dir["prev"] \cup dir["root"]
      BY <3>1 DEF Cluster
    <3>3. KeptTree' = KeptTree
      BY <2>1, <2>3, <3>2 DEF KeptTree
    <3> QED
      BY <2>2, <3>3 DEF VolumeStep
  <2>4. CASE dir["root"] = {} /\ dir' = dir
    <3>1. KeptTree' = KeptTree
      BY <2>1, <2>4 DEF KeptTree
    <3> QED
      BY <2>2, <3>1 DEF VolumeStep
  <2> QED
    BY <1>5, <2>3, <2>4 DEF RestoreKeepsOld, Empty
<1>6. CASE RestoreFinishes
  <2>1. rmark = "in" /\ rmark' = None /\ dir' = dir /\ mark' = mark /\ mark = None
    BY <1>2, <1>6 DEF RestoreFinishes, Restoring, Inv, Orderly
  <2>2. restorer.id \in Tree /\ dir["root"] = Whole(restorer.id)
    BY <1>6, <1>a, UptoTrees DEF RestoreFinishes, Inv, Data, RestoreWhole, Orderly, Restoring
  <2>3. Live = None /\ Live' = restorer.id
    BY <1>o, <2>1, <2>2, WholeTrees DEF Live
  <2>4. KeptTree' = KeptTree
    BY <1>o, <2>1 DEF KeptTree
  <2>5. Volume!FinishRestore
    BY <2>2, <2>3, <2>4 DEF Volume!FinishRestore, Live, KeptTree
  <2> QED
    BY <2>5 DEF VolumeStep, Volume!Next
<1> QED
  BY <1>1, <1>3, <1>4, <1>5, <1>6 DEF RestoreScript

LEMMA OthersKeepVolume ==
  ASSUME Inv, Stage \/ Restarts \/ PodStarts \/ Faults
  PROVE  VolumeStep
<1>a. dir \in [Place -> SUBSET File]
  BY DEF Inv, TypeOK, TypeCorrect
<1> USE DEF disk, markers, Place, StageUnchanged
<1>1. rmark' = rmark /\ mark' = mark
  BY DEF Stage, StageClears, StageCopies, StageArms, StageFails, StageUndoes,
         Restarts, PodStarts, Faults, KillDb, KillPod, KillRestore, LoseStage
<1>2. \/ UNCHANGED dir \/ Rm("stage") \/ \E f : Add("stage", f)
      \/ dir' = [dir EXCEPT !["stage"] = @ \ (Tree \X {Version})]
  BY DEF Stage, StageClears, StageCopies, StageArms, StageFails, StageUndoes,
         Restarts, PodStarts, Faults, KillDb, KillPod, KillRestore, LoseStage
<1>3. dir'["root"] = dir["root"] /\ dir'["prev"] = dir["prev"] /\ dir'["discard"] = dir["discard"]
  BY <1>a, <1>2, Removed, Added
<1> QED
  BY <1>1, <1>3, SameVolume DEF VolumeStep

LEMMA CommandKeepsVolume ==
  ASSUME Inv, KeptWhole, Commands
  PROVE  VolumeStep
<1>a. dir \in [Place -> SUBSET File]
  BY DEF Inv, TypeOK, TypeCorrect
<1> USE DEF disk, markers, dirVars, Place
<1>1. rmark' = rmark /\ mark' = mark
  BY DEF Commands, Reseed, ReseedStages, ReseedStaged, ReseedStops, ReseedWaits,
      ReseedRestartFails, ReseedDisarms, ReseedChecks, ReseedDiscards, SetRestoreMarker,
      RolloutRestart, Proven, RetirePrevious, ClearRestoreMarker, RemoveRecord, RemoveDiscard, Abandon,
      ComposeRestore, ComposeStopsDb, ComposeRuns, ComposeRan, ComposeStopsRun, ComposeProbes,
      ComposeUp, ComposeStartsDb, ChangeRole, CommandEnds
<1>2. CASE RetirePrevious
  <2>1. mark = None /\ rmark = None
    BY <1>2 DEF RetirePrevious, At, Inv, Alone, Orderly, Running, TypeOK, TypeCorrect
  <2>2. PICK t \in Tree : dir["root"] = Whole(t)
    BY <1>2 DEF RetirePrevious
  <2>3. dir'["root"] = dir["root"] /\ dir'["prev"] = {}
    BY <1>2, <1>a DEF RetirePrevious
  <2>4. rmark # "out" /\ rmark' # "out"
    BY <1>1, <2>1, DataDirAssumption DEF Phase
  <2>5. Live = t /\ Live' = t /\ t # None
    BY <1>1, <2>1, <2>2, <2>3, WholeTrees DEF Live
  <2>6. KeptTree' = None
    BY <2>3, <2>4, WholeTrees DEF KeptTree
  <2>7. CASE KeptTree = None
    BY <2>5, <2>6, <2>7 DEF VolumeStep
  <2>8. CASE KeptTree # None
    <3>1. Volume!Prove
      BY <2>5, <2>6, <2>8 DEF Volume!Prove, Live, KeptTree
    <3> QED
      BY <3>1 DEF VolumeStep, Volume!Next
  <2> QED
    BY <2>7, <2>8
<1>3. CASE ReseedDiscards \/ RemoveDiscard
  <2>1. mark = None
    BY <1>3 DEF ReseedDiscards, RemoveDiscard, At, Inv, Alone
  <2>2. dir' = dir \/ Rm("discard") \/ Rm("retired")
    BY <1>3 DEF ReseedDiscards, RemoveDiscard
  <2>3. dir'["root"] = dir["root"] /\ dir'["prev"] = dir["prev"]
    BY <1>a, <2>2, Removed
  <2> QED
    BY <1>1, <2>1, <2>3, SameVolume DEF VolumeStep
<1>4. CASE ~(RetirePrevious \/ ReseedDiscards \/ RemoveDiscard)
  <2>1. dir' = dir
    BY <1>4 DEF Commands, Reseed, ReseedStages, ReseedStaged, ReseedStops, ReseedWaits,
      ReseedRestartFails, ReseedDisarms, ReseedChecks, SetRestoreMarker,
      RolloutRestart, Proven, ClearRestoreMarker, RemoveRecord, Abandon,
      ComposeRestore, ComposeStopsDb, ComposeRuns, ComposeRan, ComposeStopsRun, ComposeProbes,
      ComposeUp, ComposeStartsDb, ChangeRole, CommandEnds
  <2> QED
    BY <1>1, <2>1, SameVolume DEF VolumeStep
<1> QED
  BY <1>2, <1>3, <1>4

LEMMA InitialVolume == Init => Volume!Init
<1> SUFFICES ASSUME Init PROVE Volume!Init
  OBVIOUS
<1>1. mark = None /\ rmark = None /\ dir["prev"] = {}
  BY DEF Init, Blank, On, Place
<1>2. KeptTree = None
  BY <1>1, WholeTrees, DataDirAssumption DEF KeptTree, Phase
<1>3. Live \in Tree \cup {None}
  BY <1>1, WholeTrees DEF Live
<1> QED
  BY <1>2, <1>3 DEF Volume!Init, Live, KeptTree

LEMMA VolumeSimulates ==
  ASSUME Inv, Ordered, [Next]_vars
  PROVE  VolumeStep
<1>1. CASE Commands
  BY <1>1, CommandKeepsVolume DEF Ordered
<1>2. CASE Scripts
  BY <1>2, GuardKeepsVolume, RestoreKeepsVolume, OthersKeepVolume DEF Scripts, Ordered
<1>3. CASE UNCHANGED vars
  <2>1. rmark' = rmark /\ mark' = mark /\ dir' = dir
    BY <1>3 DEF vars, dirVars, disk, markers
  <2> QED
    BY <2>1, SameVolume DEF VolumeStep
<1> QED
  BY <1>1, <1>2, <1>3 DEF Next

\* A reseed swaps in only on a standby and only a younger tree, a restore only
\* for an attempt younger than the database last proven.
LEMMA SwapsForward ==
  ASSUME Inv, Ordered, [Next]_vars
  PROVE  /\ mark = None /\ mark' # None =>
              intent = "standby" /\ \A t \in Tree : dir["root"] = Whole(t) => t < mark'.id
         /\ rmark = None /\ rmark' # None => good = None \/ good < restorer.id
<1>1. CASE mark = None /\ mark' # None
  <2>1. GuardClears
    BY <1>1 DEF Next, Commands, Reseed, ReseedStages, ReseedStaged, ReseedStops, ReseedWaits,
      ReseedRestartFails, ReseedDisarms, ReseedChecks, ReseedDiscards, SetRestoreMarker,
      RolloutRestart, Proven, RetirePrevious, ClearRestoreMarker, RemoveRecord, RemoveDiscard, Abandon,
      ComposeRestore, ComposeStopsDb, ComposeRuns, ComposeRan, ComposeStopsRun, ComposeProbes,
      ComposeUp, ComposeStartsDb, ChangeRole, CommandEnds,
      Scripts, Restarts, PodStarts, Faults, KillDb, KillPod, KillRestore, LoseStage,
      Stage, StageClears, StageCopies, StageArms, StageFails, StageUndoes, StageUnchanged,
      RestoreScript, RestoreSkips, RestoreLocks, RestoreClears, RestoreFetches, RestoreFails,
      RestoreSettles, RestoreSetsAside, RestoreKeepsOld, RestoreSweeps, RestoreMovesIn,
      RestoreDrops, RestoreFinishes, Guard, GuardExits, GuardBoots, GuardChooses, GuardRefuses,
      GuardMovesOut, GuardRollsBack, GuardUnstages, GuardMovesIn, GuardUnstamps, GuardFinishes,
      vars, dirVars, disk, markers, Inv, Orderly
  <2>2. /\ ready # None /\ rmark = None /\ rmark' = None /\ intent = "standby"
        /\ mark' = [phase |-> "out", id |-> ready]
    BY <1>1, <2>1 DEF GuardClears, Inv, Orderly, Alone, Swapping
  <2>3. \A t \in Tree : dir["root"] = Whole(t) => t < mark'.id
    <3>1. mark'.id = ready /\ dir["root"] \subseteq Upto(ready - 1)
      BY <1>1, <2>2 DEF Ordered, StagedLater
    <3>2. ready \in Int /\ ready - 1 \in Int
      BY <2>2, UptoTrees DEF Inv, TypeOK, TypeCorrect
    <3>3. ASSUME NEW t \in Tree, dir["root"] = Whole(t) PROVE t < ready
      <4>1. t <= ready - 1 /\ t \in Int
        BY <3>1, <3>2, <3>3, UptoTrees
      <4> QED
        BY <3>2, <4>1
    <3> QED
      BY <3>1, <3>3
  <2> QED
    BY <2>2, <2>3
<1>2. CASE rmark = None /\ rmark' # None
  <2>1. RestoreKeepsOld => rmark # None
    BY DataDirAssumption DEF RestoreKeepsOld, Inv, Orderly, Phase
  <2>2. RestoreSettles
    BY <1>2, <2>1 DEF Next, Commands, Reseed, ReseedStages, ReseedStaged, ReseedStops, ReseedWaits,
      ReseedRestartFails, ReseedDisarms, ReseedChecks, ReseedDiscards, SetRestoreMarker,
      RolloutRestart, Proven, RetirePrevious, ClearRestoreMarker, RemoveRecord, RemoveDiscard, Abandon,
      ComposeRestore, ComposeStopsDb, ComposeRuns, ComposeRan, ComposeStopsRun, ComposeProbes,
      ComposeUp, ComposeStartsDb, ChangeRole, CommandEnds,
      Scripts, Restarts, PodStarts, Faults, KillDb, KillPod, KillRestore, LoseStage,
      Stage, StageClears, StageCopies, StageArms, StageFails, StageUndoes, StageUnchanged,
      RestoreScript, RestoreSkips, RestoreLocks, RestoreClears, RestoreFetches, RestoreFails,
      RestoreSetsAside, RestoreKeepsOld, RestoreSweeps, RestoreMovesIn,
      RestoreDrops, RestoreFinishes, Guard, GuardExits, GuardBoots, GuardChooses, GuardRefuses,
      GuardClears, GuardMovesOut, GuardRollsBack, GuardUnstages, GuardMovesIn, GuardUnstamps,
      GuardFinishes, vars, dirVars, disk, markers
  <2>3. restorer.pc = "settle" /\ restorer.id # None /\ mark = None /\ mark' = None
    BY <2>2 DEF RestoreSettles, Inv, Orderly, Alone, Restoring
  <2>4. good = None \/ good < restorer.id
    BY <1>2, <2>3 DEF Ordered, RestoredOnce, Older
  <2> QED
    BY <2>3, <2>4
<1> QED
  BY <1>1, <1>2

\* Attempts are numbered in the order they are issued, and nothing of one
\* still to run is on the volume.
LEMMA VolumeOrdered ==
  ASSUME ~RoleMovesAnytime, ~Orphans
  PROVE  Spec => [](Inv /\ Ordered)
<1>1. Init => Inv /\ Ordered
  BY Initially, InitiallyOrdered
<1>2. Inv /\ Ordered /\ [Next]_vars => Inv' /\ Ordered'
  BY Preserved, OrderedPreserved
<1> QED
  BY <1>1, <1>2, PTL DEF Spec

\* Nothing left behind by a command that failed swaps again: a reseed swap
\* begins only on a standby and with a tree staged after the one it takes out,
\* a restore swap only for an attempt later than the database last proven.
THEOREM VolumeSwapsForward ==
  ASSUME ~RoleMovesAnytime, ~Orphans
  PROVE  Spec => NoStaleSwap
<1>1. Inv /\ Ordered /\ [Next]_vars =>
        [/\ mark = None /\ mark' # None =>
              intent = "standby" /\ \A t \in Tree : dir["root"] = Whole(t) => t < mark'.id
         /\ rmark = None /\ rmark' # None => good = None \/ good < restorer.id]_vars
  BY SwapsForward
<1> QED
  BY <1>1, VolumeOrdered, PTL DEF Spec, NoStaleSwap

\* The scripts implement a volume that exchanges whole trees: moved entry by
\* entry and killed anywhere, a reseed is one exchange, and the database from
\* before a restore is kept until the restored one is proven.
THEOREM VolumeIsOne ==
  ASSUME ~RoleMovesAnytime, ~Orphans
  PROVE  Spec => IsOneVolume
<1>1. Init => Volume!Init
  BY InitialVolume
<1>2. Inv /\ Ordered /\ [Next]_vars => [Volume!Next]_<<Live, KeptTree>>
  BY VolumeSimulates DEF VolumeStep
<1> QED
  BY <1>1, <1>2, VolumeOrdered, PTL DEF Spec, IsOneVolume, Volume!Spec, Live, KeptTree
====
