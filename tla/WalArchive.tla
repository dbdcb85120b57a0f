----------------------------- MODULE WalArchive -----------------------------
(***************************************************************************)
(* The backups of an HA pair: one lineage folder in the object store that  *)
(* both servers can write, and what keeps all but the primary out of it.   *)
(*                                                                         *)
(* A server has an archiver (postgres calling wal-archive.sh for its       *)
(* oldest finished segment) and a base-backup run (cron or a command       *)
(* calling compose-backup.sh or the CronJob's script).  The commands move  *)
(* the wal-g role, the retired marker and the fence object.                *)
(*                                                                         *)
(* A promotion opens a branch of the history.  Its timeline is one more    *)
(* than that of the server it happened on, so two branches may carry the   *)
(* same number; the model tells them apart by their index, the scripts     *)
(* cannot.                                                                 *)
(***************************************************************************)
EXTENDS Naturals, Sequences

CONSTANTS
  Server,
  MaxSegment,     \* bound: segments a history grows to
  MaxFailovers,   \* bound: failovers begun
  MaxFaults,      \* bound: failed store calls, steps a server did not answer, runs killed
  MaxBackups,     \* bound: base-backup runs begun
  None

ASSUME WalArchiveAssumption ==
  /\ \E s, o \in Server : s # o /\ Server = {s, o}
  /\ {MaxSegment, MaxFailovers, MaxFaults, MaxBackups} \subseteq Nat
  /\ None \notin Nat \cup [branch : Nat, calledOff : Nat]

Segment == 0 .. MaxSegment
Branch == 1 .. MaxFailovers + 1

VARIABLES
  hist,      \* the branches: each one's timeline and the segment it opens in
  pg,        \* pg[s]: up?, in recovery?, the branch it is on, the segment it writes
  main,      \* the server whose role is primary in the project file
  cmd,       \* the step the command under way is at, or "idle"
  role,      \* role[s]: what the wal-g role file says
  retired,   \* the servers that carry the retired marker
  held,      \* held[s]: the finished segments postgres still wants archived
  gap,       \* gap[s]: vibecarbon-wal-gap
  aside,     \* aside[s]: vibecarbon-wal-gap.clearing
  logged,    \* segments given up with no more than a log line
  backup,    \* backup[s]: the base-backup run
  archive,   \* archive[t, k]: the branch whose segment has that name, or None
  bases,     \* the base backups; nth: how many finished before it
  fence,     \* vibecarbon-fence.json: the branch it names and its age, or None
  used       \* counters: failovers begun and called off, faults, runs begun and finished

walVars == <<hist, pg, main, cmd, role, retired, held, gap, aside, logged,
             backup, archive, bases, fence, used>>
pair == <<hist, pg, main, cmd, role, retired>>
records == <<gap, aside, logged>>
store == <<archive, bases, fence>>

Other(s) == CHOOSE o \in Server : o # s
Timeline(b) == hist[b].timeline
Of(s) == pg[s].branch
RoleOf(s) == IF s = main THEN "primary" ELSE "standby"
Writes(s) == pg[s].up /\ ~pg[s].recovers
\* A fence tells its age by the failovers called off before it.
FenceOn(b, n) == [branch |-> b, calledOff |-> n]
NoRun == [at |-> "idle", start |-> 0, read |-> None, old |-> {}, alone |-> TRUE, torn |-> FALSE]

\* A healthy pair, its fence written by the deploy that built it or not.
Init ==
  /\ hist = <<[timeline |-> 1, opens |-> 0]>>
  /\ main \in Server
  /\ pg = [s \in Server |-> [up |-> TRUE, recovers |-> s # main, branch |-> 1, segment |-> 0]]
  /\ cmd = "idle" /\ retired = {}
  /\ role = [s \in Server |-> RoleOf(s)]
  /\ held = [s \in Server |-> {}]
  /\ gap = [s \in Server |-> {}] /\ aside = [s \in Server |-> {}] /\ logged = {}
  /\ backup = [s \in Server |-> NoRun]
  /\ archive = [n \in Branch \X Segment |-> None] /\ bases = {}
  /\ fence \in {None, FenceOn(1, 0)}
  /\ used = [failovers |-> 0, faults |-> 0, calledOff |-> 0, backups |-> 0, pushed |-> 0]

Fault == used.faults < MaxFaults /\ used' = [used EXCEPT !.faults = @ + 1]
NoFault == UNCHANGED used

-----------------------------------------------------------------------------
(* The databases.                                                          *)

\* A primary, or one that was, finishes a segment.
Write(s) ==
  /\ Writes(s) /\ pg[s].segment < MaxSegment
  /\ pg' = [pg EXCEPT ![s].segment = @ + 1]
  /\ held' = [held EXCEPT ![s] = @ \cup {pg[s].segment}]
  /\ UNCHANGED <<hist, main, cmd, role, retired, records, backup, store, used>>

-----------------------------------------------------------------------------
(* The archiver.                                                           *)

\* The scripts know a branch by its timeline.
NamesNewer(c) == fence # None /\ Timeline(fence.branch) > Timeline(c)
\* What the fence lets through of the timeline the named branch left.
BeforeSwitch(c, k) == Timeline(c) = Timeline(fence.branch) - 1 /\ k < hist[fence.branch].opens
FencedOff(s, k) == NamesNewer(Of(s)) /\ ~BeforeSwitch(Of(s), k)

\* Postgres calls with its oldest finished segment; a retired server refuses it.
Oldest(s) == CHOOSE k \in held[s] : \A j \in held[s] : k <= j
LetGo(s) == held' = [held EXCEPT ![s] = @ \ {Oldest(s)}]
Calls(s) == Writes(s) /\ held[s] # {} /\ s \notin retired

\* A standby's segments belong to no backup: exit 0.
ArchiveSkip(s) ==
  /\ Calls(s) /\ role[s] = "standby" /\ LetGo(s)
  /\ UNCHANGED <<pair, records, backup, store, used>>

\* wal-g takes a segment it has with the same bytes and refuses another one.
Push(s) ==
  LET n == <<Timeline(Of(s)), Oldest(s)>>
  IN IF archive[n] \in {None, Of(s)}
     THEN archive' = [archive EXCEPT ![n] = Of(s)] /\ UNCHANGED logged
     ELSE logged' = logged \cup {<<Of(s), Oldest(s)>>} /\ UNCHANGED archive

ArchivePush(s) ==
  /\ Calls(s) /\ role[s] = "primary" /\ ~FencedOff(s, Oldest(s))
  /\ Push(s) /\ LetGo(s)
  /\ UNCHANGED <<pair, gap, aside, backup, bases, fence, used>>

\* The fence was written after the script read it, or could not be read.
ArchivePastFence(s) ==
  /\ Calls(s) /\ role[s] = "primary" /\ FencedOff(s, Oldest(s)) /\ Fault
  /\ Push(s) /\ LetGo(s)
  /\ UNCHANGED <<pair, gap, aside, backup, bases, fence>>

\* Every attempt failed and the disk is nearly full: the segment goes, on record
\* if the record can be written.  With room on the disk postgres keeps it.
ArchiveDrop(s) ==
  /\ Calls(s) /\ role[s] = "primary" /\ ~FencedOff(s, Oldest(s)) /\ Fault /\ LetGo(s)
  /\ \/ gap' = [gap EXCEPT ![s] = @ \cup {Oldest(s)}] /\ UNCHANGED logged
     \/ logged' = logged \cup {<<Of(s), Oldest(s)>>} /\ UNCHANGED gap
  /\ UNCHANGED <<pair, aside, backup, store>>

-----------------------------------------------------------------------------
(* A base backup.                                                          *)

Step(s, b) == backup' = [backup EXCEPT ![s] = b]
Running(s) == backup[s].at # "idle"

\* The guards of the run, under the lock of its own host or container.
BackupStart(s) ==
  /\ ~Running(s) /\ Writes(s) /\ s \notin retired /\ role[s] = "primary"
  /\ ~NamesNewer(Of(s))
  /\ Step(s, [NoRun EXCEPT !.at = "retain", !.read = fence, !.alone = ~Running(Other(s))])
  /\ used.backups < MaxBackups /\ used' = [used EXCEPT !.backups = @ + 1]
  /\ UNCHANGED <<pair, held, records, store>>

\* wal-g orders what it deletes by timeline, then segment.
Below(t, k, u, l) == t < u \/ (t = u /\ k < l)
BelowBase(t, k, b) == Below(t, k, Timeline(b.branch), b.start)

\* What `delete before FIND_FULL b` leaves.
KeptBases(b) == {c \in bases : ~BelowBase(Timeline(c.branch), c.start, b)}
KeptWal(b) == [n \in DOMAIN archive |-> IF BelowBase(n[1], n[2], b) THEN None ELSE archive[n]]

\* Retention, then the push begins.  `delete garbage` removes the files of every
\* push that has no sentinel yet; `delete before` what precedes the newest base
\* past the cutoff, whichever the clock makes that.  Either may fail.
BackupPush(s) ==
  /\ backup[s].at = "retain"
  /\ LET o == Other(s)
         pushing == [backup EXCEPT ![s].at = "push", ![s].start = pg[s].segment,
                                   ![s].old = gap[s] \cup aside[s]]
         swept == [pushing EXCEPT ![o].torn = @ \/ (backup[o].at = "push" /\ backup[o].alone)]
     IN \/ backup' \in {pushing, swept} /\ UNCHANGED <<archive, bases>>
        \/ /\ backup' = swept
           /\ \E b \in bases : bases' = KeptBases(b) /\ archive' = KeptWal(b)
  /\ UNCHANGED <<pair, held, records, fence, used>>

\* The sentinel is written: the base is in the list.
BackupPushed(s) ==
  /\ backup[s].at = "push"
  /\ bases' = bases \cup {[branch |-> Of(s), start |-> backup[s].start, read |-> backup[s].read,
                           alone |-> backup[s].alone, torn |-> backup[s].torn,
                           nth |-> used.pushed]}
  /\ used' = [used EXCEPT !.pushed = @ + 1]
  /\ Step(s, IF gap[s] \cup aside[s] = {} THEN NoRun ELSE [backup[s] EXCEPT !.at = "move"])
  /\ UNCHANGED <<pair, held, records, archive, fence>>

\* The push fails, or the container it runs in restarts at any step.
BackupDies(s) ==
  /\ Running(s) /\ Fault
  /\ Step(s, NoRun)
  /\ UNCHANGED <<pair, held, records, store>>

\* The gap record moves aside, over what an earlier run left there.
GapMove(s) ==
  /\ backup[s].at = "move"
  /\ aside' = IF gap[s] = {} THEN aside ELSE [aside EXCEPT ![s] = gap[s]]
  /\ gap' = [gap EXCEPT ![s] = {}]
  /\ Step(s, [backup[s] EXCEPT !.at = "keep"])
  /\ UNCHANGED <<pair, held, logged, store, used>>

\* Mutant: what was recorded during the push is taken for covered too.
GapKeepNothing(s) ==
  /\ backup[s].at = "keep"
  /\ aside' = [aside EXCEPT ![s] = {}]
  /\ Step(s, NoRun)
  /\ UNCHANGED <<pair, held, gap, logged, store, used>>

\* What was recorded since the push began goes back; the rest is behind the base.
GapKeep(s) ==
  /\ backup[s].at = "keep"
  /\ gap' = [gap EXCEPT ![s] = @ \cup (aside[s] \ backup[s].old)]
  /\ aside' = [aside EXCEPT ![s] = {}]
  /\ Step(s, NoRun)
  /\ UNCHANGED <<pair, held, logged, store, used>>

-----------------------------------------------------------------------------
(* The commands, one at a time.  One that dies stays where it is until the *)
(* operator runs it again, or calls the failover off.                      *)

standby == Other(main)
At(from, to) == cmd = from /\ cmd' = to
Archivers == <<held, records, backup>>
\* A step the command does not insist on: it lands, or the server does not answer.
Lands(ok, not) == (ok /\ NoFault) \/ (not /\ Fault)
SetRole(s, r) == role' = [role EXCEPT ![s] = r]
\* The fence names the branch of a server out of recovery.
WriteFence(s) ==
  Lands(fence' = FenceOn(Of(s), used.calledOff), UNCHANGED fence)

Failover ==
  /\ At("idle", "arm") /\ used.failovers < MaxFailovers
  /\ pg[standby].up /\ pg[standby].recovers
  /\ used' = [used EXCEPT !.failovers = @ + 1]
  /\ UNCHANGED <<hist, pg, main, role, retired, Archivers, store>>

\* The role goes to the standby before the promote; a failure puts it back, if it can.
Arm ==
  /\ \/ At("arm", "promote") /\ SetRole(standby, "primary") /\ NoFault
     \/ At("arm", "idle") /\ (\E r \in {"primary", "standby"} : SetRole(standby, r)) /\ Fault
  /\ UNCHANGED <<hist, pg, main, retired, Archivers, store>>

\* The standby promotes with what it received of its primary's segments, at least
\* those of its seed.
Promote ==
  /\ At("promote", "fence") /\ pg[standby].up /\ pg[standby].recovers
  /\ \E k \in pg[standby].segment .. pg[main].segment :
       /\ hist' = Append(hist, [timeline |-> Timeline(Of(standby)) + 1, opens |-> k])
       /\ pg' = [pg EXCEPT ![standby] = [@ EXCEPT !.recovers = FALSE, !.segment = k,
                                                  !.branch = Len(hist) + 1]]
  /\ UNCHANGED <<main, role, retired, Archivers, store, used>>

FenceOff ==
  /\ At("fence", "demote") /\ WriteFence(standby)
  /\ UNCHANGED <<hist, pg, main, role, retired, Archivers, archive, bases>>

Demote ==
  /\ At("demote", "swap") /\ Lands(SetRole(main, "standby"), UNCHANGED role)
  /\ UNCHANGED <<hist, pg, main, retired, Archivers, store>>

Retired(s) == retired' = retired \cup {s} /\ SetRole(s, "standby")

Swap ==
  /\ At("swap", "idle") /\ main' = standby
  /\ Lands(Retired(main), UNCHANGED <<retired, role>>)
  /\ UNCHANGED <<hist, pg, Archivers, store>>

\* A retired server that answers again is fenced by the next command to see it.
Retire ==
  /\ cmd = "idle" /\ Writes(standby) /\ standby \notin retired
  /\ Retired(standby)
  /\ UNCHANGED <<hist, pg, main, cmd, Archivers, store, used>>

\* failover -abort: the standby's database is proven down before anything else.
CallOff ==
  /\ cmd \in {"promote", "fence", "demote", "swap"} /\ cmd' = "disarm"
  /\ pg' = [pg EXCEPT ![standby].up = FALSE]
  /\ backup' = [backup EXCEPT ![standby] = NoRun]
  /\ used' = [used EXCEPT !.calledOff = @ + 1]
  /\ UNCHANGED <<hist, main, role, retired, held, records, store>>

Disarm ==
  /\ At("disarm", "rearm")
  /\ Lands(SetRole(standby, "standby"), UNCHANGED role)
  /\ UNCHANGED <<hist, pg, main, retired, Archivers, store>>

Rearm ==
  /\ \/ At("rearm", "refence") /\ Lands(SetRole(main, "primary"), UNCHANGED role)
     \/ At("rearm", "idle") /\ Fault /\ UNCHANGED role
  /\ UNCHANGED <<hist, pg, main, retired, Archivers, store>>

\* Mutant: the abort leaves the fence of the promote it called off.
RefenceNever ==
  /\ At("refence", "idle") /\ NoFault
  /\ UNCHANGED <<hist, pg, main, role, retired, Archivers, store>>

Refence ==
  /\ At("refence", "idle") /\ WriteFence(main)
  /\ UNCHANGED <<hist, pg, main, role, retired, Archivers, archive, bases>>

Follows == pg[standby].up /\ pg[standby].recovers /\ Of(standby) = Of(main)
\* Nothing for a deploy to change.
InOrder ==
  /\ Follows /\ retired = {} /\ \A s \in Server : role[s] = RoleOf(s)
  /\ fence = FenceOn(Of(main), used.calledOff)

\* A deploy gives both servers their role, copies the primary over a standby
\* that does not follow it, takes its marker off and writes the fence last.
Deploy ==
  /\ At("idle", "reseed") /\ ~InOrder
  /\ role' = [s \in Server |-> RoleOf(s)]
  /\ UNCHANGED <<hist, pg, main, retired, Archivers, store, used>>

Clear(f, s, v) == f' = [f EXCEPT ![s] = v]

Reseed ==
  /\ At("reseed", "refence")
  /\ IF Follows
     THEN UNCHANGED <<pg, held, gap, aside, backup>>
     ELSE /\ Clear(pg, standby, [pg[main] EXCEPT !.recovers = TRUE])
          /\ Clear(held, standby, {})
          /\ Clear(gap, standby, {}) /\ Clear(aside, standby, {})
          /\ Clear(backup, standby, NoRun)
  /\ retired' = retired \ {standby}
  /\ UNCHANGED <<hist, main, role, logged, store, used>>

Command ==
  \/ Arm \/ Promote \/ FenceOff \/ Demote \/ Swap
  \/ Disarm \/ Rearm \/ Refence \/ Reseed

Archiver(s) == ArchiveSkip(s) \/ ArchivePush(s)
Backup(s) ==
  \/ BackupStart(s) \/ BackupPush(s) \/ BackupPushed(s) \/ BackupDies(s)
  \/ GapMove(s) \/ GapKeep(s)

Next ==
  \/ Failover \/ Deploy \/ Retire \/ CallOff \/ Command
  \/ \E s \in Server : \/ Write(s)
                       \/ Archiver(s) \/ ArchivePastFence(s) \/ ArchiveDrop(s) \/ Backup(s)

Spec == Init /\ [][Next]_walVars

-----------------------------------------------------------------------------
(* Properties.                                                             *)

Newest(b) == \A c \in bases : c.nth <= b.nth
\* The segments a restore replays after base b and the primary has finished.
Needed(b) == {k \in Segment : b.start <= k /\ k < pg[main].segment}
Accounted(s, k) ==
  \/ archive[<<Timeline(Of(s)), k>>] = Of(s)
  \/ k \in held[s] \cup gap[s] \cup aside[s]
  \/ <<Of(s), k>> \in logged

\* `restore latest` starts at the base that finished last.  Once the fence names
\* the primary, a base whose run read that fence is the primary's, and no run that
\* began after its own swept it.  If none of the other server was under way when
\* its run began, every segment it needs is in the archive, held, in the gap
\* record or in the log: roles that move, gap records cleared, retention and late
\* runs take none away.  The retention of one that was under way may, with a base
\* of a called-off promote for its target.
LatestRestores ==
  cmd = "idle" /\ fence = FenceOn(Of(main), used.calledOff) =>
    \A b \in bases : Newest(b) /\ b.read = fence =>
      /\ b.branch = Of(main)
      /\ ~b.torn
      /\ b.alone => \A k \in Needed(b) : Accounted(main, k)

\* What the scripts let a server do, for any segment or base it may have.
MayPush(s) == Writes(s) /\ s \notin retired /\ role[s] = "primary" /\ ~NamesNewer(Of(s))

\* Between commands, the primary may push unless a step went unanswered: no
\* fence, role or marker of a failover, done or called off, stops it.
PrimaryMayPush == cmd = "idle" /\ used.faults = 0 => MayPush(main)
\* Once the fence names the primary, the other server may not push, whichever
\* steps went unanswered.
FenceKeepsOut ==
  cmd = "idle" /\ fence = FenceOn(Of(main), used.calledOff) => ~MayPush(standby)
\* One of the two servers pushes: the one in the project file.
OnlyPrimaryPushes == PrimaryMayPush /\ FenceKeepsOut
=============================================================================
