-------------------------- MODULE WalArchiveProofs --------------------------
(***************************************************************************)
(* One server of the pair pushes, and the base a restore starts at is its  *)
(* and complete, for every number of segments, failovers, faults and       *)
(* backups.                                                                *)
(***************************************************************************)
EXTENDS WalArchive, SequenceTheorems, WellFoundedInduction, TLAPS

Cmd == {"idle", "arm", "promote", "fence", "demote", "swap", "disarm", "rearm", "refence",
        "reseed"}
Database == [up : BOOLEAN, recovers : BOOLEAN, branch : Nat, segment : Nat]
Counters == [failovers : Nat, faults : Nat, calledOff : Nat, backups : Nat, pushed : Nat]

\* The variables the argument is about keep their shape, and every branch a
\* server or the fence names is in the history.
Shape ==
  /\ hist \in Seq([timeline : Nat, opens : Nat])
  /\ pg \in [Server -> Database]
  /\ main \in Server /\ cmd \in Cmd /\ retired \subseteq Server
  /\ role \in [Server -> {"primary", "standby"}]
  /\ used \in Counters
  /\ fence \in [branch : Nat, calledOff : Nat] \cup {None}
  /\ \A s \in Server : Of(s) \in DOMAIN hist
  /\ fence # None => fence.branch \in DOMAIN hist

\* The primary serves and is not retired; the standby follows it, or was promoted
\* by the failover under way, or is down, or was left behind on an older timeline.
Databases ==
  /\ Writes(main) /\ main \notin retired
  /\ pg[standby].recovers => Of(standby) = Of(main) /\ standby \notin retired
  /\ cmd \in {"arm", "promote"} => pg[standby].recovers
  /\ cmd \in {"fence", "demote", "swap"} =>
       /\ Writes(standby) /\ standby \notin retired
       /\ Timeline(Of(standby)) = Timeline(Of(main)) + 1
  /\ cmd \in {"disarm", "rearm", "refence"} => ~Writes(standby)
  /\ cmd \in {"idle", "reseed"} /\ Writes(standby) =>
       Timeline(Of(standby)) < Timeline(Of(main))

\* The role moves to the standby before the promote and, if every step lands,
\* leaves the primary only once the promote is done.
Roles ==
  /\ cmd \in {"promote", "fence", "demote", "swap"} => role[standby] = "primary"
  /\ used.faults = 0 /\ cmd \notin {"swap", "disarm", "rearm"} => role[main] = "primary"

\* If every step lands the fence is never ahead of the server it is to let push.
NotAhead(s) == fence # None => Timeline(fence.branch) <= Timeline(Of(s))
Fences ==
  used.faults = 0 =>
    /\ cmd \in {"idle", "arm", "promote", "fence", "reseed"} => NotAhead(main)
    /\ cmd \in {"demote", "swap"} => NotAhead(standby)

ArchiveInv == Shape /\ Databases /\ Roles /\ Fences

\* The other server of the pair, whichever it is, and back again.
LEMMA Others ==
  \A s \in Server : /\ Other(s) \in Server /\ Other(s) # s /\ Other(Other(s)) = s
                    /\ Server = {s, Other(s)}
<1> SUFFICES ASSUME NEW s \in Server
             PROVE  /\ Other(s) \in Server /\ Other(s) # s /\ Other(Other(s)) = s
                    /\ Server = {s, Other(s)}
  OBVIOUS
<1>1. PICK a \in Server, b \in Server : a # b /\ Server = {a, b}
  BY WalArchiveAssumption DEF WalArchiveAssumption
<1>2. QED
  BY <1>1 DEF Other

\* Every branch of the history has a timeline; one more leaves the others.
LEMMA History ==
  ASSUME NEW S, NEW h \in Seq(S)
  PROVE  /\ \A b \in DOMAIN h : h[b] \in S
         /\ Len(h) \in Nat /\ DOMAIN h = 1 .. Len(h)
BY ElementOfSeq, LenProperties

LEMMA Branching ==
  ASSUME NEW S, NEW h \in Seq(S), NEW e \in S
  PROVE  /\ Append(h, e) \in Seq(S)
         /\ DOMAIN Append(h, e) = DOMAIN h \cup {Len(h) + 1} /\ Len(h) + 1 \notin DOMAIN h
         /\ \A b \in DOMAIN h : Append(h, e)[b] = h[b]
         /\ Append(h, e)[Len(h) + 1] = e
<1>1. /\ Append(h, e) \in Seq(S) /\ Len(Append(h, e)) = Len(h) + 1
      /\ \A b \in 1 .. Len(h) : Append(h, e)[b] = h[b]
      /\ Append(h, e)[Len(h) + 1] = e
  BY AppendProperties
<1>2. /\ Len(h) \in Nat /\ DOMAIN h = 1 .. Len(h)
      /\ DOMAIN Append(h, e) = 1 .. Len(Append(h, e))
  BY <1>1, LenProperties
<1> QED
  BY <1>1, <1>2

\* The first state satisfies the invariant.
LEMMA ArchiveInit == Init => ArchiveInv
<1> SUFFICES ASSUME Init PROVE ArchiveInv
  OBVIOUS
<1> USE DEF Init
<1>1. main \in Server /\ standby \in Server /\ standby # main
  BY Others DEF standby
<1>2. Shape
  <2>1. hist \in Seq([timeline : Nat, opens : Nat]) /\ DOMAIN hist = {1}
    OBVIOUS
  <2>2. pg \in [Server -> Database] /\ \A s \in Server : Of(s) = 1
    BY DEF Database, Of
  <2>3. role \in [Server -> {"primary", "standby"}] /\ cmd \in Cmd /\ retired \subseteq Server
    BY DEF RoleOf, Cmd
  <2>4. used \in Counters
    BY DEF Counters
  <2>5. /\ fence \in [branch : Nat, calledOff : Nat] \cup {None}
        /\ fence # None => fence.branch = 1
    BY DEF FenceOn
  <2> QED
    BY <1>1, <2>1, <2>2, <2>3, <2>4, <2>5 DEF Shape
<1>3. Databases
  BY <1>1 DEF Databases, Writes, Of
<1>4. Roles
  BY <1>1 DEF Roles, RoleOf
<1>5. Fences
  BY <1>1, WalArchiveAssumption DEF Fences, NotAhead, Of, FenceOn, Timeline
<1> QED
  BY <1>2, <1>3, <1>4, <1>5 DEF ArchiveInv

-----------------------------------------------------------------------------
(* The servers, their backups and the store move none of it.               *)

\* What a step leaves alone when only the servers' own work goes on.
Quiet ==
  /\ UNCHANGED <<hist, main, cmd, role, retired, fence>>
  /\ used' \in Counters /\ used'.faults >= used.faults
  /\ used'.calledOff = used.calledOff /\ used'.failovers = used.failovers
  /\ pg' \in [Server -> Database]
  /\ \A s \in Server : /\ pg'[s].up = pg[s].up /\ pg'[s].recovers = pg[s].recovers
                       /\ pg'[s].branch = pg[s].branch

\* The invariant says nothing of what such a step changes.
LEMMA QuietStep == ArchiveInv /\ Quiet => ArchiveInv'
<1> SUFFICES ASSUME ArchiveInv, Quiet PROVE ArchiveInv'
  OBVIOUS
<1> USE DEF ArchiveInv, Quiet
<1>1. /\ main \in Server /\ standby \in Server /\ standby # main /\ standby' = standby
      /\ used.faults \in Nat /\ used'.faults \in Nat
  BY Others DEF standby, Shape, Counters
<1>2. \A s \in Server : Of(s)' = Of(s) /\ Writes(s)' = Writes(s)
  BY DEF Of, Writes
<1>3. \A b : Timeline(b)' = Timeline(b)
  BY DEF Timeline
<1>4. Shape'
  BY <1>2 DEF Shape
<1>5. Databases'
  BY <1>1, <1>2, <1>3 DEF Databases
<1>6. Roles'
  BY <1>1 DEF Roles
<1>7. Fences'
  <2>1. NotAhead(main)' = NotAhead(main) /\ NotAhead(standby)' = NotAhead(standby)
    BY <1>1, <1>2, <1>3 DEF NotAhead
  <2> QED
    BY <1>1, <2>1 DEF Fences
<1> QED
  BY <1>4, <1>5, <1>6, <1>7

\* Writing, archiving and backing up are such steps.
LEMMA ServersQuiet ==
  ASSUME ArchiveInv, NEW s \in Server,
         \/ Write(s) \/ Archiver(s) \/ ArchivePastFence(s) \/ ArchiveDrop(s) \/ Backup(s)
  PROVE  Quiet
<1>1. pg \in [Server -> Database] /\ used \in Counters
  BY DEF ArchiveInv, Shape
<1> USE DEF Quiet
<1>2. CASE Write(s)
  <2>1. UNCHANGED <<hist, main, cmd, role, retired, fence, used>>
    BY <1>2 DEF Write, store
  <2>2. pg' = [pg EXCEPT ![s].segment = pg[s].segment + 1]
    BY <1>2 DEF Write
  <2>3. pg' \in [Server -> Database]
    BY <1>1, <2>2 DEF Database
  <2> QED
    BY <1>1, <2>1, <2>2, <2>3 DEF Database, Counters
<1>3. CASE ~Write(s)
  <2>1. UNCHANGED <<pair, fence>>
    BY <1>3 DEF Archiver, ArchiveSkip, ArchivePush, ArchivePastFence, ArchiveDrop, Push,
         Backup, BackupStart, BackupPush, BackupPushed, BackupDies, GapMove, GapKeep, store
  <2>2. \/ UNCHANGED used
        \/ used' = [used EXCEPT !.faults = @ + 1]
        \/ used' = [used EXCEPT !.backups = @ + 1]
        \/ used' = [used EXCEPT !.pushed = @ + 1]
    BY <1>3 DEF Archiver, ArchiveSkip, ArchivePush, ArchivePastFence, ArchiveDrop, Fault,
         Backup, BackupStart, BackupPush, BackupPushed, BackupDies, GapMove, GapKeep
  <2>3. /\ used' \in Counters /\ used'.faults >= used.faults
        /\ used'.calledOff = used.calledOff /\ used'.failovers = used.failovers
    BY <1>1, <2>2 DEF Counters
  <2> QED
    BY <1>1, <2>1, <2>3 DEF pair
<1> QED
  BY <1>2, <1>3

-----------------------------------------------------------------------------
(* The commands.                                                           *)

\* A step of a command counts a fault or lands, and the counters stay counters.
LEMMA Counting ==
  ASSUME used \in Counters, UNCHANGED used \/ Fault
  PROVE  /\ used' \in Counters /\ used.faults \in Nat
         /\ used'.faults = 0 => used.faults = 0 /\ UNCHANGED used
BY DEF Fault, Counters

\* Steps that leave databases and primary alone: only the role table, the
\* retired marker, the fence and the place in the command are to look at.
Settled == UNCHANGED <<hist, pg, main>>

\* Under such a step both servers stay what they are.
LEMMA SettledStep ==
  ASSUME ArchiveInv, Settled
  PROVE  /\ main \in Server /\ standby \in Server /\ standby # main
         /\ Server = {main, standby} /\ standby' = standby
         /\ \A s \in Server : Of(s)' = Of(s) /\ (Writes(s)' <=> Writes(s))
         /\ \A b : Timeline(b)' = Timeline(b)
         /\ \A s \in Server : Timeline(Of(s)) \in Nat
<1>1. main \in Server /\ standby \in Server /\ standby # main /\ Server = {main, standby}
  BY Others DEF standby, ArchiveInv, Shape
<1>2. \A s \in Server : Timeline(Of(s)) \in Nat
  <2>1. \A b \in DOMAIN hist : hist[b] \in [timeline : Nat, opens : Nat]
    BY History DEF ArchiveInv, Shape
  <2> QED
    BY <2>1 DEF ArchiveInv, Shape, Timeline
<1> QED
  BY <1>1, <1>2 DEF Settled, standby, Of, Writes, Timeline

\* A role written leaves a table of roles, and the other server's as it was.
LEMMA RoleSet ==
  ASSUME role \in [Server -> {"primary", "standby"}], NEW s \in Server,
         NEW r \in {"primary", "standby"}, SetRole(s, r)
  PROVE  /\ role' \in [Server -> {"primary", "standby"}]
         /\ role'[s] = r /\ \A o \in Server : o # s => role'[o] = role[o]
BY DEF SetRole

LEMMA FailoverKeeps == ArchiveInv /\ Failover => ArchiveInv'
<1> SUFFICES ASSUME ArchiveInv, Failover PROVE ArchiveInv'
  OBVIOUS
<1> USE DEF ArchiveInv
<1>1. /\ cmd = "idle" /\ cmd' = "arm" /\ pg[standby].recovers
      /\ UNCHANGED <<hist, pg, main, role, retired, fence>>
      /\ used' \in Counters /\ used'.faults = used.faults
  <2>1. /\ cmd = "idle" /\ cmd' = "arm" /\ pg[standby].recovers
        /\ UNCHANGED <<hist, pg, main, role, retired, fence>>
    BY DEF Failover, At, store
  <2>2. used \in Counters /\ used' = [used EXCEPT !.failovers = @ + 1]
    BY DEF Failover, Shape
  <2> QED
    BY <2>1, <2>2 DEF Counters
<1>2. Settled
  BY <1>1 DEF Settled
<1>3. Shape'
  BY <1>1, SettledStep, <1>2 DEF Shape, Cmd
<1>4. Databases'
  BY <1>1, SettledStep, <1>2 DEF Databases
<1>5. Roles'
  BY <1>1, SettledStep, <1>2 DEF Roles
<1>6. Fences'
  BY <1>1, SettledStep, <1>2 DEF Fences, NotAhead, Shape
<1> QED
  BY <1>3, <1>4, <1>5, <1>6

LEMMA ArmKeeps == ArchiveInv /\ Arm => ArchiveInv'
<1> SUFFICES ASSUME ArchiveInv, Arm PROVE ArchiveInv'
  OBVIOUS
<1> USE DEF ArchiveInv
<1>1. /\ cmd = "arm" /\ cmd' \in {"promote", "idle"}
      /\ UNCHANGED <<hist, pg, main, retired, fence>> /\ (UNCHANGED used \/ Fault)
  BY DEF Arm, At, NoFault, store
<1>2. Settled
  BY <1>1 DEF Settled
<1>3. used \in Counters /\ standby \in Server /\ main \in Server /\ main # standby
  BY SettledStep, <1>2 DEF Shape
<1>4. /\ role' \in [Server -> {"primary", "standby"}] /\ role'[main] = role[main]
      /\ cmd' = "promote" => role'[standby] = "primary"
  BY <1>1, <1>3, RoleSet DEF Arm, At, Shape
<1>5. Shape'
  BY <1>1, <1>3, <1>4, Counting, SettledStep, <1>2 DEF Shape, Cmd
<1>6. Databases'
  <2>1. pg[standby].recovers /\ ~Writes(standby)
    BY <1>1 DEF Databases, Writes
  <2> QED
    BY <1>1, <2>1, SettledStep, <1>2 DEF Databases
<1>7. Roles'
  BY <1>1, <1>3, <1>4, Counting, SettledStep, <1>2 DEF Roles
<1>8. Fences'
  BY <1>1, <1>3, Counting, SettledStep, <1>2 DEF Fences, NotAhead, Shape
<1> QED
  BY <1>5, <1>6, <1>7, <1>8

LEMMA PromoteKeeps == ArchiveInv /\ Promote => ArchiveInv'
<1> SUFFICES ASSUME ArchiveInv, Promote PROVE ArchiveInv'
  OBVIOUS
<1> USE DEF ArchiveInv
<1> DEFINE new == Len(hist) + 1
<1>1. PICK k \in pg[standby].segment .. pg[main].segment :
        /\ hist' = Append(hist, [timeline |-> Timeline(Of(standby)) + 1, opens |-> k])
        /\ pg' = [pg EXCEPT ![standby] = [@ EXCEPT !.recovers = FALSE, !.segment = k,
                                                   !.branch = Len(hist) + 1]]
  BY DEF Promote
<1>2. /\ cmd = "promote" /\ cmd' = "fence" /\ pg[standby].up /\ pg[standby].recovers
      /\ UNCHANGED <<main, role, retired, fence, used>>
  BY DEF Promote, At, store
<1>3. /\ main \in Server /\ standby \in Server /\ standby # main
      /\ Server = {main, standby} /\ standby' = standby
  BY <1>2, Others DEF standby, Shape
<1>4. /\ hist \in Seq([timeline : Nat, opens : Nat]) /\ pg \in [Server -> Database]
      /\ Of(standby) \in DOMAIN hist /\ Of(main) \in DOMAIN hist
      /\ Of(standby) = Of(main) /\ standby \notin retired
  BY <1>2, <1>3 DEF Shape, Databases
<1>5. k \in Nat /\ Timeline(Of(standby)) \in Nat
  <2>1. hist[Of(standby)] \in [timeline : Nat, opens : Nat]
    BY <1>4, History
  <2>2. pg[standby] \in Database /\ pg[main] \in Database
    BY <1>3, <1>4
  <2> QED
    BY <2>1, <2>2 DEF Timeline, Database
<1>6. /\ hist' \in Seq([timeline : Nat, opens : Nat]) /\ DOMAIN hist' = DOMAIN hist \cup {new}
      /\ new \in Nat /\ new \notin DOMAIN hist
      /\ \A b \in DOMAIN hist : Timeline(b)' = Timeline(b)
      /\ hist'[new].timeline = Timeline(Of(standby)) + 1
  <2> DEFINE e == [timeline |-> Timeline(Of(standby)) + 1, opens |-> k]
  <2>1. e \in [timeline : Nat, opens : Nat]
    BY <1>5
  <2>2. hist' = Append(hist, e)
    BY <1>1
  <2>3. new \in Nat
    BY <1>4, History
  <2> HIDE DEF e
  <2>4. /\ hist' \in Seq([timeline : Nat, opens : Nat])
        /\ DOMAIN hist' = DOMAIN hist \cup {new} /\ new \notin DOMAIN hist
        /\ \A b \in DOMAIN hist : hist'[b] = hist[b]
        /\ hist'[new] = e
    BY <1>4, <2>1, <2>2, Branching
  <2>5. e.timeline = Timeline(Of(standby)) + 1
    BY DEF e
  <2> QED
    BY <2>3, <2>4, <2>5 DEF Timeline
<1>7. /\ pg' \in [Server -> Database] /\ Of(standby)' = new /\ Of(main)' = Of(main)
      /\ pg'[standby].up /\ ~pg'[standby].recovers /\ pg'[main] = pg[main]
  <2>1. pg[standby] \in Database
    BY <1>3, <1>4
  <2>2. [pg[standby] EXCEPT !.recovers = FALSE, !.segment = k, !.branch = new] \in Database
    BY <2>1, <1>5, <1>6 DEF Database
  <2> QED
    BY <1>1, <1>2, <1>3, <1>4, <2>1, <2>2 DEF Of, Database
<1>8. Shape'
  BY <1>2, <1>3, <1>6, <1>7, <1>4 DEF Shape, Cmd
<1>9. Databases'
  <2>1. Timeline(Of(standby))' = Timeline(Of(main))' + 1
    BY <1>4, <1>6, <1>7 DEF Timeline
  <2>2. Writes(main)' /\ Writes(standby)' /\ main' \notin retired'
    BY <1>2, <1>3, <1>7 DEF Databases, Writes
  <2> QED
    BY <1>2, <1>3, <1>4, <1>7, <2>1, <2>2 DEF Databases
<1>10. Roles'
  BY <1>2, <1>3 DEF Roles
<1>11. Fences'
  BY <1>2, <1>3, <1>4, <1>6, <1>7 DEF Fences, NotAhead, Shape
<1> QED
  BY <1>8, <1>9, <1>10, <1>11

\* The fence a command writes is one on a branch of the history.
LEMMA FenceWritten ==
  ASSUME ArchiveInv, NEW s \in Server, WriteFence(s)
  PROVE  /\ UNCHANGED used \/ Fault
         /\ fence' \in [branch : Nat, calledOff : Nat] \cup {None}
         /\ fence' # None => fence'.branch \in DOMAIN hist
         /\ UNCHANGED used => fence' = FenceOn(Of(s), used.calledOff)
         /\ fence' = fence \/ fence' = FenceOn(Of(s), used.calledOff)
<1>1. /\ Of(s) \in DOMAIN hist /\ Of(s) \in Nat /\ used.calledOff \in Nat
  BY DEF ArchiveInv, Shape, Database, Counters, Of
<1>2. UNCHANGED used => ~Fault
  BY DEF Fault, ArchiveInv, Shape, Counters
<1> QED
  BY <1>1, <1>2 DEF WriteFence, Lands, NoFault, FenceOn, ArchiveInv, Shape

LEMMA FenceOffKeeps == ArchiveInv /\ FenceOff => ArchiveInv'
<1> SUFFICES ASSUME ArchiveInv, FenceOff PROVE ArchiveInv'
  OBVIOUS
<1> USE DEF ArchiveInv
<1>1. /\ cmd = "fence" /\ cmd' = "demote" /\ WriteFence(standby)
      /\ UNCHANGED <<hist, pg, main, role, retired>>
  BY DEF FenceOff, At
<1>2. Settled
  BY <1>1 DEF Settled
<1>3. used \in Counters /\ standby \in Server
  BY SettledStep, <1>2 DEF Shape
<1>4. Shape'
  BY <1>1, <1>3, FenceWritten, Counting, SettledStep, <1>2 DEF Shape, Cmd
<1>5. Databases'
  BY <1>1, SettledStep, <1>2 DEF Databases
<1>6. Roles'
  BY <1>1, <1>3, FenceWritten, Counting, SettledStep, <1>2 DEF Roles
<1>7. Fences'
  <2> SUFFICES ASSUME used'.faults = 0 PROVE NotAhead(standby)'
    BY <1>1 DEF Fences
  <2>1. fence' = FenceOn(Of(standby), used.calledOff)
    BY <1>1, <1>3, FenceWritten, Counting
  <2> QED
    BY <2>1, <1>3, SettledStep, <1>2 DEF NotAhead, FenceOn
<1> QED
  BY <1>4, <1>5, <1>6, <1>7

LEMMA DemoteKeeps == ArchiveInv /\ Demote => ArchiveInv'
<1> SUFFICES ASSUME ArchiveInv, Demote PROVE ArchiveInv'
  OBVIOUS
<1> USE DEF ArchiveInv
<1>1. /\ cmd = "demote" /\ cmd' = "swap" /\ (SetRole(main, "standby") \/ UNCHANGED role)
      /\ UNCHANGED <<hist, pg, main, retired, fence>> /\ (UNCHANGED used \/ Fault)
  BY DEF Demote, At, Lands, NoFault, store
<1>2. Settled
  BY <1>1 DEF Settled
<1>3. used \in Counters /\ standby \in Server /\ main \in Server /\ main # standby
  BY SettledStep, <1>2 DEF Shape
<1>4. role' \in [Server -> {"primary", "standby"}] /\ role'[standby] = role[standby]
  BY <1>1, <1>3, RoleSet DEF Shape
<1>5. Shape'
  BY <1>1, <1>3, <1>4, Counting, SettledStep, <1>2 DEF Shape, Cmd
<1>6. Databases'
  BY <1>1, SettledStep, <1>2 DEF Databases
<1>7. Roles'
  BY <1>1, <1>3, <1>4, SettledStep, <1>2 DEF Roles
<1>8. Fences'
  BY <1>1, <1>3, Counting, SettledStep, <1>2 DEF Fences, NotAhead, Shape
<1> QED
  BY <1>5, <1>6, <1>7, <1>8

LEMMA SwapKeeps == ArchiveInv /\ Swap => ArchiveInv'
<1> SUFFICES ASSUME ArchiveInv, Swap PROVE ArchiveInv'
  OBVIOUS
<1> USE DEF ArchiveInv
<1>1. /\ cmd = "swap" /\ cmd' = "idle" /\ main' = standby
      /\ UNCHANGED <<hist, pg, fence>> /\ (UNCHANGED used \/ Fault)
      /\ \/ retired' = retired \cup {main} /\ SetRole(main, "standby")
         \/ UNCHANGED <<retired, role>>
  BY DEF Swap, At, Lands, NoFault, Retired, store
<1>2. /\ main \in Server /\ standby \in Server /\ standby # main
      /\ standby' = main /\ used \in Counters
  BY <1>1, Others DEF standby, Shape
<1>3. \A s \in Server : Of(s)' = Of(s) /\ (Writes(s)' <=> Writes(s)) /\ Timeline(Of(s))' = Timeline(Of(s))
  BY <1>1 DEF Of, Writes, Timeline
<1>4. Timeline(Of(main)) \in Nat /\ Timeline(Of(standby)) = Timeline(Of(main)) + 1
  <2>1. hist[Of(main)] \in [timeline : Nat, opens : Nat]
    BY <1>2, History DEF Shape
  <2> QED
    BY <1>1, <2>1 DEF Databases, Timeline
<1>5. role' \in [Server -> {"primary", "standby"}] /\ role'[standby] = role[standby]
  BY <1>1, <1>2, RoleSet DEF Shape
<1>6. Shape'
  BY <1>1, <1>2, <1>3, <1>5, Counting DEF Shape, Cmd
<1>7. Databases'
  <2>1. ~pg[main].recovers /\ Writes(standby) /\ standby \notin retired'
    BY <1>1, <1>2 DEF Databases, Writes
  <2> QED
    BY <1>1, <1>2, <1>3, <1>4, <2>1 DEF Databases
<1>8. Roles'
  BY <1>1, <1>2, <1>5 DEF Roles
<1>9. Fences'
  <2>1. used'.faults = 0 => NotAhead(standby)
    BY <1>1, <1>2, Counting DEF Fences
  <2>2. NotAhead(standby) => NotAhead(main)'
    BY <1>1, <1>2, <1>3 DEF NotAhead, Timeline
  <2> QED
    BY <1>1, <2>1, <2>2 DEF Fences
<1> QED
  BY <1>6, <1>7, <1>8, <1>9

LEMMA RetireKeeps == ArchiveInv /\ Retire => ArchiveInv'
<1> SUFFICES ASSUME ArchiveInv, Retire PROVE ArchiveInv'
  OBVIOUS
<1> USE DEF ArchiveInv
<1>1. /\ cmd = "idle" /\ cmd' = "idle" /\ Writes(standby) /\ SetRole(standby, "standby")
      /\ retired' = retired \cup {standby} /\ UNCHANGED <<hist, pg, main, fence, used>>
  BY DEF Retire, Retired, store
<1>2. Settled
  BY <1>1 DEF Settled
<1>3. used \in Counters /\ standby \in Server /\ main \in Server /\ main # standby
  BY SettledStep, <1>2 DEF Shape
<1>4. role' \in [Server -> {"primary", "standby"}] /\ role'[main] = role[main]
  BY <1>1, <1>3, RoleSet DEF Shape
<1>5. Shape'
  BY <1>1, <1>3, <1>4, SettledStep, <1>2 DEF Shape, Cmd
<1>6. Databases'
  <2>1. ~pg[standby].recovers /\ main \notin retired'
    BY <1>1, <1>3 DEF Databases, Writes
  <2> QED
    BY <1>1, <2>1, SettledStep, <1>2 DEF Databases
<1>7. Roles'
  BY <1>1, <1>3, <1>4, SettledStep, <1>2 DEF Roles
<1>8. Fences'
  BY <1>1, <1>3, SettledStep, <1>2 DEF Fences, NotAhead, Shape
<1> QED
  BY <1>5, <1>6, <1>7, <1>8

LEMMA CallOffKeeps == ArchiveInv /\ CallOff => ArchiveInv'
<1> SUFFICES ASSUME ArchiveInv, CallOff PROVE ArchiveInv'
  OBVIOUS
<1> USE DEF ArchiveInv
<1>1. /\ cmd' = "disarm" /\ UNCHANGED <<hist, main, role, retired, fence>>
      /\ pg' = [pg EXCEPT ![standby].up = FALSE]
      /\ used' = [used EXCEPT !.calledOff = @ + 1]
  BY DEF CallOff, store
<1>2. /\ main \in Server /\ standby \in Server /\ standby # main /\ standby' = standby
      /\ pg \in [Server -> Database] /\ used \in Counters
  BY <1>1, Others DEF standby, Shape
<1>3. used' \in Counters
  BY <1>1, <1>2 DEF Counters
<1>4. /\ pg' \in [Server -> Database] /\ pg'[main] = pg[main] /\ ~pg'[standby].up
      /\ pg'[standby].recovers = pg[standby].recovers /\ \A s \in Server : Of(s)' = Of(s)
  BY <1>1, <1>2 DEF Database, Of
<1>5. Shape'
  BY <1>1, <1>2, <1>3, <1>4 DEF Shape, Cmd
<1>6. Databases'
  BY <1>1, <1>2, <1>4 DEF Databases, Writes
<1>7. Roles'
  BY <1>1 DEF Roles
<1>8. Fences'
  BY <1>1 DEF Fences
<1> QED
  BY <1>5, <1>6, <1>7, <1>8

LEMMA DisarmKeeps == ArchiveInv /\ Disarm => ArchiveInv'
<1> SUFFICES ASSUME ArchiveInv, Disarm PROVE ArchiveInv'
  OBVIOUS
<1> USE DEF ArchiveInv
<1>1. /\ cmd = "disarm" /\ cmd' = "rearm" /\ (SetRole(standby, "standby") \/ UNCHANGED role)
      /\ UNCHANGED <<hist, pg, main, retired, fence>> /\ (UNCHANGED used \/ Fault)
  BY DEF Disarm, At, Lands, NoFault, store
<1>2. Settled
  BY <1>1 DEF Settled
<1>3. used \in Counters /\ standby \in Server /\ main \in Server /\ main # standby
  BY SettledStep, <1>2 DEF Shape
<1>4. role' \in [Server -> {"primary", "standby"}]
  BY <1>1, <1>3, RoleSet DEF Shape
<1>5. Shape'
  BY <1>1, <1>3, <1>4, Counting, SettledStep, <1>2 DEF Shape, Cmd
<1>6. Databases'
  BY <1>1, SettledStep, <1>2 DEF Databases
<1>7. Roles'
  BY <1>1 DEF Roles
<1>8. Fences'
  BY <1>1 DEF Fences
<1> QED
  BY <1>5, <1>6, <1>7, <1>8

LEMMA RearmKeeps == ArchiveInv /\ Rearm => ArchiveInv'
<1> SUFFICES ASSUME ArchiveInv, Rearm PROVE ArchiveInv'
  OBVIOUS
<1> USE DEF ArchiveInv
<1>1. /\ cmd = "rearm" /\ UNCHANGED <<hist, pg, main, retired, fence>>
      /\ \/ cmd' = "refence" /\ SetRole(main, "primary") /\ UNCHANGED used
         \/ cmd' \in {"refence", "idle"} /\ UNCHANGED role /\ Fault
  BY DEF Rearm, At, Lands, NoFault, store
<1>2. Settled
  BY <1>1 DEF Settled
<1>3. used \in Counters /\ standby \in Server /\ main \in Server /\ main # standby
  BY SettledStep, <1>2 DEF Shape
<1>4. role' \in [Server -> {"primary", "standby"}] /\ (UNCHANGED used => role'[main] = "primary")
  <2>1. UNCHANGED used => ~Fault
    BY <1>3 DEF Fault, Counters
  <2> QED
    BY <1>1, <1>3, <2>1, RoleSet DEF Shape
<1>5. Shape'
  BY <1>1, <1>3, <1>4, Counting, SettledStep, <1>2 DEF Shape, Cmd
<1>6. Databases'
  BY <1>1, SettledStep, <1>2 DEF Databases
<1>7. Roles'
  BY <1>1, <1>3, <1>4, Counting, SettledStep, <1>2 DEF Roles
<1>8. Fences'
  <2>1. Fault => used'.faults # 0
    BY <1>3 DEF Fault, Counters
  <2> QED
    BY <1>1, <2>1 DEF Fences
<1> QED
  BY <1>5, <1>6, <1>7, <1>8

LEMMA RefenceKeeps == ArchiveInv /\ Refence => ArchiveInv'
<1> SUFFICES ASSUME ArchiveInv, Refence PROVE ArchiveInv'
  OBVIOUS
<1> USE DEF ArchiveInv
<1>1. /\ cmd = "refence" /\ cmd' = "idle" /\ WriteFence(main)
      /\ UNCHANGED <<hist, pg, main, role, retired>>
  BY DEF Refence, At
<1>2. Settled
  BY <1>1 DEF Settled
<1>3. used \in Counters /\ standby \in Server /\ main \in Server /\ main # standby
  BY SettledStep, <1>2 DEF Shape
<1>4. UNCHANGED used \/ Fault
  BY <1>1, <1>3, FenceWritten
<1>5. Shape'
  BY <1>1, <1>3, <1>4, FenceWritten, Counting, SettledStep, <1>2 DEF Shape, Cmd
<1>6. Databases'
  BY <1>1, SettledStep, <1>2 DEF Databases
<1>7. Roles'
  BY <1>1, <1>3, <1>4, Counting, SettledStep, <1>2 DEF Roles
<1>8. Fences'
  <2> SUFFICES ASSUME used'.faults = 0 PROVE NotAhead(main)'
    BY <1>1 DEF Fences
  <2>1. fence' = FenceOn(Of(main), used.calledOff)
    BY <1>1, <1>3, <1>4, FenceWritten, Counting
  <2> QED
    BY <1>1, <2>1, <1>3, SettledStep, <1>2 DEF NotAhead, FenceOn
<1> QED
  BY <1>5, <1>6, <1>7, <1>8

LEMMA DeployKeeps == ArchiveInv /\ Deploy => ArchiveInv'
<1> SUFFICES ASSUME ArchiveInv, Deploy PROVE ArchiveInv'
  OBVIOUS
<1> USE DEF ArchiveInv
<1>1. /\ cmd = "idle" /\ cmd' = "reseed" /\ role' = [s \in Server |-> RoleOf(s)]
      /\ UNCHANGED <<hist, pg, main, retired, fence, used>>
  BY DEF Deploy, At, store
<1>2. Settled
  BY <1>1 DEF Settled
<1>3. used \in Counters /\ standby \in Server /\ main \in Server /\ main # standby
  BY SettledStep, <1>2 DEF Shape
<1>4. role' \in [Server -> {"primary", "standby"}] /\ role'[main] = "primary"
  BY <1>1, <1>3 DEF RoleOf
<1>5. Shape'
  BY <1>1, <1>3, <1>4, SettledStep, <1>2 DEF Shape, Cmd
<1>6. Databases'
  BY <1>1, SettledStep, <1>2 DEF Databases
<1>7. Roles'
  BY <1>1, <1>3, <1>4, SettledStep, <1>2 DEF Roles
<1>8. Fences'
  BY <1>1, <1>3, SettledStep, <1>2 DEF Fences, NotAhead, Shape
<1> QED
  BY <1>5, <1>6, <1>7, <1>8

LEMMA ReseedKeeps == ArchiveInv /\ Reseed => ArchiveInv'
<1> SUFFICES ASSUME ArchiveInv, Reseed PROVE ArchiveInv'
  OBVIOUS
<1> USE DEF ArchiveInv
<1>1. /\ cmd = "reseed" /\ cmd' = "refence" /\ retired' = retired \ {standby}
      /\ UNCHANGED <<hist, main, role, fence, used>>
      /\ \/ pg[standby].recovers /\ Of(standby) = Of(main) /\ UNCHANGED pg
         \/ pg' = [pg EXCEPT ![standby] = [pg[main] EXCEPT !.recovers = TRUE]]
  BY DEF Reseed, At, Follows, Clear, store
<1>2. /\ main \in Server /\ standby \in Server /\ standby # main /\ standby' = standby
      /\ Server = {main, standby} /\ pg \in [Server -> Database] /\ Writes(main) /\ main \notin retired
  BY <1>1, Others DEF standby, Shape, Databases
<1>3. /\ pg' \in [Server -> Database] /\ pg'[main] = pg[main]
      /\ pg'[standby].recovers /\ Of(standby)' = Of(main) /\ Of(main)' = Of(main)
  <2> DEFINE copy == [pg[main] EXCEPT !.recovers = TRUE]
  <2>1. copy \in Database /\ copy.recovers /\ copy.branch = pg[main].branch
    <3>1. pg[main] \in Database
      BY <1>2
    <3> QED
      BY <3>1 DEF Database
  <2>2. \/ pg[standby].recovers /\ Of(standby) = Of(main) /\ pg' = pg
        \/ pg' = [pg EXCEPT ![standby] = copy]
    BY <1>1
  <2> HIDE DEF copy
  <2>3. CASE pg[standby].recovers /\ Of(standby) = Of(main) /\ pg' = pg
    BY <1>1, <1>2, <2>3 DEF Of
  <2>4. CASE pg' = [pg EXCEPT ![standby] = copy]
    <3>1. pg'[standby] = copy /\ pg'[main] = pg[main] /\ pg' \in [Server -> Database]
      BY <1>2, <2>1, <2>4
    <3> QED
      BY <1>1, <1>2, <2>1, <3>1 DEF Of
  <2> QED
    BY <2>2, <2>3, <2>4
<1>4. Shape'
  BY <1>1, <1>2, <1>3 DEF Shape, Cmd
<1>5. Databases'
  BY <1>1, <1>2, <1>3 DEF Databases, Writes
<1>6. Roles'
  BY <1>1, <1>2 DEF Roles
<1>7. Fences'
  BY <1>1 DEF Fences
<1> QED
  BY <1>4, <1>5, <1>6, <1>7

-----------------------------------------------------------------------------
(* The invariant, and what it is for.                                      *)

\* Every step keeps it.
LEMMA ArchiveStep == ArchiveInv /\ [Next]_walVars => ArchiveInv'
<1> SUFFICES ASSUME ArchiveInv, [Next]_walVars PROVE ArchiveInv'
  OBVIOUS
<1>1. CASE UNCHANGED walVars
  <2>1. Quiet
    BY <1>1 DEF Quiet, walVars, ArchiveInv, Shape, Counters
  <2> QED
    BY <2>1, QuietStep
<1>2. CASE Failover \/ Deploy \/ Retire \/ CallOff
  BY <1>2, FailoverKeeps, DeployKeeps, RetireKeeps, CallOffKeeps
<1>3. CASE Command
  BY <1>3, ArmKeeps, PromoteKeeps, FenceOffKeeps, DemoteKeeps, SwapKeeps, DisarmKeeps,
     RearmKeeps, RefenceKeeps, ReseedKeeps DEF Command
<1>4. ASSUME NEW s \in Server,
             \/ Write(s) \/ Archiver(s) \/ ArchivePastFence(s) \/ ArchiveDrop(s) \/ Backup(s)
      PROVE  ArchiveInv'
  BY <1>4, ServersQuiet, QuietStep
<1> QED
  BY <1>1, <1>2, <1>3, <1>4 DEF Next

\* The roles, the marker and the fence stay as the commands leave them, for any
\* number of failovers, faults, backups and segments.
THEOREM ArchiveInvariant == Spec => []ArchiveInv
<1>1. Init => ArchiveInv
  BY ArchiveInit
<1>2. ArchiveInv /\ [Next]_walVars => ArchiveInv'
  BY ArchiveStep
<1> QED
  BY <1>1, <1>2, PTL DEF Spec

\* Of the two servers, only the one in the project file is let push to the
\* lineage's archive: it is, if every step landed, and once the fence names it
\* the other is not, whatever was lost.
THEOREM OnePusher == Spec => []OnlyPrimaryPushes
<1>1. ArchiveInv => OnlyPrimaryPushes
  <2> SUFFICES ASSUME ArchiveInv, cmd = "idle" PROVE OnlyPrimaryPushes
    BY DEF OnlyPrimaryPushes, PrimaryMayPush, FenceKeepsOut
  <2> USE DEF ArchiveInv
  <2>1. /\ main \in Server /\ standby \in Server
        /\ hist[Of(main)] \in [timeline : Nat, opens : Nat]
        /\ hist[Of(standby)] \in [timeline : Nat, opens : Nat]
    BY Others, History DEF standby, Shape
  <2>2. PrimaryMayPush
    <3>1. used.faults = 0 => NotAhead(main)
      BY DEF Fences
    <3>2. used.faults = 0 /\ fence # None => hist[fence.branch] \in [timeline : Nat, opens : Nat]
      BY History DEF Shape
    <3>3. used.faults = 0 => ~NamesNewer(Of(main))
      BY <2>1, <3>1, <3>2 DEF NotAhead, NamesNewer, Timeline
    <3> QED
      BY <3>3 DEF PrimaryMayPush, MayPush, Databases, Roles
  <2>3. FenceKeepsOut
    <3> SUFFICES ASSUME fence = FenceOn(Of(main), used.calledOff), Writes(standby)
                 PROVE  NamesNewer(Of(standby))
      BY DEF FenceKeepsOut, MayPush
    <3>1. fence # None /\ fence.branch = Of(main)
      <4>1. Of(main) \in Nat /\ used.calledOff \in Nat
        BY <2>1 DEF Shape, Database, Counters, Of
      <4> QED
        BY <4>1, WalArchiveAssumption DEF WalArchiveAssumption, FenceOn
    <3>2. Timeline(Of(standby)) < Timeline(Of(main))
      BY DEF Databases
    <3> QED
      BY <2>1, <3>1, <3>2 DEF NamesNewer, Timeline
  <2> QED
    BY <2>2, <2>3 DEF OnlyPrimaryPushes
<1> QED
  BY <1>1, ArchiveInvariant, PTL

-----------------------------------------------------------------------------
(* What a restore finds.  The servers' own work is told by what it does to *)
(* the store: whose run, which base, which segment.                        *)

\* The server a restore is to serve: the primary, once a failover has promoted the
\* standby that one, and what the fence says when it names that server.
Promoted == cmd \in {"fence", "demote", "swap"}
lead == IF Promoted THEN standby ELSE main
Named == FenceOn(Of(lead), used.calledOff)

\* The runs and the bases that read that fence.
ReadsNamed(s) == Running(s) /\ backup[s].read = Named
Ours == {b \in bases : b.read = Named}

Fence == [branch : Nat, calledOff : Nat] \cup {None}
RunAt == {"idle", "retain", "push", "move", "keep"}
BackupRun == [at : RunAt, start : Nat, read : Fence, old : SUBSET Nat, alone : BOOLEAN,
              torn : BOOLEAN]
Base == [branch : Nat, start : Nat, read : Fence, alone : BOOLEAN, torn : BOOLEAN, nth : Nat]

\* The runs, the bases and the records keep their shape; what a server holds or has
\* on record it has written.
Before(s) == {k \in Nat : k < pg[s].segment}
StoreShape ==
  /\ backup \in [Server -> BackupRun] /\ bases \subseteq Base
  /\ \A b \in bases : b.nth < used.pushed
  /\ DOMAIN archive = Branch \X Segment
  /\ \A s \in Server : pg[s].segment <= MaxSegment
  /\ {held, gap, aside} \subseteq [Server -> SUBSET Nat]
  /\ \A s \in Server : held[s] \cup gap[s] \cup aside[s] \subseteq Before(s)

\* The history is no longer than the failovers begun, a timeline no higher.
HistoryBounds ==
  /\ used.failovers <= MaxFailovers
  /\ Len(hist) + (IF cmd \in {"arm", "promote"} THEN 1 ELSE 0) <= used.failovers + 1
  /\ \A b \in DOMAIN hist : 1 <= Timeline(b) /\ Timeline(b) <= b

\* A fence read is one that was written, on a branch there is.
Known(f) == f # None => f.branch \in DOMAIN hist /\ f.calledOff <= used.calledOff
ReadsKnown ==
  /\ Known(fence)
  /\ \A s \in Server : Running(s) => Known(backup[s].read)
  /\ \A b \in bases : Known(b.read)

\* A run has a server that takes writes, and what it takes for covered by its base,
\* or finds moved aside, comes before its start.
Earlier(s) == {k \in Nat : k < backup[s].start}
RunsServe ==
  \A s \in Server : Running(s) =>
    /\ Writes(s)
    /\ backup[s].at # "retain" =>
         backup[s].start <= pg[s].segment /\ backup[s].old \subseteq Earlier(s)
    /\ backup[s].at \in {"push", "move"} => aside[s] \subseteq Earlier(s)

\* As soon as one of them read it the store's fence is that one, its server archives,
\* and it is the server's own.
Lineage ==
  /\ Ours # {} \/ (\E s \in Server : ReadsNamed(s)) => fence = Named /\ role[lead] = "primary"
  /\ \A s \in Server : ReadsNamed(s) =>
       /\ s = lead /\ ~backup[s].torn
       /\ backup[s].alone => ~Running(Other(lead))
  /\ \A b \in Ours : b.branch = Of(lead) /\ ~b.torn /\ b.start <= pg[lead].segment
  /\ Ours # {} /\ Running(lead) => ReadsNamed(lead)

\* They start in the order they finish, each after those before.
StartsOrdered ==
  /\ \A b, c \in Ours : b.nth <= c.nth => b.start <= c.start
  /\ ReadsNamed(lead) /\ backup[lead].at # "retain" =>
       \A b \in Ours : b.start <= backup[lead].start
  /\ ReadsNamed(lead) /\ backup[lead].at \in {"move", "keep"} /\ Ours # {} =>
       \E b \in Ours : b.start = backup[lead].start

\* The segments after the last of them are accounted for, and those of a run whose
\* base is still to finish.
Covered ==
  /\ \A k \in Before(lead) :
       (\E b \in Ours : b.alone) /\ (\A b \in Ours : b.start <= k) => Accounted(lead, k)
  /\ ReadsNamed(lead) /\ backup[lead].at = "push" /\ backup[lead].alone =>
       \A k \in Before(lead) : backup[lead].start <= k => Accounted(lead, k)

StoreInv ==
  /\ StoreShape /\ HistoryBounds /\ ReadsKnown /\ RunsServe
  /\ Lineage /\ StartsOrdered /\ Covered

\* The server a restore is to serve, and the other.
LEMMA Lead ==
  ASSUME ArchiveInv
  PROVE  /\ lead \in Server /\ Other(lead) \in Server /\ Other(lead) # lead
         /\ Server = {lead, Other(lead)} /\ lead \in {main, standby}
         /\ main \in Server /\ standby \in Server /\ standby # main /\ Other(standby) = main
         /\ Writes(lead) /\ Of(lead) \in DOMAIN hist /\ Of(lead) \in Nat
         /\ Timeline(Of(lead)) \in Nat /\ pg[lead].segment \in Nat
         /\ Named \in [branch : Nat, calledOff : Nat] /\ Named # None
         /\ Named.branch = Of(lead) /\ Named.calledOff = used.calledOff
<1> USE DEF ArchiveInv
<1>1. main \in Server /\ standby \in Server /\ standby # main /\ Other(standby) = main
  BY Others DEF standby, Shape
<1>2. lead \in Server /\ lead \in {main, standby}
  BY <1>1 DEF lead
<1>3. Other(lead) \in Server /\ Other(lead) # lead /\ Server = {lead, Other(lead)}
  BY <1>2, Others
<1>4. Writes(lead)
  BY DEF lead, Promoted, Databases
<1>5. pg[lead] \in Database /\ Of(lead) \in DOMAIN hist
  BY <1>2 DEF Shape
<1>6. Of(lead) \in Nat /\ pg[lead].segment \in Nat
  BY <1>5 DEF Of, Database
<1>7. Timeline(Of(lead)) \in Nat
  <2>1. hist[Of(lead)] \in [timeline : Nat, opens : Nat]
    BY <1>5, History DEF Shape
  <2> QED
    BY <2>1 DEF Timeline
<1>8. used.calledOff \in Nat
  BY DEF Shape, Counters
<1>9. /\ Named \in [branch : Nat, calledOff : Nat]
      /\ Named.branch = Of(lead) /\ Named.calledOff = used.calledOff
  BY <1>6, <1>8 DEF Named, FenceOn
<1>10. Named # None
  BY <1>9, WalArchiveAssumption DEF WalArchiveAssumption
<1> QED
  BY <1>1, <1>2, <1>3, <1>4, <1>5, <1>6, <1>7, <1>9, <1>10

\* A healthy pair has no run, no base, and nothing to account for.
LEMMA StoreInit == Init => StoreInv
<1> SUFFICES ASSUME Init PROVE StoreInv
  OBVIOUS
<1> USE DEF Init
<1>1. ArchiveInv
  BY ArchiveInit
<1>2. \A s \in Server : ~Running(s)
  BY DEF Running, NoRun
<1>3. StoreShape
  <2>1. NoRun \in BackupRun
    BY DEF NoRun, BackupRun, RunAt, Fence
  <2>2. backup \in [Server -> BackupRun]
    BY <2>1
  <2>3. \A s \in Server : pg[s].segment = 0 /\ held[s] = {} /\ gap[s] = {} /\ aside[s] = {}
    OBVIOUS
  <2>4. MaxSegment \in Nat
    BY WalArchiveAssumption DEF WalArchiveAssumption
  <2>5. {held, gap, aside} \subseteq [Server -> SUBSET Nat]
    OBVIOUS
  <2> QED
    BY <2>2, <2>3, <2>4, <2>5 DEF StoreShape
<1>4. HistoryBounds
  <2>1. DOMAIN hist = {1} /\ Len(hist) = 1 /\ hist[1].timeline = 1
    OBVIOUS
  <2>2. MaxFailovers \in Nat
    BY WalArchiveAssumption DEF WalArchiveAssumption
  <2> QED
    BY <2>1, <2>2 DEF HistoryBounds, Timeline
<1>5. ReadsKnown
  <2>1. fence # None => fence.branch = 1 /\ fence.calledOff = 0
    BY DEF FenceOn
  <2>2. DOMAIN hist = {1} /\ used.calledOff = 0
    OBVIOUS
  <2> QED
    BY <1>2, <2>1, <2>2 DEF ReadsKnown, Known
<1>6. RunsServe
  BY <1>2 DEF RunsServe
<1>7. Ours = {} /\ \A s \in Server : ~ReadsNamed(s)
  BY <1>2 DEF Ours, ReadsNamed
<1>8. lead \in Server
  BY <1>1, Lead
<1>9. Lineage /\ StartsOrdered /\ Covered
  BY <1>7, <1>8 DEF Lineage, StartsOrdered, Covered
<1> QED
  BY <1>3, <1>4, <1>5, <1>6, <1>9 DEF StoreInv

-----------------------------------------------------------------------------
(* The commands, seen from the store.                                      *)

\* A step that moves no run, base, segment or database leaves the store in order
\* if the server to serve is the same one, the fence names it if it changed, and
\* its role stays or becomes the primary's.
StoreKept ==
  /\ UNCHANGED <<hist, pg, Archivers, archive, bases>>
  /\ used'.calledOff = used.calledOff /\ used'.pushed = used.pushed

LEMMA CommandStep ==
  ASSUME ArchiveInv, StoreInv, StoreKept, lead' = lead, HistoryBounds',
         fence' \in {fence, Named}, role'[lead] \in {role[lead], "primary"}
  PROVE  StoreInv'
<1> USE DEF StoreInv, StoreKept
<1>1. /\ UNCHANGED <<held, gap, aside, logged, backup, archive, bases>>
      /\ hist' = hist /\ pg' = pg
  BY DEF Archivers, records
<1>2. \A s \in Server : /\ Running(s)' = Running(s) /\ Writes(s)' = Writes(s)
                        /\ Of(s)' = Of(s) /\ Before(s)' = Before(s) /\ Earlier(s)' = Earlier(s)
  BY <1>1 DEF Running, Writes, Of, Before, Earlier
<1>3. lead \in Server /\ Other(lead) \in Server /\ Other(lead)' = Other(lead)
  BY Lead
<1>4. Named' = Named /\ Named.branch = Of(lead) /\ Named.calledOff = used.calledOff
      /\ Of(lead) \in DOMAIN hist /\ used.calledOff \in Nat
  BY <1>2, <1>3, Lead DEF Named, ArchiveInv, Shape, Counters
<1>5. Ours' = Ours /\ \A s \in Server : ReadsNamed(s)' = ReadsNamed(s)
  BY <1>1, <1>2, <1>4 DEF Ours, ReadsNamed
<1>6. StoreShape'
  BY <1>1, <1>2 DEF StoreShape
<1>7. ReadsKnown'
  <2>1. \A f : Known(f)' = Known(f)
    BY <1>1 DEF Known
  <2>2. Known(Named)
    BY <1>4 DEF Known
  <2> QED
    BY <1>1, <1>2, <2>1, <2>2 DEF ReadsKnown
<1>8. RunsServe'
  BY <1>1, <1>2 DEF RunsServe
<1>9. Lineage'
  BY <1>1, <1>2, <1>3, <1>4, <1>5 DEF Lineage
<1>10. StartsOrdered'
  BY <1>1, <1>2, <1>3, <1>5 DEF StartsOrdered
<1>11. Covered'
  <2>1. \A k : Accounted(lead, k)' = Accounted(lead, k)
    BY <1>1, <1>2, <1>3 DEF Accounted, Timeline
  <2> QED
    BY <1>1, <1>2, <1>3, <1>5, <2>1 DEF Covered
<1> QED
  BY <1>6, <1>7, <1>8, <1>9, <1>10, <1>11

\* A step without a run or a base that read the fence of the server to serve has
\* nothing to keep.
LEMMA NothingOurs ==
  ASSUME lead' \in Server, Ours' = {}, \A s \in Server : ~ReadsNamed(s)'
  PROVE  Lineage' /\ StartsOrdered' /\ Covered'
BY DEF Lineage, StartsOrdered, Covered

\* A command other than a promote, an abort and a reseed is such a step.
LEMMA CommandsStore ==
  ASSUME ArchiveInv, StoreInv,
         \/ Failover \/ Deploy \/ Retire \/ Arm \/ FenceOff \/ Demote \/ Swap
         \/ Disarm \/ Rearm \/ Refence
  PROVE  StoreInv'
<1>1. /\ main \in Server /\ standby \in Server /\ standby # main /\ Other(standby) = main
      /\ used \in Counters /\ role \in [Server -> {"primary", "standby"}]
  BY Lead DEF ArchiveInv, Shape
<1>2. StoreKept
  <2>1. UNCHANGED <<hist, pg, Archivers, archive, bases>>
    BY DEF Failover, Deploy, Retire, Arm, FenceOff, Demote, Swap, Disarm, Rearm, Refence, store
  <2>2. \/ UNCHANGED used
        \/ used' = [used EXCEPT !.faults = @ + 1]
        \/ used' = [used EXCEPT !.failovers = @ + 1]
    BY DEF Failover, Deploy, Retire, Arm, FenceOff, Demote, Swap, Disarm, Rearm, Refence,
       WriteFence, Lands, Fault, NoFault
  <2> QED
    BY <1>1, <2>1, <2>2 DEF StoreKept, Counters
<1>3. lead' = lead
  <2>1. CASE Swap
    BY <1>1, <2>1 DEF Swap, At, lead, Promoted, standby
  <2>2. CASE ~Swap
    <3>1. main' = main /\ standby' = standby
      BY <2>2 DEF Failover, Deploy, Retire, Arm, FenceOff, Demote, Disarm, Rearm, Refence,
         standby
    <3>2. Promoted' = Promoted
      BY <2>2 DEF Failover, Deploy, Retire, Arm, FenceOff, Demote, Disarm, Rearm, Refence,
         At, Promoted
    <3> QED
      BY <3>1, <3>2 DEF lead
  <2> QED
    BY <2>1, <2>2
<1>4. fence' \in {fence, Named}
  <2>1. CASE FenceOff
    BY <2>1 DEF FenceOff, At, WriteFence, Lands, Named, lead, Promoted
  <2>2. CASE Refence
    BY <2>2 DEF Refence, At, WriteFence, Lands, Named, lead, Promoted
  <2>3. CASE ~FenceOff /\ ~Refence
    BY <2>3 DEF Failover, Deploy, Retire, Arm, Demote, Swap, Disarm, Rearm, store
  <2> QED
    BY <2>1, <2>2, <2>3
<1>5. role'[lead] \in {role[lead], "primary"}
  <2>1. CASE Failover \/ FenceOff \/ Refence
    BY <2>1 DEF Failover, FenceOff, Refence
  <2>2. CASE Deploy
    <3>1. lead = main
      BY <2>2 DEF Deploy, At, lead, Promoted
    <3> QED
      BY <1>1, <2>2, <3>1 DEF Deploy, RoleOf
  <2>3. CASE Retire \/ Arm \/ Disarm
    <3>1. /\ lead = main
          /\ UNCHANGED role \/ \E r \in {"primary", "standby"} : SetRole(standby, r)
      BY <2>3 DEF Retire, Retired, Arm, Disarm, Lands, At, lead, Promoted
    <3> QED
      BY <1>1, <3>1 DEF SetRole
  <2>4. CASE Demote \/ Swap
    <3>1. lead = standby /\ (UNCHANGED role \/ SetRole(main, "standby"))
      BY <2>4 DEF Demote, Swap, Retired, Lands, At, lead, Promoted
    <3> QED
      BY <1>1, <3>1 DEF SetRole
  <2>5. CASE Rearm
    <3>1. lead = main /\ (UNCHANGED role \/ SetRole(main, "primary"))
      BY <2>5 DEF Rearm, Lands, At, lead, Promoted
    <3> QED
      BY <1>1, <3>1 DEF SetRole
  <2> QED
    BY <2>1, <2>2, <2>3, <2>4, <2>5
<1>6. HistoryBounds'
  <2>1. Len(hist) \in Nat /\ used.failovers \in Nat /\ hist' = hist
    BY <1>1, <1>2, History DEF ArchiveInv, Shape, Counters, StoreKept
  <2>2. \A b : Timeline(b)' = Timeline(b)
    BY <2>1 DEF Timeline
  <2>3. CASE Failover
    <3>1. /\ cmd = "idle" /\ cmd' = "arm" /\ used.failovers < MaxFailovers
          /\ used'.failovers = used.failovers + 1
      BY <1>1, <2>3 DEF Failover, At, Counters
    <3>2. MaxFailovers \in Nat
      BY WalArchiveAssumption DEF WalArchiveAssumption
    <3> QED
      BY <2>1, <2>2, <3>1, <3>2 DEF StoreInv, HistoryBounds
  <2>4. CASE ~Failover
    <3>1. used'.failovers = used.failovers
      BY <1>1, <2>4 DEF Deploy, Retire, Arm, FenceOff, Demote, Swap, Disarm, Rearm, Refence,
         WriteFence, Lands, Fault, NoFault, Counters
    <3>2. cmd' \in {"arm", "promote"} => cmd \in {"arm", "promote"}
      BY <2>4 DEF Deploy, Retire, Arm, FenceOff, Demote, Swap, Disarm, Rearm, Refence, At
    <3> QED
      BY <2>1, <2>2, <3>1, <3>2 DEF StoreInv, HistoryBounds
  <2> QED
    BY <2>3, <2>4
<1> QED
  BY <1>2, <1>3, <1>4, <1>5, <1>6, CommandStep

\* A promote opens a branch that no fence has named.
LEMMA PromoteStore ==
  ASSUME ArchiveInv, StoreInv, Promote
  PROVE  StoreInv'
<1> USE DEF StoreInv
<1> DEFINE new == Len(hist) + 1
<1>1. PICK k \in pg[standby].segment .. pg[main].segment :
        /\ hist' = Append(hist, [timeline |-> Timeline(Of(standby)) + 1, opens |-> k])
        /\ pg' = [pg EXCEPT ![standby] = [@ EXCEPT !.recovers = FALSE, !.segment = k,
                                                   !.branch = Len(hist) + 1]]
  BY DEF Promote
<1>2. /\ cmd = "promote" /\ cmd' = "fence" /\ pg[standby].up /\ pg[standby].recovers
      /\ UNCHANGED <<main, role, fence, used, held, gap, aside, logged, backup, archive, bases>>
  BY DEF Promote, At, store, Archivers, records
<1>3. /\ main \in Server /\ standby \in Server /\ standby # main /\ standby' = standby
      /\ Other(standby) = main
  BY <1>2, Lead DEF standby
<1>4. /\ hist \in Seq([timeline : Nat, opens : Nat]) /\ pg \in [Server -> Database]
      /\ Of(standby) \in DOMAIN hist /\ used \in Counters
  BY <1>3 DEF ArchiveInv, Shape
<1>5. k \in Nat /\ Timeline(Of(standby)) \in Nat /\ pg[standby].segment <= k /\ k <= MaxSegment
  <2>1. hist[Of(standby)] \in [timeline : Nat, opens : Nat]
    BY <1>4, History
  <2>2. pg[standby] \in Database /\ pg[main] \in Database /\ pg[main].segment <= MaxSegment
    BY <1>3, <1>4 DEF StoreShape
  <2>3. MaxSegment \in Nat
    BY WalArchiveAssumption DEF WalArchiveAssumption
  <2> QED
    BY <2>1, <2>2, <2>3 DEF Timeline, Database
<1>6. /\ DOMAIN hist' = DOMAIN hist \cup {new} /\ new \notin DOMAIN hist
      /\ \A b \in DOMAIN hist : Timeline(b)' = Timeline(b)
      /\ hist'[new].timeline = Timeline(Of(standby)) + 1
      /\ Len(hist) \in Nat /\ DOMAIN hist = 1 .. Len(hist) /\ Len(hist') = Len(hist) + 1
  <2> DEFINE e == [timeline |-> Timeline(Of(standby)) + 1, opens |-> k]
  <2>1. e \in [timeline : Nat, opens : Nat] /\ e.timeline = Timeline(Of(standby)) + 1
    BY <1>5
  <2>2. hist' = Append(hist, e)
    BY <1>1
  <2> HIDE DEF e
  <2>3. /\ hist' \in Seq([timeline : Nat, opens : Nat])
        /\ DOMAIN hist' = DOMAIN hist \cup {new} /\ new \notin DOMAIN hist
        /\ \A b \in DOMAIN hist : hist'[b] = hist[b]
        /\ hist'[new] = e
    BY <1>4, <2>1, <2>2, Branching
  <2>4. Len(hist) \in Nat /\ DOMAIN hist = 1 .. Len(hist) /\ Len(hist') = Len(hist) + 1
    BY <1>4, <2>1, <2>2, History, AppendProperties
  <2> QED
    BY <2>1, <2>3, <2>4 DEF Timeline
<1>7. /\ pg'[standby].up /\ ~pg'[standby].recovers /\ pg'[standby].segment = k
      /\ pg'[standby].branch = new
      /\ \A s \in Server : s # standby => pg'[s] = pg[s]
  <2>1. pg[standby] \in Database
    BY <1>3, <1>4
  <2> QED
    BY <1>1, <1>2, <1>3, <1>4, <2>1 DEF Of, Database
<1>8. \A s \in Server : Running(s)' = Running(s) /\ Earlier(s)' = Earlier(s)
  BY <1>2 DEF Running, Earlier
<1>9. ~Running(standby) /\ \A s \in Server : Running(s) => s # standby /\ Writes(s)' = Writes(s)
  <2>1. ~Writes(standby)
    BY <1>2 DEF Writes
  <2> QED
    BY <1>3, <1>7, <2>1 DEF RunsServe, Writes
<1>10. StoreShape'
  <2>1. \A s \in Server : pg'[s].segment <= MaxSegment /\ Before(s) \subseteq Before(s)'
    <3>1. \A s \in Server : pg[s].segment \in Nat
      BY <1>4 DEF Database
    <3> QED
      BY <1>3, <1>5, <1>7, <3>1 DEF StoreShape, Before
  <2> QED
    BY <1>2, <2>1 DEF StoreShape
<1>11. HistoryBounds'
  <2>1. MaxFailovers \in Nat /\ used.failovers \in Nat
    BY <1>4, WalArchiveAssumption DEF WalArchiveAssumption, Counters
  <2>2. Len(hist) + 1 <= used.failovers + 1 /\ used.failovers <= MaxFailovers
    BY <1>2 DEF HistoryBounds
  <2>3. 1 <= hist'[new].timeline /\ hist'[new].timeline <= new
    <3>1. 1 <= Timeline(Of(standby)) /\ Timeline(Of(standby)) <= Of(standby)
      BY <1>4 DEF HistoryBounds
    <3>2. Of(standby) \in 1 .. Len(hist)
      BY <1>4, <1>6
    <3> QED
      BY <1>5, <1>6, <3>1, <3>2
  <2>4. \A b \in DOMAIN hist' : 1 <= Timeline(b)' /\ Timeline(b)' <= b
    BY <1>6, <2>3 DEF HistoryBounds, Timeline
  <2> QED
    BY <1>2, <1>6, <2>1, <2>2, <2>4 DEF HistoryBounds
<1>12. ReadsKnown'
  <2>1. \A f : Known(f) => Known(f)'
    BY <1>2, <1>6 DEF Known
  <2> QED
    BY <1>2, <1>8, <2>1 DEF ReadsKnown
<1>13. RunsServe'
  BY <1>2, <1>7, <1>8, <1>9 DEF RunsServe
<1>14. Lineage' /\ StartsOrdered' /\ Covered'
  <2>1. lead' = standby
    BY <1>2, <1>3 DEF lead, Promoted
  <2>2. Named' = FenceOn(new, used.calledOff)
    BY <1>2, <1>7, <2>1 DEF Named, Of
  <2>3. new \in Nat /\ used.calledOff \in Nat
    BY <1>4, <1>6 DEF Counters
  <2>4. Named' # None /\ Named'.branch \notin DOMAIN hist
    BY <1>6, <2>2, <2>3, WalArchiveAssumption DEF FenceOn, WalArchiveAssumption
  <2>5. Ours' = {} /\ \A s \in Server : ~ReadsNamed(s)'
    BY <1>2, <1>8, <2>4 DEF Ours, ReadsNamed, ReadsKnown, Known
  <2> QED
    BY <1>3, <2>1, <2>5, NothingOurs
<1> QED
  BY <1>10, <1>11, <1>12, <1>13, <1>14

\* An abort begins an age no fence is of, and ends the standby's run.
LEMMA CallOffStore ==
  ASSUME ArchiveInv, StoreInv, CallOff
  PROVE  StoreInv'
<1> USE DEF StoreInv
<1>1. /\ cmd' = "disarm"
      /\ pg' = [pg EXCEPT ![standby].up = FALSE]
      /\ backup' = [backup EXCEPT ![standby] = NoRun]
      /\ used' = [used EXCEPT !.calledOff = @ + 1]
      /\ UNCHANGED <<hist, main, role, fence, held, gap, aside, logged, archive, bases>>
  BY DEF CallOff, store, records
<1>2. /\ main \in Server /\ standby \in Server /\ standby # main /\ standby' = standby
      /\ pg \in [Server -> Database] /\ used \in Counters /\ backup \in [Server -> BackupRun]
      /\ Of(main) \in Nat
  BY <1>1, Lead DEF standby, ArchiveInv, Shape, StoreShape, Of, Database
<1>3. /\ used.calledOff \in Nat /\ used'.calledOff = used.calledOff + 1
      /\ used'.pushed = used.pushed /\ used'.failovers = used.failovers
  BY <1>1, <1>2 DEF Counters
<1>4. NoRun \in BackupRun /\ NoRun.at = "idle"
  BY DEF NoRun, BackupRun, RunAt, Fence
<1>5. /\ backup' \in [Server -> BackupRun]
      /\ \A s \in Server : IF s = standby THEN ~Running(s)'
                          ELSE backup'[s] = backup[s] /\ Running(s)' = Running(s)
  BY <1>1, <1>2, <1>4 DEF Running
<1>6. /\ \A s \in Server : pg'[s].segment = pg[s].segment /\ Before(s)' = Before(s)
      /\ \A s \in Server : Of(s)' = Of(s)
      /\ \A s \in Server : s # standby => Writes(s)' = Writes(s)
  BY <1>1, <1>2 DEF Database, Before, Of, Writes
<1>7. StoreShape'
  BY <1>1, <1>3, <1>5, <1>6 DEF StoreShape
<1>8. HistoryBounds'
  <2>1. Len(hist) \in Nat /\ used.failovers \in Nat
    BY <1>2, History DEF Counters, ArchiveInv, Shape
  <2>2. \A b : Timeline(b)' = Timeline(b)
    BY <1>1 DEF Timeline
  <2> QED
    BY <1>1, <1>3, <2>1, <2>2 DEF HistoryBounds
<1>9. \A f \in Fence :
        Known(f) => Known(f)' /\ (f # None => f.calledOff # used'.calledOff)
  BY <1>1, <1>3 DEF Known, Fence
<1>10. /\ fence \in Fence /\ \A b \in bases : b.read \in Fence
       /\ \A s \in Server : backup[s].read \in Fence
  BY <1>2 DEF ArchiveInv, Shape, StoreShape, BackupRun, Base, Fence
<1>11. ReadsKnown'
  BY <1>1, <1>5, <1>9, <1>10 DEF ReadsKnown
<1>12. RunsServe'
  <2>1. \A s \in Server : Running(s)' => Earlier(s)' = Earlier(s) /\ aside'[s] = aside[s]
    BY <1>1, <1>5 DEF Earlier
  <2> QED
    BY <1>5, <1>6, <2>1 DEF RunsServe
<1>13. Lineage' /\ StartsOrdered' /\ Covered'
  <2>1. lead' = main
    BY <1>1 DEF lead, Promoted
  <2>2. Named' = FenceOn(Of(main), used'.calledOff)
    BY <1>2, <1>6, <2>1 DEF Named
  <2>3. Named' # None /\ Named'.calledOff = used'.calledOff
    BY <1>2, <1>3, <2>2, WalArchiveAssumption DEF FenceOn, WalArchiveAssumption
  <2>4. Ours' = {} /\ \A s \in Server : ~ReadsNamed(s)'
    BY <1>1, <1>5, <1>9, <1>10, <2>3 DEF Ours, ReadsNamed, ReadsKnown
  <2> QED
    BY <1>2, <2>1, <2>4, NothingOurs
<1> QED
  BY <1>7, <1>8, <1>11, <1>12, <1>13

\* A reseed gives the standby the primary's database and takes what it held.
LEMMA ReseedStore ==
  ASSUME ArchiveInv, StoreInv, Reseed
  PROVE  StoreInv'
<1> USE DEF StoreInv
<1>1. /\ cmd = "reseed" /\ cmd' = "refence"
      /\ UNCHANGED <<hist, main, role, fence, used, logged, archive, bases>>
  BY DEF Reseed, At, store
<1>2. /\ main \in Server /\ standby \in Server /\ standby # main /\ standby' = standby
      /\ pg \in [Server -> Database] /\ used \in Counters /\ backup \in [Server -> BackupRun]
      /\ Other(main) = standby
  BY <1>1, Lead DEF standby, ArchiveInv, Shape, StoreShape
<1>3. lead = main /\ lead' = main
  BY <1>1 DEF lead, Promoted
<1>4. HistoryBounds'
  <2>1. Len(hist) \in Nat /\ used.failovers \in Nat
    BY <1>2, History DEF Counters, ArchiveInv, Shape
  <2>2. \A b : Timeline(b)' = Timeline(b)
    BY <1>1 DEF Timeline
  <2> QED
    BY <1>1, <2>1, <2>2 DEF HistoryBounds
<1>5. CASE Follows
  <2>1. UNCHANGED <<pg, held, gap, aside, backup>>
    BY <1>5 DEF Reseed
  <2>2. StoreKept
    BY <1>1, <2>1 DEF StoreKept, Archivers, records
  <2> QED
    BY <1>1, <1>3, <1>4, <2>2, CommandStep
<1>6. CASE ~Follows
  <2>1. /\ pg' = [pg EXCEPT ![standby] = [pg[main] EXCEPT !.recovers = TRUE]]
        /\ held' = [held EXCEPT ![standby] = {}]
        /\ gap' = [gap EXCEPT ![standby] = {}] /\ aside' = [aside EXCEPT ![standby] = {}]
        /\ backup' = [backup EXCEPT ![standby] = NoRun]
    BY <1>6 DEF Reseed, Clear
  <2>2. NoRun \in BackupRun /\ NoRun.at = "idle"
    BY DEF NoRun, BackupRun, RunAt, Fence
  <2>3. {held, gap, aside} \subseteq [Server -> SUBSET Nat]
    BY DEF StoreShape
  <2>4. /\ backup' \in [Server -> BackupRun] /\ {held', gap', aside'} \subseteq [Server -> SUBSET Nat]
        /\ \A s \in Server :
             IF s = standby
             THEN ~Running(s)' /\ held'[s] = {} /\ gap'[s] = {} /\ aside'[s] = {}
             ELSE /\ backup'[s] = backup[s] /\ Running(s)' = Running(s)
                  /\ held'[s] = held[s] /\ gap'[s] = gap[s] /\ aside'[s] = aside[s]
    <3>1. held' \in [Server -> SUBSET Nat] /\ gap' \in [Server -> SUBSET Nat]
          /\ aside' \in [Server -> SUBSET Nat]
      BY <1>2, <2>1, <2>3
    <3>2. backup' \in [Server -> BackupRun]
      BY <1>2, <2>1, <2>2
    <3> QED
      BY <1>2, <2>1, <2>2, <2>3, <3>1, <3>2 DEF Running
  <2>5. \A s \in Server : IF s = standby THEN pg'[s].segment = pg[main].segment
                          ELSE pg'[s] = pg[s]
    <3>1. pg[main] \in Database
      BY <1>2
    <3> QED
      BY <1>2, <2>1, <3>1 DEF Database
  <2>6. \A s \in Server : s # standby =>
          Before(s)' = Before(s) /\ Of(s)' = Of(s) /\ Writes(s)' = Writes(s)
          /\ Earlier(s)' = Earlier(s)
    BY <2>4, <2>5 DEF Before, Of, Writes, Earlier
  <2>7. StoreShape'
    <3>1. \A s \in Server : pg'[s].segment <= MaxSegment
      BY <1>2, <2>5 DEF StoreShape
    <3>2. \A s \in Server : held'[s] \cup gap'[s] \cup aside'[s] \subseteq Before(s)'
      BY <2>4, <2>6 DEF StoreShape
    <3> QED
      BY <1>1, <2>4, <3>1, <3>2 DEF StoreShape
  <2>8. ReadsKnown'
    <3>1. \A f : Known(f)' = Known(f)
      BY <1>1 DEF Known
    <3> QED
      BY <1>1, <2>4, <3>1 DEF ReadsKnown
  <2>9. RunsServe'
    BY <2>4, <2>5, <2>6 DEF RunsServe
  <2>10. Named' = Named
    BY <1>1, <1>2, <1>3, <2>6 DEF Named
  <2>11. Ours' = Ours /\ \A s \in Server : IF s = standby THEN ~ReadsNamed(s)'
                                            ELSE ReadsNamed(s)' = ReadsNamed(s)
    BY <1>1, <2>4, <2>10 DEF Ours, ReadsNamed
  <2>12. lead \in Server /\ lead # standby /\ Other(lead) = standby
    BY <1>2, <1>3
  <2>13. Lineage'
    <3>1. Other(lead)' = Other(lead) /\ Of(lead)' = Of(lead) /\ pg'[lead] = pg[lead]
          /\ Running(lead)' = Running(lead) /\ ReadsNamed(lead)' = ReadsNamed(lead)
      BY <1>3, <2>4, <2>5, <2>6, <2>11, <2>12
    <3>2. \A s \in Server : ReadsNamed(s)' => ReadsNamed(s) /\ backup'[s] = backup[s]
      BY <2>4, <2>11
    <3>3. ~Running(Other(lead))'
      BY <1>2, <1>3, <2>4
    <3>4. ReadsNamed(lead)' = ReadsNamed(lead) /\ lead' = lead
      BY <1>3, <3>1
    <3> QED
      BY <1>1, <2>10, <2>11, <3>1, <3>2, <3>3, <3>4 DEF Lineage
  <2>14. backup'[lead] = backup[lead] /\ ReadsNamed(lead)' = ReadsNamed(lead) /\ lead' = lead
    BY <1>3, <2>4, <2>11, <2>12
  <2>15. StartsOrdered'
    BY <2>11, <2>14 DEF StartsOrdered
  <2>16. Covered'
    <3>1. \A k : Accounted(lead, k)' = Accounted(lead, k)
      BY <1>1, <1>3, <2>4, <2>6, <2>12 DEF Accounted, Timeline
    <3>2. Before(lead)' = Before(lead)
      BY <1>3, <2>6, <2>12
    <3> QED
      BY <2>11, <2>14, <3>1, <3>2 DEF Covered
  <2> QED
    BY <1>4, <2>7, <2>8, <2>9, <2>13, <2>15, <2>16
<1> QED
  BY <1>5, <1>6

-----------------------------------------------------------------------------
(* The archivers.                                                          *)

\* While the servers work, the server to serve and what names it stay.
LEMMA ServerFacts ==
  ASSUME ArchiveInv, StoreInv, Quiet
  PROVE  /\ lead' = lead /\ Other(lead)' = Other(lead) /\ Named' = Named
         /\ \A s \in Server : Of(s)' = Of(s) /\ Writes(s)' = Writes(s)
         /\ \A b : Timeline(b)' = Timeline(b)
         /\ \A f : Known(f)' = Known(f)
         /\ HistoryBounds'
<1> USE DEF Quiet
<1>1. lead' = lead /\ Other(lead)' = Other(lead) /\ lead \in Server
  BY Lead DEF lead, Promoted, standby
<1>2. \A s \in Server : Of(s)' = Of(s) /\ Writes(s)' = Writes(s)
  BY DEF Of, Writes
<1>3. Named' = Named
  BY <1>1, <1>2 DEF Named
<1>4. \A b : Timeline(b)' = Timeline(b)
  BY DEF Timeline
<1>5. \A f : Known(f)' = Known(f)
  BY DEF Known
<1>6. HistoryBounds'
  BY <1>4 DEF HistoryBounds, StoreInv
<1> QED
  BY <1>1, <1>2, <1>3, <1>4, <1>5, <1>6

\* A step that moves neither a run nor a base is to keep the account of the segments
\* of the server to serve, if there is one to give.
LEMMA SegmentStep ==
  ASSUME ArchiveInv, StoreInv, Quiet, UNCHANGED <<backup, bases>>, StoreShape',
         \A s \in Server : pg[s].segment <= pg'[s].segment, aside' = aside,
         Ours # {} \/ ReadsNamed(lead) =>
           \A k \in Before(lead)' :
             Accounted(lead, k)' \/ (k \in Before(lead) /\ ~Accounted(lead, k))
  PROVE  StoreInv'
<1> USE DEF StoreInv
<1>1. /\ lead' = lead /\ Other(lead)' = Other(lead) /\ Named' = Named /\ lead \in Server
      /\ Other(lead) \in Server
      /\ \A s \in Server : Of(s)' = Of(s) /\ Writes(s)' = Writes(s)
      /\ \A f : Known(f)' = Known(f)
  BY ServerFacts, Lead
<1>2. \A s \in Server : Running(s)' = Running(s) /\ Earlier(s)' = Earlier(s)
  BY DEF Running, Earlier
<1>3. Ours' = Ours /\ \A s \in Server : ReadsNamed(s)' = ReadsNamed(s)
  BY <1>1, <1>2 DEF Ours, ReadsNamed
<1>4. fence' = fence /\ role' = role
  BY DEF Quiet
<1>5. /\ pg \in [Server -> Database] /\ pg' \in [Server -> Database]
      /\ backup \in [Server -> BackupRun] /\ bases \subseteq Base
  BY DEF ArchiveInv, Shape, Quiet, StoreShape
<1>6. /\ \A s \in Server : /\ pg[s].segment \in Nat /\ pg'[s].segment \in Nat
                           /\ backup[s].start \in Nat
      /\ \A b \in Ours : b \in Base /\ b.start \in Nat
  BY <1>5 DEF Database, BackupRun, Base, Ours
<1>7. ReadsKnown'
  BY <1>1, <1>2, <1>4 DEF ReadsKnown
<1>8. RunsServe'
  BY <1>1, <1>2, <1>6 DEF RunsServe
<1>9. Lineage'
  <2>1. \A b \in Ours : b.start <= pg'[lead].segment
    BY <1>1, <1>6 DEF Lineage
  <2> QED
    BY <1>1, <1>2, <1>3, <1>4, <2>1 DEF Lineage
<1>10. StartsOrdered'
  BY <1>1, <1>3 DEF StartsOrdered
<1>11. Covered'
  BY <1>1, <1>3 DEF Covered
<1>12. HistoryBounds'
  BY ServerFacts
<1> QED
  BY <1>7, <1>8, <1>9, <1>10, <1>11, <1>12

\* A finished segment is one postgres holds.
LEMMA WriteStore ==
  ASSUME ArchiveInv, StoreInv, NEW s \in Server, Write(s)
  PROVE  StoreInv'
<1> USE DEF StoreInv
<1>1. Quiet
  BY ServersQuiet
<1>2. /\ pg[s].segment < MaxSegment
      /\ pg' = [pg EXCEPT ![s].segment = @ + 1]
      /\ held' = [held EXCEPT ![s] = @ \cup {pg[s].segment}]
      /\ UNCHANGED <<gap, aside, logged, backup, archive, bases, used>>
  BY DEF Write, store, records
<1>3. /\ pg \in [Server -> Database] /\ held \in [Server -> SUBSET Nat] /\ MaxSegment \in Nat
      /\ lead \in Server
  BY Lead, WalArchiveAssumption DEF ArchiveInv, Shape, StoreShape, WalArchiveAssumption
<1>4. /\ pg'[s].segment = pg[s].segment + 1 /\ held'[s] = held[s] \cup {pg[s].segment}
      /\ \A o \in Server : pg[o].segment \in Nat
      /\ \A o \in Server : o # s => pg'[o].segment = pg[o].segment /\ held'[o] = held[o]
  BY <1>2, <1>3 DEF Database
<1>5. held' \in [Server -> SUBSET Nat]
  BY <1>2, <1>3, <1>4
<1>6. StoreShape'
  <2>1. \A o \in Server : pg'[o].segment <= MaxSegment
    BY <1>2, <1>3, <1>4 DEF StoreShape
  <2>2. \A o \in Server : held'[o] \cup gap[o] \cup aside[o] \subseteq Before(o)'
    BY <1>4 DEF StoreShape, Before
  <2> QED
    BY <1>2, <1>5, <2>1, <2>2 DEF StoreShape
<1>7. \A o \in Server : pg[o].segment <= pg'[o].segment
  BY <1>4
<1>8. \A k \in Before(lead)' : Accounted(lead, k)' \/ (k \in Before(lead) /\ ~Accounted(lead, k))
  <2> SUFFICES ASSUME NEW k \in Before(lead)', k \notin Before(lead) \/ Accounted(lead, k)
               PROVE  Accounted(lead, k)'
    OBVIOUS
  <2>1. lead' = lead /\ Of(lead)' = Of(lead) /\ Timeline(Of(lead))' = Timeline(Of(lead))
    BY <1>1, <1>3, ServerFacts DEF Timeline, Quiet
  <2>2. CASE Accounted(lead, k)
    BY <1>2, <1>3, <1>4, <2>1, <2>2 DEF Accounted
  <2>3. CASE k \notin Before(lead)
    <3>1. lead = s /\ k = pg[s].segment
      BY <1>3, <1>4, <2>1, <2>3 DEF Before
    <3> QED
      BY <1>4, <2>1, <3>1 DEF Accounted
  <2> QED
    BY <2>2, <2>3
<1> QED
  BY <1>1, <1>2, <1>6, <1>7, <1>8, SegmentStep

\* A server that holds a segment has an oldest one.
LEMMA Least ==
  ASSUME NEW S, S \subseteq Nat, S # {}
  PROVE  \E x \in S : \A y \in S : x <= y
<1> DEFINE R == OpToRel(<, Nat)
<1>1. IsWellFoundedOn(R, Nat)
  BY NatLessThanWellFounded
<1>2. \A x, y \in Nat : x < y => <<x, y>> \in R
  BY DEF OpToRel
<1> HIDE DEF R
<1>3. PICK x \in S : \A y \in S : ~ (<<y, x>> \in R)
  BY <1>1, WFMin
<1>4. ASSUME NEW y \in S
      PROVE  x <= y
  <2>1. x \in Nat /\ y \in Nat
    OBVIOUS
  <2>2. ~(y < x)
    BY <1>2, <1>3, <2>1, Zenon
  <2> QED
    BY <2>1, <2>2
<1> QED
  BY <1>4

\* A segment a server has written has a name in the archive.
LEMMA Names ==
  ASSUME ArchiveInv, StoreInv, NEW s \in Server, NEW k \in Before(s)
  PROVE  <<Timeline(Of(s)), k>> \in DOMAIN archive
<1>1. /\ Of(s) \in DOMAIN hist /\ pg[s] \in Database /\ used \in Counters
      /\ hist \in Seq([timeline : Nat, opens : Nat])
  BY DEF ArchiveInv, Shape
<1>2. Timeline(Of(s)) \in Nat /\ Of(s) \in 1 .. Len(hist) /\ Len(hist) \in Nat
  <2>1. hist[Of(s)] \in [timeline : Nat, opens : Nat]
    BY <1>1, History
  <2> QED
    BY <1>1, <2>1, History DEF Timeline
<1>3. 1 <= Timeline(Of(s)) /\ Timeline(Of(s)) <= Of(s) /\ Len(hist) <= MaxFailovers + 1
  <2>1. used.failovers \in Nat /\ MaxFailovers \in Nat
    BY <1>1, WalArchiveAssumption DEF Counters, WalArchiveAssumption
  <2> QED
    BY <1>1, <1>2, <2>1 DEF StoreInv, HistoryBounds
<1>4. Timeline(Of(s)) \in Branch
  <2>1. MaxFailovers \in Nat
    BY WalArchiveAssumption DEF WalArchiveAssumption
  <2> QED
    BY <1>2, <1>3, <2>1 DEF Branch
<1>5. k \in Segment
  <2>1. MaxSegment \in Nat /\ pg[s].segment \in Nat /\ pg[s].segment <= MaxSegment
    BY <1>1, WalArchiveAssumption DEF StoreInv, StoreShape, Database, WalArchiveAssumption
  <2> QED
    BY <2>1 DEF Before, Segment
<1> QED
  BY <1>4, <1>5 DEF StoreInv, StoreShape

\* The archiver of the server to serve archives its oldest segment, records it or
\* logs it; the other's touches none of its segments.
LEMMA ArchiverStore ==
  ASSUME ArchiveInv, StoreInv, NEW s \in Server,
         Archiver(s) \/ ArchivePastFence(s) \/ ArchiveDrop(s)
  PROVE  StoreInv'
<1> USE DEF StoreInv
<1> DEFINE c == Of(s)
           n == <<Timeline(Of(s)), Oldest(s)>>
           Pushes == IF archive[n] \in {None, c}
                     THEN archive' = [archive EXCEPT ![n] = c] /\ UNCHANGED logged
                     ELSE logged' = logged \cup {<<c, Oldest(s)>>} /\ UNCHANGED archive
           Records == gap' = [gap EXCEPT ![s] = @ \cup {Oldest(s)}] /\ UNCHANGED <<logged, archive>>
           Logs == logged' = logged \cup {<<c, Oldest(s)>>} /\ UNCHANGED <<gap, archive>>
<1>1. Quiet
  BY ServersQuiet
<1>2. /\ held[s] # {} /\ held' = [held EXCEPT ![s] = @ \ {Oldest(s)}]
      /\ UNCHANGED <<pg, aside, backup, bases>>
      /\ \/ role[s] = "standby" /\ UNCHANGED <<gap, logged, archive>>
         \/ gap' = gap /\ Pushes
         \/ Records
         \/ Logs
  BY DEF Archiver, ArchiveSkip, ArchivePush, ArchivePastFence, ArchiveDrop, Push, LetGo, Calls,
     pair, records, store
<1>3. used'.pushed = used.pushed
  <2>1. UNCHANGED used \/ used' = [used EXCEPT !.faults = @ + 1]
    BY DEF Archiver, ArchiveSkip, ArchivePush, ArchivePastFence, ArchiveDrop, Fault
  <2> QED
    BY <2>1 DEF ArchiveInv, Shape, Counters
<1>4. /\ held \in [Server -> SUBSET Nat] /\ gap \in [Server -> SUBSET Nat] /\ lead \in Server
      /\ DOMAIN archive = Branch \X Segment
  BY Lead DEF StoreShape
<1>5. Oldest(s) \in held[s]
  <2>1. held[s] \subseteq Nat
    BY <1>4
  <2>2. PICK k \in held[s] : \A j \in held[s] : k <= j
    BY <1>2, <2>1, Least
  <2> QED
    BY <2>2 DEF Oldest
<1>6. Oldest(s) \in Nat /\ Oldest(s) < pg[s].segment
  BY <1>4, <1>5 DEF StoreShape, Before
<1>7. held' \in [Server -> SUBSET Nat] /\ gap' \in [Server -> SUBSET Nat]
      /\ \A o \in Server : /\ held'[o] \subseteq held[o] /\ gap[o] \subseteq gap'[o]
                          /\ gap'[o] \subseteq gap[o] \cup Before(o)
                          /\ \A k \in held[o] : k \in held'[o] \/ (o = s /\ k = Oldest(s))
  <2>1. \A o \in Server : held'[o] = IF o = s THEN held[o] \ {Oldest(s)} ELSE held[o]
    BY <1>2, <1>4
  <2>2. held' \in [Server -> SUBSET Nat]
    BY <1>2, <1>4, <2>1
  <2>3. gap' = gap \/ gap' = [gap EXCEPT ![s] = @ \cup {Oldest(s)}]
    BY <1>2
  <2>4. gap' \in [Server -> SUBSET Nat]
    BY <1>4, <1>6, <2>3
  <2>5. \A o \in Server : gap'[o] = gap[o] \/ (o = s /\ gap'[o] = gap[o] \cup {Oldest(s)})
    BY <1>4, <2>3
  <2> QED
    BY <1>6, <2>1, <2>2, <2>4, <2>5 DEF Before
<1>8. DOMAIN archive' = DOMAIN archive
  BY <1>2
<1>9. StoreShape'
  <2>1. \A o \in Server : Before(o)' = Before(o)
    BY <1>2 DEF Before
  <2>2. \A o \in Server : held'[o] \cup gap'[o] \cup aside'[o] \subseteq Before(o)'
    BY <1>2, <1>7, <2>1 DEF StoreShape
  <2> QED
    BY <1>2, <1>3, <1>4, <1>7, <1>8, <2>2 DEF StoreShape
<1>10. \A o \in Server : pg[o].segment <= pg'[o].segment
  <2>1. \A o \in Server : pg[o].segment \in Nat
    BY DEF ArchiveInv, Shape, Database
  <2> QED
    BY <1>2, <2>1
<1>11. ASSUME Ours # {} \/ ReadsNamed(lead)
       PROVE  \A k \in Before(lead)' :
                Accounted(lead, k)' \/ (k \in Before(lead) /\ ~Accounted(lead, k))
  <2> SUFFICES ASSUME NEW k \in Before(lead), Accounted(lead, k)
               PROVE  Accounted(lead, k)'
    BY <1>1, <1>2, <1>4, ServerFacts DEF Before
  <2>1. role[lead] = "primary"
    BY <1>4, <1>11 DEF Lineage
  <2>2. lead' = lead /\ Of(lead)' = Of(lead) /\ Timeline(Of(lead))' = Timeline(Of(lead))
    BY <1>1, <1>4, ServerFacts DEF Timeline, Quiet
  <2>3. logged \subseteq logged'
    BY <1>2
  <2>4. CASE archive[<<Timeline(Of(lead)), k>>] = Of(lead)
    <3>1. archive'[<<Timeline(Of(lead)), k>>] = Of(lead)
      <4>1. CASE archive' = archive
        BY <2>4, <4>1
      <4>2. CASE archive[n] \in {None, c} /\ archive' = [archive EXCEPT ![n] = c]
        <5>1. <<Timeline(Of(lead)), k>> \in DOMAIN archive
          BY <1>4, Names
        <5>2. Of(lead) # None
          BY Lead, WalArchiveAssumption DEF WalArchiveAssumption
        <5> QED
          BY <2>4, <4>2, <5>1, <5>2
      <4> QED
        BY <1>2, <4>1, <4>2
    <3> QED
      BY <2>2, <3>1 DEF Accounted
  <2>5. CASE <<Of(lead), k>> \in logged
    BY <2>2, <2>3, <2>5 DEF Accounted
  <2>6. CASE k \in gap[lead] \cup aside[lead]
    BY <1>2, <1>4, <1>7, <2>2, <2>6 DEF Accounted
  <2>7. CASE k \in held[lead] /\ ~(lead = s /\ k = Oldest(s))
    BY <1>4, <1>7, <2>2, <2>7 DEF Accounted
  <2>8. CASE lead = s /\ k = Oldest(s)
    <3>1. CASE archive[n] \in {None, c} /\ archive' = [archive EXCEPT ![n] = c]
      <4>1. n \in DOMAIN archive
        BY <1>4, <2>8, Names
      <4> QED
        BY <2>2, <2>8, <3>1, <4>1 DEF Accounted
    <3>2. CASE logged' = logged \cup {<<c, Oldest(s)>>}
      BY <2>2, <2>8, <3>2 DEF Accounted
    <3>3. CASE Records
      <4>1. Oldest(s) \in gap'[s]
        BY <1>4, <3>3
      <4> QED
        BY <2>2, <2>8, <4>1 DEF Accounted
    <3> QED
      BY <1>2, <2>1, <2>8, <3>1, <3>2, <3>3
  <2> QED
    BY <2>4, <2>5, <2>6, <2>7, <2>8 DEF Accounted
<1> QED
  BY <1>1, <1>2, <1>9, <1>10, <1>11, SegmentStep

-----------------------------------------------------------------------------
(* The base-backup runs.                                                   *)

\* The run of one server put in another state.
LEMMA RunPut ==
  ASSUME ArchiveInv, StoreInv, Quiet, NEW s \in Server, NEW r \in BackupRun,
         backup' = [backup EXCEPT ![s] = r]
  PROVE  /\ backup' \in [Server -> BackupRun] /\ backup'[s] = r
         /\ Running(s)' = (r.at # "idle")
         /\ \A o \in Server : o # s => /\ backup'[o] = backup[o] /\ Running(o)' = Running(o)
                                       /\ Earlier(o)' = Earlier(o)
                                       /\ ReadsNamed(o)' = ReadsNamed(o)
<1>1. backup \in [Server -> BackupRun]
  BY DEF StoreInv, StoreShape
<1>2. Named' = Named
  BY ServerFacts
<1> QED
  BY <1>1, <1>2 DEF Running, Earlier, ReadsNamed

\* Runs that only go on or end, and bases that only go, leave the lineage one.
LEMMA RunsGoOn ==
  ASSUME ArchiveInv, StoreInv, Quiet, pg' = pg, bases' \subseteq bases,
         \A o \in Server : Running(o)' =>
           /\ Running(o) /\ backup'[o].read = backup[o].read /\ backup'[o].alone = backup[o].alone
           /\ ReadsNamed(o) => backup'[o].torn = backup[o].torn
  PROVE  /\ ReadsKnown' /\ Lineage' /\ Ours' \subseteq Ours
         /\ \A o \in Server : ReadsNamed(o)' => ReadsNamed(o)
<1> USE DEF StoreInv
<1>1. /\ lead' = lead /\ Other(lead)' = Other(lead) /\ Named' = Named /\ lead \in Server
      /\ Other(lead) \in Server /\ fence' = fence /\ role' = role
      /\ \A s \in Server : Of(s)' = Of(s) /\ Writes(s)' = Writes(s)
      /\ \A f : Known(f)' = Known(f)
  BY ServerFacts, Lead DEF Quiet
<1>2. Ours' \subseteq Ours /\ \A o \in Server : ReadsNamed(o)' => ReadsNamed(o)
  BY <1>1 DEF Ours, ReadsNamed
<1>3. ReadsKnown'
  BY <1>1 DEF ReadsKnown
<1>4. Lineage'
  <2>1. (Ours # {} \/ \E o \in Server : ReadsNamed(o))' => fence' = Named' /\ role'[lead'] = "primary"
    BY <1>1, <1>2 DEF Lineage
  <2>2. \A o \in Server : ReadsNamed(o)' => /\ o = lead' /\ ~backup'[o].torn
                                            /\ backup'[o].alone => ~Running(Other(lead))'
    <3> SUFFICES ASSUME NEW o \in Server, ReadsNamed(o)'
                 PROVE  /\ o = lead' /\ ~backup'[o].torn
                        /\ backup'[o].alone => ~Running(Other(lead))'
      OBVIOUS
    <3>1. Running(o)' /\ ReadsNamed(o)
      BY <1>2 DEF ReadsNamed
    <3>2. Running(Other(lead))' => Running(Other(lead))
      BY <1>1
    <3> QED
      BY <1>1, <3>1, <3>2 DEF Lineage
  <2>3. \A b \in Ours' : b.branch = Of(lead)' /\ ~b.torn /\ b.start <= pg'[lead'].segment
    BY <1>1, <1>2 DEF Lineage
  <2>4. Ours' # {} /\ Running(lead)' => ReadsNamed(lead)'
    <3> SUFFICES ASSUME Ours' # {}, Running(lead)' PROVE ReadsNamed(lead)'
      OBVIOUS
    <3>1. Running(lead) /\ backup'[lead].read = backup[lead].read
      BY <1>1
    <3>2. ReadsNamed(lead)
      BY <1>2, <3>1 DEF Lineage
    <3> QED
      BY <1>1, <3>1, <3>2 DEF ReadsNamed
  <2> QED
    BY <1>1, <2>1, <2>2, <2>3, <2>4 DEF Lineage
<1> QED
  BY <1>2, <1>3, <1>4

\* Where the fence names the server to serve, the other may not begin a run.
LEMMA LeadStarts ==
  ASSUME ArchiveInv, NEW s \in Server, BackupStart(s), fence = Named
  PROVE  s = lead
<1> SUFFICES ASSUME s # lead PROVE FALSE
  OBVIOUS
<1>1. /\ Writes(s) /\ s \notin retired /\ role[s] = "primary" /\ ~NamesNewer(Of(s))
  BY DEF BackupStart
<1>2. s = Other(lead) /\ fence # None /\ fence.branch = Of(lead)
  BY Lead
<1>3. ~(Timeline(Of(s)) < Timeline(Of(lead)))
  <2>1. /\ hist[Of(s)] \in [timeline : Nat, opens : Nat]
        /\ hist[Of(lead)] \in [timeline : Nat, opens : Nat]
    BY Lead, History DEF ArchiveInv, Shape
  <2> QED
    BY <1>1, <1>2, <2>1 DEF NamesNewer, Timeline
<1>4. CASE Promoted
  <2>1. lead = standby /\ s = main
    BY <1>2, <1>4, Lead DEF lead
  <2>2. Timeline(Of(standby)) = Timeline(Of(main)) + 1
    BY <1>4 DEF Promoted, ArchiveInv, Databases
  <2>3. Timeline(Of(main)) \in Nat
    <3>1. hist[Of(main)] \in [timeline : Nat, opens : Nat]
      BY Lead, History DEF ArchiveInv, Shape
    <3> QED
      BY <3>1 DEF Timeline
  <2> QED
    BY <1>3, <2>1, <2>2, <2>3
<1>5. CASE ~Promoted
  <2>1. lead = main /\ s = standby
    BY <1>2, <1>5 DEF lead, standby
  <2>2. cmd \in {"idle", "reseed"}
    BY <1>1, <1>5, <2>1 DEF Promoted, ArchiveInv, Shape, Cmd, Databases, Writes
  <2> QED
    BY <1>1, <1>3, <2>1, <2>2 DEF ArchiveInv, Databases
<1> QED
  BY <1>4, <1>5

LEMMA BackupStartStore ==
  ASSUME ArchiveInv, StoreInv, NEW s \in Server, BackupStart(s)
  PROVE  StoreInv'
<1> USE DEF StoreInv
<1> DEFINE r == [NoRun EXCEPT !.at = "retain", !.read = fence, !.alone = ~Running(Other(s))]
<1>1. Quiet
  BY ServersQuiet DEF Backup
<1>2. /\ backup' = [backup EXCEPT ![s] = r] /\ Writes(s) /\ role[s] = "primary" /\ ~Running(s)
      /\ UNCHANGED <<pg, held, gap, aside, logged, archive, bases>>
      /\ used' = [used EXCEPT !.backups = @ + 1]
  BY DEF BackupStart, Step, pair, records, store
<1>3. /\ r \in BackupRun /\ r.at = "retain" /\ r.read = fence /\ r.alone = ~Running(Other(s))
      /\ ~r.torn
  <2>1. fence \in Fence /\ Running(Other(s)) \in BOOLEAN
    BY DEF ArchiveInv, Shape, Fence, Running
  <2> QED
    BY <2>1 DEF NoRun, BackupRun, RunAt
<1> HIDE DEF r
<1>4. /\ backup' \in [Server -> BackupRun] /\ backup'[s] = r /\ Running(s)'
      /\ \A o \in Server : o # s => /\ backup'[o] = backup[o] /\ Running(o)' = Running(o)
                                    /\ Earlier(o)' = Earlier(o)
                                    /\ ReadsNamed(o)' = ReadsNamed(o)
  BY <1>1, <1>2, <1>3, RunPut
<1>5. /\ lead' = lead /\ Other(lead)' = Other(lead) /\ Named' = Named /\ lead \in Server
      /\ Other(lead) \in Server /\ Other(lead) # lead /\ fence' = fence /\ role' = role
      /\ \A o \in Server : Of(o)' = Of(o) /\ Writes(o)' = Writes(o)
      /\ \A f : Known(f)' = Known(f)
  BY <1>1, ServerFacts, Lead DEF Quiet
<1>6. Ours' = Ours /\ ReadsNamed(s)' = (fence = Named)
  BY <1>2, <1>3, <1>4, <1>5 DEF Ours, ReadsNamed
<1>7. fence = Named => s = lead
  BY LeadStarts
<1>8. StoreShape'
  <2>1. \A o \in Server : Before(o)' = Before(o)
    BY <1>2 DEF Before
  <2>2. used'.pushed = used.pushed
    BY <1>2 DEF ArchiveInv, Shape, Counters
  <2> QED
    BY <1>2, <1>4, <2>1, <2>2 DEF StoreShape
<1>9. ReadsKnown'
  BY <1>2, <1>3, <1>4, <1>5 DEF ReadsKnown
<1>10. RunsServe'
  BY <1>2, <1>3, <1>4, <1>5 DEF RunsServe
<1>11. Lineage'
  <2>1. (Ours # {} \/ \E o \in Server : ReadsNamed(o))' => fence = Named /\ role[lead] = "primary"
    <3>1. CASE fence = Named
      BY <1>2, <1>7, <3>1
    <3>2. CASE fence # Named
      BY <1>4, <1>6, <3>2 DEF Lineage
    <3> QED
      BY <3>1, <3>2
  <2>2. ASSUME NEW o \in Server, ReadsNamed(o)'
        PROVE  /\ o = lead /\ ~backup'[o].torn
               /\ backup'[o].alone => ~Running(Other(lead))'
    <3>1. fence = Named /\ s = lead
      BY <1>7, <2>1, <2>2
    <3>2. o = s
      BY <1>4, <2>2, <3>1 DEF Lineage
    <3>3. Running(Other(lead))' = Running(Other(lead))
      BY <1>4, <1>5, <3>1
    <3> QED
      BY <1>3, <1>4, <3>1, <3>2, <3>3
  <2>3. \A b \in Ours' : b.branch = Of(lead) /\ ~b.torn /\ b.start <= pg[lead].segment
    BY <1>6 DEF Lineage
  <2>4. Ours' # {} /\ Running(lead)' => ReadsNamed(lead)'
    <3>1. Ours' # {} => fence = Named
      BY <1>6 DEF Lineage
    <3> QED
      BY <1>4, <1>5, <1>6, <1>7, <3>1
  <2> QED
    BY <1>2, <1>5, <2>1, <2>2, <2>3, <2>4 DEF Lineage
<1>12. /\ ReadsNamed(lead)' /\ backup'[lead].at # "retain" =>
             ReadsNamed(lead) /\ backup'[lead] = backup[lead]
  BY <1>3, <1>4, <1>5
<1>13. StartsOrdered'
  BY <1>5, <1>6, <1>12 DEF StartsOrdered
<1>14. Covered'
  <2>1. \A k : Accounted(lead, k)' = Accounted(lead, k)
    BY <1>1, <1>2, <1>5, ServerFacts DEF Accounted, Timeline, Quiet
  <2>2. Before(lead)' = Before(lead)
    BY <1>2, <1>5 DEF Before
  <2> QED
    BY <1>5, <1>6, <1>12, <2>1, <2>2 DEF Covered
<1>15. HistoryBounds'
  BY <1>1, ServerFacts
<1> QED
  BY <1>8, <1>9, <1>10, <1>11, <1>13, <1>14, <1>15

LEMMA BackupDiesStore ==
  ASSUME ArchiveInv, StoreInv, NEW s \in Server, BackupDies(s)
  PROVE  StoreInv'
<1> USE DEF StoreInv
<1>1. Quiet
  BY ServersQuiet DEF Backup
<1>2. /\ backup' = [backup EXCEPT ![s] = NoRun]
      /\ UNCHANGED <<pg, held, gap, aside, logged, archive, bases>>
      /\ used' = [used EXCEPT !.faults = @ + 1]
  BY DEF BackupDies, Step, pair, records, store, Fault
<1>3. NoRun \in BackupRun /\ NoRun.at = "idle"
  BY DEF NoRun, BackupRun, RunAt, Fence
<1>4. /\ backup' \in [Server -> BackupRun] /\ ~Running(s)'
      /\ \A o \in Server : o # s => /\ backup'[o] = backup[o] /\ Running(o)' = Running(o)
                                    /\ Earlier(o)' = Earlier(o)
                                    /\ ReadsNamed(o)' = ReadsNamed(o)
  BY <1>1, <1>2, <1>3, RunPut
<1>5. /\ lead' = lead /\ Named' = Named /\ lead \in Server
      /\ \A o \in Server : Of(o)' = Of(o) /\ Writes(o)' = Writes(o)
  BY <1>1, ServerFacts, Lead
<1>6. ReadsKnown' /\ Lineage' /\ \A o \in Server : ReadsNamed(o)' => ReadsNamed(o)
  BY <1>1, <1>2, <1>4, RunsGoOn
<1>7. Ours' = Ours
  BY <1>2, <1>5 DEF Ours
<1>8. StoreShape'
  <2>1. \A o \in Server : Before(o)' = Before(o)
    BY <1>2 DEF Before
  <2>2. used'.pushed = used.pushed
    BY <1>2 DEF ArchiveInv, Shape, Counters
  <2> QED
    BY <1>2, <1>4, <2>1, <2>2 DEF StoreShape
<1>9. RunsServe'
  BY <1>2, <1>4, <1>5 DEF RunsServe
<1>10. ReadsNamed(lead)' => ReadsNamed(lead) /\ backup'[lead] = backup[lead]
  BY <1>4, <1>5, <1>6 DEF ReadsNamed
<1>11. StartsOrdered'
  BY <1>5, <1>7, <1>10 DEF StartsOrdered
<1>12. Covered'
  <2>1. \A k : Accounted(lead, k)' = Accounted(lead, k)
    BY <1>1, <1>2, <1>5, ServerFacts DEF Accounted, Timeline, Quiet
  <2>2. Before(lead)' = Before(lead)
    BY <1>2, <1>5 DEF Before
  <2> QED
    BY <1>5, <1>7, <1>10, <2>1, <2>2 DEF Covered
<1>13. HistoryBounds'
  BY <1>1, ServerFacts
<1> QED
  BY <1>6, <1>8, <1>9, <1>11, <1>12, <1>13

\* What the gap record loses is behind the run's start, so behind its base.
LEMMA GapStep ==
  ASSUME ArchiveInv, StoreInv, Quiet, NEW s \in Server,
         backup[s].at \in {"move", "keep"},
         NEW r \in BackupRun, backup' = [backup EXCEPT ![s] = r],
         r.at # "idle" => /\ r.at = "keep" /\ r.start = backup[s].start
                          /\ r.read = backup[s].read /\ r.old = backup[s].old
                          /\ r.alone = backup[s].alone /\ r.torn = backup[s].torn,
         UNCHANGED <<pg, held, logged, archive, bases, used>>,
         {gap', aside'} \subseteq [Server -> SUBSET Nat],
         \A o \in Server : o # s => gap'[o] = gap[o] /\ aside'[o] = aside[o],
         gap'[s] \cup aside'[s] \subseteq gap[s] \cup aside[s],
         \A k \in gap[s] \cup aside[s] :
           k \in gap'[s] \cup aside'[s] \/ k \in Earlier(s)
  PROVE  StoreInv'
<1> USE DEF StoreInv
<1>1. /\ backup' \in [Server -> BackupRun] /\ backup'[s] = r /\ Running(s)' = (r.at # "idle")
      /\ \A o \in Server : o # s => /\ backup'[o] = backup[o] /\ Running(o)' = Running(o)
                                    /\ Earlier(o)' = Earlier(o)
                                    /\ ReadsNamed(o)' = ReadsNamed(o)
  BY RunPut
<1>2. /\ lead' = lead /\ Named' = Named /\ lead \in Server
      /\ \A o \in Server : Of(o)' = Of(o) /\ Writes(o)' = Writes(o)
  BY ServerFacts, Lead
<1>3. Running(s)
  BY DEF Running
<1>4. ReadsKnown' /\ Lineage' /\ \A o \in Server : ReadsNamed(o)' => ReadsNamed(o)
  BY <1>1, <1>3, RunsGoOn
<1>5. Ours' = Ours
  BY <1>2 DEF Ours
<1>6. \A o \in Server : Before(o)' = Before(o)
  BY DEF Before
<1>7. StoreShape'
  BY <1>1, <1>6 DEF StoreShape
<1>8. RunsServe'
  <2>1. ASSUME Running(s)'
        PROVE  /\ Writes(s) /\ backup'[s].start <= pg[s].segment
               /\ backup'[s].old \subseteq Earlier(s)' /\ backup'[s].at = "keep"
    <3>1. Earlier(s)' = Earlier(s)
      BY <1>1, <2>1 DEF Earlier
    <3> QED
      BY <1>1, <1>3, <2>1, <3>1 DEF RunsServe
  <2>2. ASSUME NEW o \in Server, o # s, Running(o)'
        PROVE  /\ Writes(o)'
               /\ backup'[o].at # "retain" =>
                    backup'[o].start <= pg'[o].segment /\ backup'[o].old \subseteq Earlier(o)'
               /\ backup'[o].at \in {"push", "move"} => aside'[o] \subseteq Earlier(o)'
    BY <1>1, <1>2, <2>2 DEF RunsServe
  <2> QED
    BY <1>2, <2>1, <2>2 DEF RunsServe
<1>9. StartsOrdered'
  <2>1. CASE lead = s
    <3>1. ReadsNamed(lead)' => ReadsNamed(lead) /\ backup'[lead].start = backup[lead].start
      BY <1>1, <1>2, <1>4, <2>1 DEF ReadsNamed
    <3> QED
      BY <1>2, <1>5, <2>1, <3>1 DEF StartsOrdered
  <2>2. CASE lead # s
    BY <1>1, <1>2, <1>5, <2>2 DEF StartsOrdered
  <2> QED
    BY <2>1, <2>2
<1>10. Covered'
  <2>1. Timeline(Of(lead))' = Timeline(Of(lead)) /\ Of(lead)' = Of(lead) /\ Before(lead)' = Before(lead)
    BY <1>2, <1>6 DEF Timeline, Quiet
  <2>2. CASE lead # s
    <3>1. \A k : Accounted(lead, k)' = Accounted(lead, k)
      BY <1>2, <2>1, <2>2 DEF Accounted
    <3> QED
      BY <1>1, <1>2, <1>5, <2>1, <2>2, <3>1 DEF Covered
  <2>3. CASE lead = s
    <3>1. ~(ReadsNamed(lead)' /\ backup'[lead].at = "push")
      BY <1>1, <1>2, <2>3 DEF ReadsNamed, Running
    <3>2. ASSUME NEW k \in Before(lead), Ours # {}, \A b \in Ours : b.start <= k, Accounted(lead, k)
          PROVE  Accounted(lead, k)'
      <4>1. PICK b \in Ours : b.start = backup[s].start
        BY <1>2, <1>3, <2>3, <3>2 DEF Lineage, StartsOrdered
      <4>2. k \notin Earlier(s)
        <5>1. backup[s].start \in Nat
          BY DEF StoreShape, BackupRun
        <5> QED
          BY <3>2, <4>1, <5>1 DEF Earlier, Before
      <4> QED
        BY <1>2, <2>1, <2>3, <3>2, <4>2 DEF Accounted
    <3> QED
      BY <1>2, <1>5, <2>1, <3>1, <3>2 DEF Covered
  <2> QED
    BY <2>2, <2>3
<1>11. HistoryBounds'
  BY ServerFacts
<1> QED
  BY <1>4, <1>7, <1>8, <1>9, <1>10, <1>11

LEMMA GapMoveStore ==
  ASSUME ArchiveInv, StoreInv, NEW s \in Server, GapMove(s)
  PROVE  StoreInv'
<1> USE DEF StoreInv
<1> DEFINE r == [backup[s] EXCEPT !.at = "keep"]
<1>1. Quiet
  BY ServersQuiet DEF Backup
<1>2. /\ backup[s].at = "move" /\ backup' = [backup EXCEPT ![s] = r]
      /\ aside' = IF gap[s] = {} THEN aside ELSE [aside EXCEPT ![s] = gap[s]]
      /\ gap' = [gap EXCEPT ![s] = {}]
      /\ UNCHANGED <<pg, held, logged, archive, bases, used>>
  BY DEF GapMove, Step, pair, store
<1>3. /\ backup[s] \in BackupRun /\ gap \in [Server -> SUBSET Nat] /\ aside \in [Server -> SUBSET Nat]
  BY DEF StoreShape
<1>4. /\ r \in BackupRun /\ r.at = "keep" /\ r.start = backup[s].start
      /\ r.read = backup[s].read /\ r.old = backup[s].old
      /\ r.alone = backup[s].alone /\ r.torn = backup[s].torn
  BY <1>3 DEF BackupRun, RunAt
<1> HIDE DEF r
<1>5. /\ gap' \in [Server -> SUBSET Nat] /\ aside' \in [Server -> SUBSET Nat]
      /\ gap'[s] = {} /\ aside'[s] = IF gap[s] = {} THEN aside[s] ELSE gap[s]
      /\ \A o \in Server : o # s => gap'[o] = gap[o] /\ aside'[o] = aside[o]
  BY <1>2, <1>3
<1>6. aside[s] \subseteq Earlier(s)
  BY <1>2 DEF RunsServe, Running
<1> QED
  BY <1>1, <1>2, <1>4, <1>5, <1>6, GapStep

LEMMA GapKeepStore ==
  ASSUME ArchiveInv, StoreInv, NEW s \in Server, GapKeep(s)
  PROVE  StoreInv'
<1> USE DEF StoreInv
<1>1. Quiet
  BY ServersQuiet DEF Backup
<1>2. /\ backup[s].at = "keep" /\ backup' = [backup EXCEPT ![s] = NoRun]
      /\ gap' = [gap EXCEPT ![s] = @ \cup (aside[s] \ backup[s].old)]
      /\ aside' = [aside EXCEPT ![s] = {}]
      /\ UNCHANGED <<pg, held, logged, archive, bases, used>>
  BY DEF GapKeep, Step, pair, store
<1>3. /\ backup[s] \in BackupRun /\ gap \in [Server -> SUBSET Nat] /\ aside \in [Server -> SUBSET Nat]
  BY DEF StoreShape
<1>4. NoRun \in BackupRun /\ NoRun.at = "idle"
  BY DEF NoRun, BackupRun, RunAt, Fence
<1>5. /\ gap' \in [Server -> SUBSET Nat] /\ aside' \in [Server -> SUBSET Nat]
      /\ gap'[s] = gap[s] \cup (aside[s] \ backup[s].old) /\ aside'[s] = {}
      /\ \A o \in Server : o # s => gap'[o] = gap[o] /\ aside'[o] = aside[o]
  BY <1>2, <1>3
<1>6. backup[s].old \subseteq Earlier(s)
  BY <1>2 DEF RunsServe, Running
<1> QED
  BY <1>1, <1>2, <1>4, <1>5, <1>6, GapStep

\* A run of the server to serve brings its own base, from which on it answered for
\* every segment.
LEMMA BackupPushedStore ==
  ASSUME ArchiveInv, StoreInv, NEW s \in Server, BackupPushed(s)
  PROVE  StoreInv'
<1> USE DEF StoreInv
<1> DEFINE b0 == [branch |-> Of(s), start |-> backup[s].start, read |-> backup[s].read,
                  alone |-> backup[s].alone, torn |-> backup[s].torn, nth |-> used.pushed]
           r == IF gap[s] \cup aside[s] = {} THEN NoRun ELSE [backup[s] EXCEPT !.at = "move"]
<1>1. Quiet
  BY ServersQuiet DEF Backup
<1>2. /\ backup[s].at = "push" /\ bases' = bases \cup {b0}
      /\ used' = [used EXCEPT !.pushed = @ + 1]
      /\ backup' = [backup EXCEPT ![s] = r]
      /\ UNCHANGED <<pg, held, gap, aside, logged, archive>>
  BY DEF BackupPushed, Step, pair, records
<1>3. /\ backup[s] \in BackupRun /\ used.pushed \in Nat /\ used'.pushed = used.pushed + 1
      /\ pg[s] \in Database /\ Running(s)
  BY <1>2 DEF StoreShape, ArchiveInv, Shape, Counters, Running
<1>4. /\ b0 \in Base /\ b0.branch = Of(s) /\ b0.start = backup[s].start
      /\ b0.read = backup[s].read /\ b0.alone = backup[s].alone /\ b0.torn = backup[s].torn
      /\ b0.nth = used.pushed
  BY <1>3 DEF Base, BackupRun, Database, Of
<1>5. /\ r \in BackupRun /\ r.at \in {"idle", "move"}
      /\ r.at # "idle" => /\ r.start = backup[s].start /\ r.read = backup[s].read
                          /\ r.old = backup[s].old /\ r.alone = backup[s].alone
                          /\ r.torn = backup[s].torn
  <2>1. NoRun \in BackupRun /\ NoRun.at = "idle"
    BY DEF NoRun, BackupRun, RunAt, Fence
  <2> QED
    BY <1>3, <2>1 DEF BackupRun, RunAt
<1> HIDE DEF b0, r
<1>6. /\ backup' \in [Server -> BackupRun] /\ backup'[s] = r /\ Running(s)' = (r.at # "idle")
      /\ \A o \in Server : o # s => /\ backup'[o] = backup[o] /\ Running(o)' = Running(o)
                                    /\ Earlier(o)' = Earlier(o)
                                    /\ ReadsNamed(o)' = ReadsNamed(o)
  BY <1>1, <1>2, <1>5, RunPut
<1>7. /\ lead' = lead /\ Other(lead)' = Other(lead) /\ Named' = Named /\ lead \in Server
      /\ Other(lead) \in Server /\ fence' = fence /\ role' = role
      /\ \A o \in Server : Of(o)' = Of(o) /\ Writes(o)' = Writes(o)
      /\ \A f : Known(f)' = Known(f)
  BY <1>1, ServerFacts, Lead DEF Quiet
<1>8. ReadsNamed(s)' => ReadsNamed(s)
  BY <1>3, <1>5, <1>6, <1>7 DEF ReadsNamed
<1>9. StoreShape'
  <2>1. \A o \in Server : Before(o)' = Before(o)
    BY <1>2 DEF Before
  <2>2. \A b \in bases : b.nth \in Nat /\ b.nth < used.pushed
    BY DEF StoreShape, Base
  <2>3. bases' \subseteq Base /\ \A b \in bases' : b.nth < used'.pushed
    BY <1>2, <1>3, <1>4, <2>2 DEF StoreShape
  <2> QED
    BY <1>2, <1>6, <2>1, <2>3 DEF StoreShape
<1>10. ReadsKnown'
  <2>1. \A o \in Server : Running(o)' => Running(o) /\ backup'[o].read = backup[o].read
    BY <1>3, <1>5, <1>6
  <2> QED
    BY <1>2, <1>3, <1>4, <1>7, <2>1 DEF ReadsKnown
<1>11. RunsServe'
  <2>1. ASSUME Running(s)'
        PROVE  /\ Writes(s) /\ backup'[s].start <= pg[s].segment
               /\ backup'[s].old \subseteq Earlier(s)' /\ aside[s] \subseteq Earlier(s)'
    <3>1. Earlier(s)' = Earlier(s)
      BY <1>5, <1>6, <2>1 DEF Earlier
    <3> QED
      BY <1>2, <1>3, <1>5, <1>6, <2>1, <3>1 DEF RunsServe
  <2>2. ASSUME NEW o \in Server, o # s, Running(o)'
        PROVE  /\ Writes(o)'
               /\ backup'[o].at # "retain" =>
                    backup'[o].start <= pg'[o].segment /\ backup'[o].old \subseteq Earlier(o)'
               /\ backup'[o].at \in {"push", "move"} => aside'[o] \subseteq Earlier(o)'
    BY <1>2, <1>6, <1>7, <2>2 DEF RunsServe
  <2> QED
    BY <1>2, <1>7, <2>1, <2>2 DEF RunsServe
<1>12. \A k : Accounted(lead, k)' = Accounted(lead, k)
  BY <1>1, <1>2, <1>7, ServerFacts DEF Accounted, Timeline, Quiet
<1>13. Before(lead)' = Before(lead)
  BY <1>2, <1>7 DEF Before
<1>14. HistoryBounds'
  BY <1>1, ServerFacts
<1>15. CASE backup[s].read # Named
  <2>1. Ours' = Ours
    BY <1>2, <1>4, <1>7, <1>15 DEF Ours
  <2>2. ~ReadsNamed(s) /\ ~ReadsNamed(s)'
    BY <1>8, <1>15 DEF ReadsNamed
  <2>3. \A o \in Server : ReadsNamed(o)' => ReadsNamed(o) /\ backup'[o] = backup[o]
    BY <1>6, <2>2
  <2>4. \A o \in Server : Running(o)' => Running(o)
    BY <1>3, <1>6
  <2>5. Ours # {} /\ Running(lead)' => ReadsNamed(lead)'
    BY <1>6, <1>7, <2>2, <2>4 DEF Lineage
  <2>6. Lineage'
    BY <1>2, <1>7, <2>1, <2>3, <2>4, <2>5 DEF Lineage
  <2>7. StartsOrdered'
    BY <1>7, <2>1, <2>3 DEF StartsOrdered
  <2>8. Covered'
    BY <1>7, <1>12, <1>13, <2>1, <2>3 DEF Covered
  <2> QED
    BY <1>9, <1>10, <1>11, <1>14, <2>6, <2>7, <2>8
<1>16. CASE backup[s].read = Named
  <2>1. ReadsNamed(s) /\ s = lead /\ ~backup[s].torn
    BY <1>3, <1>16 DEF ReadsNamed, Lineage
  <2>2. Ours' = Ours \cup {b0}
    BY <1>2, <1>4, <1>7, <1>16 DEF Ours
  <2>3. \A o \in Server : ReadsNamed(o)' => o = s
    BY <1>6, <2>1 DEF Lineage
  <2>4. Lineage'
    <3>1. fence = Named /\ role[lead] = "primary"
      BY <1>7, <2>1 DEF Lineage
    <3>2. ReadsNamed(s)' => ~backup'[s].torn /\ (backup'[s].alone => ~Running(Other(lead))')
      <4>1. Running(Other(lead))' = Running(Other(lead))
        BY <1>6, <1>7, <2>1, Lead
      <4> QED
        BY <1>5, <1>6, <1>7, <2>1, <4>1 DEF Lineage, ReadsNamed
    <3>3. \A b \in Ours' : b.branch = Of(lead) /\ ~b.torn /\ b.start <= pg[lead].segment
      BY <1>2, <1>3, <1>4, <2>1, <2>2 DEF Lineage, RunsServe
    <3>4. Running(lead)' => ReadsNamed(lead)'
      BY <1>5, <1>6, <1>7, <1>16, <2>1 DEF ReadsNamed
    <3> QED
      BY <1>2, <1>7, <2>1, <2>3, <3>1, <3>2, <3>3, <3>4 DEF Lineage
  <2>5. \A b \in Ours : /\ b.start \in Nat /\ b.nth \in Nat /\ b.nth < used.pushed
                         /\ b.start <= b0.start
    BY <1>2, <1>4, <2>1 DEF StoreShape, Base, Ours, StartsOrdered
  <2>6. StartsOrdered'
    <3>1. b0.start \in Nat /\ b0.nth = used.pushed
      BY <1>4 DEF Base
    <3>2. \A b, c \in Ours' : b.nth <= c.nth => b.start <= c.start
      BY <1>3, <2>2, <2>5, <3>1 DEF StartsOrdered
    <3>3. ReadsNamed(lead)' => backup'[lead].start = b0.start
      BY <1>4, <1>5, <1>6, <1>7, <2>1 DEF ReadsNamed
    <3> QED
      BY <1>7, <2>2, <2>5, <3>1, <3>2, <3>3 DEF StartsOrdered
  <2>7. Covered'
    <3>1. \A k \in Before(lead) :
            (\E b \in Ours' : b.alone) /\ (\A b \in Ours' : b.start <= k) => Accounted(lead, k)
      BY <1>2, <1>4, <2>1, <2>2 DEF Covered
    <3>2. ~(ReadsNamed(lead)' /\ backup'[lead].at = "push")
      BY <1>5, <1>6, <2>1
    <3> QED
      BY <1>7, <1>12, <1>13, <3>1, <3>2 DEF Covered
  <2> QED
    BY <1>9, <1>10, <1>11, <1>14, <2>4, <2>6, <2>7
<1> QED
  BY <1>15, <1>16

\* Retention takes no segment of a base it leaves, and where it leaves one of two
\* bases of a branch it leaves the later.
LEMMA Retention ==
  ASSUME ArchiveInv, StoreInv, NEW b \in bases, bases' = KeptBases(b), archive' = KeptWal(b)
  PROVE  /\ bases' \subseteq bases /\ DOMAIN archive' = DOMAIN archive
         /\ \A d \in Ours : d \in bases' =>
              /\ \A c \in Ours : c \notin bases' => c.start < d.start
              /\ \A k \in Before(lead) : d.start <= k =>
                   archive'[<<Timeline(Of(lead)), k>>] = archive[<<Timeline(Of(lead)), k>>]
<1> USE DEF StoreInv
<1> DEFINE t == Timeline(Of(lead))
           u == Timeline(b.branch)
<1>1. /\ bases' \subseteq bases /\ DOMAIN archive' = DOMAIN archive
      /\ \A c \in bases : c \in bases' <=> ~Below(Timeline(c.branch), c.start, u, b.start)
      /\ \A n \in DOMAIN archive :
           archive'[n] = IF Below(n[1], n[2], u, b.start) THEN None ELSE archive[n]
  BY DEF KeptBases, KeptWal, BelowBase
<1>2. /\ t \in Nat /\ lead \in Server
      /\ \A c \in Ours : c \in bases /\ c.branch = Of(lead) /\ c.start \in Nat
  BY Lead DEF Ours, Lineage, StoreShape, Base
<1>3. b.start \in Nat
  BY DEF StoreShape, Base
<1> SUFFICES ASSUME NEW d \in Ours, d \in bases'
             PROVE  /\ \A c \in Ours : c \notin bases' => c.start < d.start
                    /\ \A k \in Before(lead) : d.start <= k =>
                         archive'[<<t, k>>] = archive[<<t, k>>]
  BY <1>1
<1>4. ~(t < u) /\ (t = u => b.start <= d.start)
  BY <1>1, <1>2, <1>3 DEF Below
<1>5. ASSUME NEW c \in Ours, c \notin bases'
      PROVE  c.start < d.start
  <2>1. Below(t, c.start, u, b.start)
    BY <1>1, <1>2, <1>5
  <2>2. t = u /\ c.start < b.start
    BY <1>4, <2>1 DEF Below
  <2> QED
    BY <1>2, <1>3, <1>4, <2>2
<1>6. ASSUME NEW k \in Before(lead), d.start <= k
      PROVE  archive'[<<t, k>>] = archive[<<t, k>>]
  <2>1. <<t, k>> \in DOMAIN archive
    BY <1>2, Names
  <2>2. ~Below(t, k, u, b.start)
    <3>1. k \in Nat
      BY DEF Before
    <3> QED
      BY <1>2, <1>3, <1>4, <1>6, <3>1 DEF Below
  <2> QED
    BY <1>1, <2>1, <2>2
<1> QED
  BY <1>5, <1>6

\* Retention may end the lineage of bases, never break it; the push begins where
\* the server writes.
LEMMA BackupPushStore ==
  ASSUME ArchiveInv, StoreInv, NEW s \in Server, BackupPush(s)
  PROVE  StoreInv'
<1> USE DEF StoreInv
<1> DEFINE o == Other(s)
           r == [backup[s] EXCEPT !.at = "push", !.start = pg[s].segment,
                                  !.old = gap[s] \cup aside[s]]
           q == [backup[o] EXCEPT !.torn = @ \/ (backup[o].at = "push" /\ backup[o].alone)]
<1>1. Quiet
  BY ServersQuiet DEF Backup
<1>2. /\ backup[s].at = "retain"
      /\ \/ backup' = [backup EXCEPT ![s] = r]
         \/ backup' = [[backup EXCEPT ![s] = r] EXCEPT ![o] = q]
      /\ \/ UNCHANGED <<archive, bases>>
         \/ \E b \in bases : bases' = KeptBases(b) /\ archive' = KeptWal(b)
      /\ UNCHANGED <<pg, held, gap, aside, logged, used>>
  <2>1. o # s /\ o \in Server /\ backup \in [Server -> BackupRun]
    BY Others DEF StoreShape
  <2> QED
    BY <2>1 DEF BackupPush, pair, records
<1>3. /\ o \in Server /\ o # s /\ Server = {s, o}
      /\ backup[s] \in BackupRun /\ backup[o] \in BackupRun
      /\ backup \in [Server -> BackupRun] /\ Running(s)
      /\ {held, gap, aside} \subseteq [Server -> SUBSET Nat]
      /\ \A p \in Server : pg[p].segment \in Nat
  BY <1>2, Others DEF StoreShape, Running, ArchiveInv, Shape, Database
<1>4. /\ r \in BackupRun /\ r.at = "push" /\ r.start = pg[s].segment
      /\ r.old = gap[s] \cup aside[s] /\ r.read = backup[s].read
      /\ r.alone = backup[s].alone /\ r.torn = backup[s].torn
  <2>1. gap[s] \cup aside[s] \in SUBSET Nat
    BY <1>3
  <2> QED
    BY <1>3, <2>1 DEF BackupRun, RunAt
<1>5. /\ q \in BackupRun /\ q.at = backup[o].at /\ q.start = backup[o].start
      /\ q.old = backup[o].old /\ q.read = backup[o].read /\ q.alone = backup[o].alone
      /\ ~backup[o].alone => q.torn = backup[o].torn
  <2>1. (backup[o].torn \/ (backup[o].at = "push" /\ backup[o].alone)) \in BOOLEAN
    BY <1>3 DEF BackupRun
  <2> QED
    BY <1>3, <2>1 DEF BackupRun
<1> HIDE DEF r, q
<1>6. /\ backup' \in [Server -> BackupRun] /\ backup'[s] = r
      /\ backup'[o] = backup[o] \/ backup'[o] = q
  BY <1>2, <1>3, <1>4, <1>5
<1>7. /\ backup'[o].at = backup[o].at /\ backup'[o].start = backup[o].start
      /\ backup'[o].old = backup[o].old /\ backup'[o].read = backup[o].read
      /\ backup'[o].alone = backup[o].alone
      /\ ~backup[o].alone => backup'[o].torn = backup[o].torn
  BY <1>5, <1>6
<1>8. /\ lead' = lead /\ Other(lead)' = Other(lead) /\ Named' = Named /\ lead \in Server
      /\ Other(lead) \in Server
      /\ \A p \in Server : Of(p)' = Of(p) /\ Writes(p)' = Writes(p)
  BY <1>1, ServerFacts, Lead
<1>9. Running(s)' /\ Running(o)' = Running(o) /\ Earlier(o)' = Earlier(o)
  BY <1>4, <1>6, <1>7 DEF Running, Earlier
<1>10. ReadsNamed(s)' = ReadsNamed(s) /\ ReadsNamed(o)' = ReadsNamed(o)
  BY <1>3, <1>4, <1>6, <1>7, <1>8, <1>9 DEF ReadsNamed
<1>11. ReadsNamed(o) => ~backup[o].alone /\ o = lead
  <2>1. Other(o) = s
    BY Others
  <2>2. ReadsNamed(o) => o = lead /\ (backup[o].alone => ~Running(Other(o)))
    BY <1>3 DEF Lineage
  <2> QED
    BY <1>3, <2>1, <2>2
<1>12. bases' \subseteq bases /\ DOMAIN archive' = DOMAIN archive
  BY <1>2, Retention
<1>13. ReadsKnown' /\ Lineage' /\ Ours' \subseteq Ours
  BY <1>1, <1>2, <1>3, <1>4, <1>6, <1>7, <1>9, <1>11, <1>12, RunsGoOn
<1>14. \A d \in Ours' :
         /\ d \in Ours
         /\ \A c \in Ours : c \notin Ours' => c.start < d.start
         /\ \A k \in Before(lead) : d.start <= k =>
              archive'[<<Timeline(Of(lead)), k>>] = archive[<<Timeline(Of(lead)), k>>]
  <2>1. \A d \in Ours : d \in Ours' <=> d \in bases'
    BY <1>8 DEF Ours
  <2> QED
    BY <1>2, <1>8, <1>13, <2>1, Retention DEF Ours
<1>15. StoreShape'
  <2>1. \A p \in Server : Before(p)' = Before(p)
    BY <1>2 DEF Before
  <2> QED
    BY <1>2, <1>6, <1>12, <2>1 DEF StoreShape
<1>16. RunsServe'
  <2>1. Earlier(s)' = Before(s)
    BY <1>4, <1>6 DEF Earlier, Before
  <2>2. /\ Writes(s) /\ backup'[s].start <= pg[s].segment
        /\ backup'[s].old \subseteq Earlier(s)' /\ aside[s] \subseteq Earlier(s)'
    BY <1>3, <1>4, <1>6, <2>1 DEF RunsServe, StoreShape
  <2>3. Running(o)' =>
          /\ Writes(o)
          /\ backup'[o].at # "retain" =>
               backup'[o].start <= pg[o].segment /\ backup'[o].old \subseteq Earlier(o)'
          /\ backup'[o].at \in {"push", "move"} => aside[o] \subseteq Earlier(o)'
    BY <1>3, <1>7, <1>9 DEF RunsServe
  <2> QED
    BY <1>2, <1>3, <1>8, <2>2, <2>3 DEF RunsServe
<1>17. \A b \in Ours : b.start \in Nat /\ b.start <= pg[lead].segment
  BY DEF Lineage, Ours, StoreShape, Base
<1>18. StartsOrdered'
  <2>1. \A b, c \in Ours' : b.nth <= c.nth => b.start <= c.start
    BY <1>13 DEF StartsOrdered
  <2>2. CASE lead = s
    BY <1>4, <1>6, <1>8, <1>13, <1>17, <2>1, <2>2 DEF StartsOrdered
  <2>3. CASE lead = o
    <3>1. ReadsNamed(lead)' = ReadsNamed(lead) /\ backup'[lead].at = backup[lead].at
          /\ backup'[lead].start = backup[lead].start
      BY <1>7, <1>8, <1>10, <2>3
    <3>2. ASSUME NEW b \in Ours, NEW d \in Ours',
                 \A c \in Ours : c.start <= b.start
          PROVE  b \in Ours'
      BY <1>14, <1>17, <3>2
    <3> QED
      BY <1>8, <1>13, <2>1, <3>1, <3>2 DEF StartsOrdered
  <2> QED
    BY <1>3, <1>8, <2>2, <2>3
<1>19. Covered'
  <2>1. Timeline(Of(lead))' = Timeline(Of(lead)) /\ Of(lead)' = Of(lead) /\ Before(lead)' = Before(lead)
    BY <1>1, <1>2, <1>8, ServerFacts DEF Timeline, Quiet, Before
  <2>2. ASSUME NEW k \in Before(lead), NEW d \in Ours', d.alone, \A b \in Ours' : b.start <= k
        PROVE  Accounted(lead, k)'
    <3>1. \A b \in Ours : b.start <= k
      <4>1. k \in Nat /\ d.start <= k /\ d \in Ours
        BY <1>14, <2>2 DEF Before
      <4> QED
        BY <1>14, <1>17, <2>2, <4>1
    <3>2. Accounted(lead, k)
      BY <1>14, <2>2, <3>1 DEF Covered
    <3>3. archive'[<<Timeline(Of(lead)), k>>] = archive[<<Timeline(Of(lead)), k>>]
      BY <1>14, <2>2
    <3> QED
      BY <1>2, <1>8, <2>1, <3>2, <3>3 DEF Accounted
  <2>3. ReadsNamed(lead)' /\ backup'[lead].at = "push" /\ backup'[lead].alone =>
          \A k \in Before(lead)' : ~(backup'[lead].start <= k)
    <3>1. CASE lead = s
      BY <1>3, <1>4, <1>6, <2>1, <3>1 DEF Before
    <3>2. CASE lead = o
      BY <1>7, <1>8, <1>10, <1>11, <3>2
    <3> QED
      BY <1>3, <1>8, <3>1, <3>2
  <2> QED
    BY <1>8, <2>1, <2>2, <2>3 DEF Covered
<1>20. HistoryBounds'
  BY <1>1, ServerFacts
<1> QED
  BY <1>13, <1>15, <1>16, <1>18, <1>19, <1>20

-----------------------------------------------------------------------------
(* What a restore finds, and why.                                          *)

\* Every step keeps the store in order.
LEMMA StoreStep == ArchiveInv /\ StoreInv /\ [Next]_walVars => StoreInv'
<1> SUFFICES ASSUME ArchiveInv, StoreInv, [Next]_walVars PROVE StoreInv'
  OBVIOUS
<1>1. CASE UNCHANGED walVars
  <2>1. StoreKept /\ fence' = fence /\ role' = role
    BY <1>1 DEF walVars, StoreKept, Archivers, records
  <2>2. lead' = lead
    BY <1>1 DEF walVars, lead, Promoted, standby
  <2>3. HistoryBounds'
    BY <1>1 DEF walVars, StoreInv, HistoryBounds, Timeline
  <2> QED
    BY <2>1, <2>2, <2>3, CommandStep
<1>2. CASE CallOff
  BY <1>2, CallOffStore
<1>3. CASE Failover \/ Deploy \/ Retire \/ Command
  BY <1>3, CommandsStore, PromoteStore, ReseedStore DEF Command
<1>4. ASSUME NEW s \in Server,
             \/ Write(s) \/ Archiver(s) \/ ArchivePastFence(s) \/ ArchiveDrop(s) \/ Backup(s)
      PROVE  StoreInv'
  BY <1>4, WriteStore, ArchiverStore, BackupStartStore, BackupPushStore, BackupPushedStore,
     BackupDiesStore, GapMoveStore, GapKeepStore DEF Backup
<1> QED
  BY <1>1, <1>2, <1>3, <1>4 DEF Next

THEOREM StoreInvariant == Spec => []StoreInv
<1>1. Init => StoreInv
  BY StoreInit
<1>2. ArchiveInv /\ StoreInv /\ [Next]_walVars => StoreInv'
  BY StoreStep
<1> QED
  BY <1>1, <1>2, ArchiveInvariant, PTL DEF Spec

\* `restore latest` starts at a base of the primary that no later run swept, and if
\* the other server had no run under way when its own began every segment it needs
\* is archived, held or on record, for any number of segments, failovers, aborts,
\* backups and faults.
THEOREM RestoreFindsAll == Spec => []LatestRestores
<1>1. ArchiveInv /\ StoreInv => LatestRestores
  <2> SUFFICES ASSUME ArchiveInv, StoreInv, cmd = "idle",
                      fence = FenceOn(Of(main), used.calledOff),
                      NEW b \in bases, Newest(b), b.read = fence
               PROVE  /\ b.branch = Of(main) /\ ~b.torn
                      /\ b.alone => \A k \in Needed(b) : Accounted(main, k)
    BY DEF LatestRestores
  <2> USE DEF StoreInv
  <2>1. lead = main /\ fence = Named
    BY DEF lead, Promoted, Named
  <2>2. b \in Ours
    BY <2>1 DEF Ours
  <2>3. b.branch = Of(main) /\ ~b.torn
    BY <2>1, <2>2 DEF Lineage
  <2>4. ASSUME b.alone, NEW k \in Needed(b) PROVE Accounted(main, k)
    <3>1. k \in Nat /\ k \in Before(main) /\ b.start <= k
      <4>1. MaxSegment \in Nat
        BY WalArchiveAssumption DEF WalArchiveAssumption
      <4> QED
        BY <4>1 DEF Needed, Segment, Before
    <3>2. \A c \in Ours : c.start \in Nat /\ c.start <= b.start
      BY <2>2 DEF Newest, Ours, StartsOrdered, StoreShape, Base
    <3>3. \A c \in Ours : c.start <= k
      BY <2>2, <3>1, <3>2
    <3> QED
      BY <2>1, <2>2, <2>4, <3>1, <3>3 DEF Covered
  <2> QED
    BY <2>3, <2>4
<1> QED
  BY <1>1, ArchiveInvariant, StoreInvariant, PTL
=============================================================================
