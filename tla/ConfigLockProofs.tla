-------------------------- MODULE ConfigLockProofs --------------------------
(***************************************************************************)
(* The lock of ConfigLock excludes, for any number of processes, calls and *)
(* deaths, until a process dies between creating a lock file and writing   *)
(* its pid, or while it breaks a lock, or a pid is reused (orderly).  Till *)
(* then each of the two files names who owns it (Owned), a lock under a    *)
(* breaker's hands is that of a dead process (Judged), and what a holder   *)
(* read is still on disk when it saves (Fresh).                            *)
(***************************************************************************)
EXTENDS ConfigLock, TLAPS

\* The lock file belongs to the one process that holds it, or to a dead one;
\* the break file to the one process that is breaking.
Owned ==
  /\ lock # None =>
       /\ ~lock.old
       /\ \/ pc[lock.by] = "write" /\ lock.text = None
          \/ pc[lock.by] \in (Holding \ {"write"}) \cup {"dead"} /\ lock.text = lock.by
  /\ brk # None =>
       /\ ~brk.old
       /\ \/ pc[brk.by] = "writeBreak" /\ brk.text = None
          \/ pc[brk.by] \in Breaking \ {"writeBreak"} /\ brk.text = brk.by
  /\ \A p \in Proc : pc[p] \in Holding => lock # None /\ lock.by = p
  /\ \A p \in Proc : pc[p] \in Breaking => brk # None /\ brk.by = p

\* A process that goes for the break file has seen the pid of a dead process,
\* and the lock it is about to remove is that one.
Judged ==
  \A p \in Proc :
    /\ ~seen[p].old /\ ~broke[p]
    /\ pc[p] \notin {"clearBreak", "failed"}
    /\ pc[p] \in {"openBreak", "writeBreak", "recheck", "remove"} =>
         seen[p].text \in Proc /\ pc[seen[p].text] = "dead"
    /\ pc[p] = "remove" => lock # None /\ lock.text = seen[p].text

\* What the holder read is what is on disk.
Fresh == \A p \in Proc : pc[p] = "save" => mine[p] = config

Inv == TypeOK /\ Owned /\ Judged /\ Fresh

-----------------------------------------------------------------------------

\* The files a step writes are files.
LEMMA Files ==
  ASSUME TypeOK, NEW p \in Proc
  PROVE  /\ Opened(p) \in File
         /\ Written(lock, p) \in File \cup {None}
         /\ Written(brk, p) \in File \cup {None}
BY DEF TypeOK, File, Opened, Written

\* A step of a process moves it, and nobody else, to a step of the code.
LEMMA Moves ==
  ASSUME TypeOK, NEW p \in Proc, NEW from, NEW to \in Pc, Step(p, from, to)
  PROVE  /\ pc[p] = from /\ pc'[p] = to
         /\ pc' \in [Proc -> Pc]
         /\ \A q \in Proc : q # p => pc'[q] = pc[q]
BY DEF TypeOK, Step

LEMMA InitTypes == Init => TypeOK
<1> SUFFICES ASSUME Init PROVE TypeOK
  OBVIOUS
<1>1. config \in Configs
  BY DEF Init, Configs
<1> QED
  BY <1>1, BoundAssumption DEF Init, TypeOK, Pc, File

\* The steps of one process keep the types.
LEMMA GoesTypes ==
  ASSUME TypeOK, NEW p \in Proc, Goes(p)
  PROVE  TypeOK'
<1> USE DEF Pc, Holding, Waiting, Breaking, Clearing, Ended
<1>1. CASE Open(p)
  BY <1>1, Files DEF Open, Step, TypeOK
<1>2. CASE WritePid(p)
  BY <1>2, Files DEF WritePid, Step, TypeOK
<1>3. CASE ReadConfig(p)
  BY <1>3 DEF ReadConfig, Step, TypeOK
<1>4. CASE SaveConfig(p)
  <2>1. mine[p] \in Configs
    BY DEF TypeOK
  <2>2. config' \in Configs
    BY <1>4, <2>1 DEF SaveConfig, Configs
  <2> QED
    BY <1>4, <2>2 DEF SaveConfig, Step, TypeOK
<1>5. CASE NoChange(p) \/ CheckOwn(p)
  BY <1>5 DEF NoChange, CheckOwn, Step, TypeOK
<1>6. CASE Unlink(p)
  BY <1>6 DEF Unlink, Step, TypeOK
<1>7. CASE Stat(p)
  <2>1. (lock # None /\ lock.old) \in BOOLEAN
    OBVIOUS
  <2> QED
    BY <1>7, <2>1 DEF Stat, Step, TypeOK
<1>8. CASE Inspect(p)
  BY <1>8 DEF Inspect, TypeOK, File
<1>9. CASE OpenBreak(p)
  BY <1>9, Files DEF OpenBreak, Step, TypeOK
<1>10. CASE WriteBreak(p)
  BY <1>10, Files DEF WriteBreak, Step, TypeOK
<1>11. CASE Recheck(p)
  BY <1>11 DEF Recheck, Step, TypeOK
<1>12. CASE Remove(p)
  BY <1>12 DEF Remove, Step, TypeOK
<1>13. CASE Unbreak(p)
  BY <1>13 DEF Unbreak, Step, TypeOK
<1>14. CASE StatBreak(p)
  <2>1. (brk # None /\ brk.old) \in BOOLEAN
    OBVIOUS
  <2> QED
    BY <1>14, <2>1 DEF StatBreak, Step, TypeOK
<1>15. CASE InspectBreak(p) \/ ClearBreak(p)
  BY <1>15 DEF InspectBreak, ClearBreak, Step, TypeOK
<1> QED
  BY <1>1, <1>2, <1>3, <1>4, <1>5, <1>6, <1>7, <1>8, <1>9, <1>10, <1>11, <1>12,
     <1>13, <1>14, <1>15 DEF Goes

LEMMA NextTypes == TypeOK /\ [Next]_vars => TypeOK'
<1> SUFFICES ASSUME TypeOK, [Next]_vars PROVE TypeOK'
  OBVIOUS
<1> USE DEF Pc, Holding, Waiting, Breaking, Clearing, Ended
<1>1. ASSUME NEW p \in Proc, Start(p) PROVE TypeOK'
  BY <1>1 DEF Start, Step, TypeOK
<1>2. ASSUME NEW p \in Proc, Goes(p) PROVE TypeOK'
  BY <1>2, GoesTypes
<1>3. ASSUME NEW p \in Proc, GiveUp(p) PROVE TypeOK'
  BY <1>3 DEF GiveUp, Step, TypeOK
<1>4. ASSUME NEW p \in Proc, Crash(p) PROVE TypeOK'
  BY <1>4 DEF Crash, TypeOK
<1>5. ASSUME NEW p \in Proc, Recycle(p) PROVE TypeOK'
  BY <1>5 DEF Recycle, Step, TypeOK
<1>6. CASE Age
  BY <1>6 DEF Age, TypeOK, File
<1>7. CASE UNCHANGED vars
  BY <1>7 DEF vars, TypeOK
<1> QED
  BY <1>1, <1>2, <1>3, <1>4, <1>5, <1>6, <1>7 DEF Next

\* TypeOK holds for any processes, and wherever they die: what the lock and
\* break files may hold, and the record of every process's call.
THEOREM LockTypeCorrect == Spec => []TypeOK
BY InitTypes, NextTypes, PTL DEF Spec

-----------------------------------------------------------------------------
(* Exclusion.                                                              *)

\* The lock a waiter finds stale is that of a dead process, and a break file
\* is never stale.
LEMMA StaleIsDead ==
  ASSUME Inv, NEW p \in Proc
  PROVE  /\ pc[p] = "inspect" /\ lock # None /\ Stale(p, lock) =>
              lock.text \in Proc /\ pc[lock.text] = "dead"
         /\ pc[p] = "inspectBreak" /\ brk # None => ~Stale(p, brk)
BY NoneAssumption DEF Inv, TypeOK, Owned, Judged, Stale, Dead, Holding, Breaking, Ended, File

LEMMA GoesInv ==
  ASSUME Inv, TypeOK', NEW p \in Proc, Goes(p)
  PROVE  Inv'
<1> USE DEF Inv, Owned, Judged, Fresh
<1>1. CASE Open(p)
  <2> USE DEF Open, Step, TypeOK, Holding, Breaking
  <2>1. CASE lock = None
    <3>1. /\ lock' = Opened(p) /\ pc'[p] = "write"
          /\ lock' # None /\ lock'.by = p /\ lock'.text = None /\ ~lock'.old
      BY <1>1, <2>1, Files, NoneAssumption DEF Opened
    <3>2. \A q \in Proc : q # p => pc'[q] = pc[q]
      BY <1>1, <2>1
    <3>3. Owned'
      BY <1>1, <2>1, <3>1, <3>2
    <3>4. Judged'
      BY <1>1, <2>1, <3>1, <3>2
    <3> QED
      BY <1>1, <2>1, <3>1, <3>2, <3>3, <3>4
  <2>2. CASE lock # None
    BY <1>1, <2>2
  <2> QED
    BY <2>1, <2>2
<1>2. CASE WritePid(p)
  <2> USE DEF WritePid, Step, TypeOK, Holding, Breaking
  <2>1. lock # None /\ lock.by = p /\ ~lock.old
    BY <1>2
  <2>2. /\ lock' = [lock EXCEPT !.text = p] /\ pc'[p] = "read"
        /\ lock' # None /\ lock'.by = p /\ lock'.text = p /\ ~lock'.old
    BY <1>2, <2>1, Files, NoneAssumption DEF Written, File
  <2>3. \A q \in Proc : q # p => pc'[q] = pc[q]
    BY <1>2
  <2>4. Owned'
    BY <1>2, <2>1, <2>2, <2>3
  <2>5. Judged'
    BY <1>2, <2>1, <2>2, <2>3, NoneAssumption
  <2> QED
    BY <1>2, <2>2, <2>3, <2>4, <2>5
<1>3. CASE ReadConfig(p)
  BY <1>3, NoneAssumption DEF ReadConfig, Step, TypeOK, File, Holding, Breaking
<1>4. CASE SaveConfig(p)
  BY <1>4, NoneAssumption DEF SaveConfig, Step, TypeOK, File, Holding, Breaking
<1>5. CASE NoChange(p)
  BY <1>5, NoneAssumption DEF NoChange, Step, TypeOK, File, Holding, Breaking
<1>6. CASE CheckOwn(p)
  BY <1>6, NoneAssumption DEF CheckOwn, Step, TypeOK, File, Holding, Breaking
<1>7. CASE Unlink(p)
  BY <1>7, NoneAssumption DEF Unlink, Step, TypeOK, File, Holding, Breaking
<1>8. CASE Stat(p)
  BY <1>8, NoneAssumption DEF Stat, Step, TypeOK, File, Holding, Breaking
<1>9. CASE Inspect(p)
  BY <1>9, StaleIsDead, NoneAssumption DEF Inspect, Step, TypeOK, File, Holding, Breaking
<1>10. CASE OpenBreak(p)
  <2> USE DEF OpenBreak, Step, TypeOK, Holding, Breaking
  <2>1. CASE brk = None
    <3>1. /\ brk' = Opened(p) /\ pc'[p] = "writeBreak"
          /\ brk' # None /\ brk'.by = p /\ brk'.text = None /\ ~brk'.old
      BY <1>10, <2>1, Files, NoneAssumption DEF Opened
    <3>2. \A q \in Proc : q # p => pc'[q] = pc[q]
      BY <1>10, <2>1
    <3>3. Owned'
      BY <1>10, <2>1, <3>1, <3>2
    <3>4. Judged'
      BY <1>10, <2>1, <3>1, <3>2
    <3> QED
      BY <1>10, <2>1, <3>1, <3>2, <3>3, <3>4
  <2>2. CASE brk # None
    BY <1>10, <2>2
  <2> QED
    BY <2>1, <2>2
<1>11. CASE WriteBreak(p)
  <2> USE DEF WriteBreak, Step, TypeOK, Holding, Breaking
  <2>1. brk # None /\ brk.by = p /\ ~brk.old
    BY <1>11
  <2>2. /\ brk' = [brk EXCEPT !.text = p] /\ pc'[p] = "recheck"
        /\ brk' # None /\ brk'.by = p /\ brk'.text = p /\ ~brk'.old
    BY <1>11, <2>1, Files, NoneAssumption DEF Written, File
  <2>3. \A q \in Proc : q # p => pc'[q] = pc[q]
    BY <1>11
  <2>4. Owned'
    BY <1>11, <2>1, <2>2, <2>3
  <2>5. Judged'
    BY <1>11, <2>1, <2>2, <2>3, NoneAssumption
  <2> QED
    BY <1>11, <2>2, <2>3, <2>4, <2>5
<1>12. CASE Recheck(p)
  BY <1>12, NoneAssumption DEF Recheck, Step, TypeOK, File, Holding, Breaking
<1>13. CASE Remove(p)
  BY <1>13, NoneAssumption DEF Remove, Step, TypeOK, File, Holding, Breaking
<1>14. CASE Unbreak(p)
  BY <1>14, NoneAssumption DEF Unbreak, Step, TypeOK, File, Holding, Breaking
<1>15. CASE StatBreak(p)
  BY <1>15, NoneAssumption DEF StatBreak, Step, TypeOK, File, Holding, Breaking
<1>16. CASE InspectBreak(p)
  BY <1>16, StaleIsDead, NoneAssumption DEF InspectBreak, Step, TypeOK, File, Holding, Breaking
<1>17. CASE ClearBreak(p)
  BY <1>17, NoneAssumption DEF ClearBreak, Step, TypeOK, File, Holding, Breaking
<1> QED
  BY <1>1, <1>2, <1>3, <1>4, <1>5, <1>6, <1>7, <1>8, <1>9, <1>10, <1>11, <1>12, <1>13, <1>14, <1>15, <1>16, <1>17 DEF Goes

\* A process that dies holds the lock with its pid in it, or no file at all.
LEMMA CrashInv ==
  ASSUME orderly', Inv, NEW p \in Proc, Crash(p)
  PROVE  Owned' /\ Judged' /\ Fresh'
<1> USE DEF Inv
<1>1. pc[p] \notin {"write", "dead"} \cup Breaking
  BY DEF Crash, Ended
<1>2. pc'[p] = "dead" /\ \A q \in Proc : q # p => pc'[q] = pc[q]
  BY DEF Crash, TypeOK
<1>3. Owned'
  BY <1>1, <1>2, NoneAssumption DEF Crash, Owned, TypeOK, File, Holding, Breaking
<1>4. Judged'
  BY <1>1, <1>2 DEF Crash, Judged, TypeOK, Breaking
<1>5. Fresh'
  BY <1>2 DEF Crash, Fresh
<1> QED
  BY <1>3, <1>4, <1>5

LEMMA InvNext ==
  ASSUME Inv, [Next]_vars, orderly'
  PROVE  Inv'
<1>1. TypeOK'
  BY NextTypes DEF Inv
<1>2. ASSUME NEW p \in Proc, Start(p) PROVE Inv'
  BY <1>1, <1>2 DEF Start, Step, Inv, TypeOK, Owned, Judged, Fresh, File, Holding, Breaking
<1>3. ASSUME NEW p \in Proc, Goes(p) PROVE Inv'
  BY <1>1, <1>3, GoesInv
<1>4. ASSUME NEW p \in Proc, GiveUp(p) PROVE Inv'
  BY <1>1, <1>4 DEF GiveUp, Step, Inv, TypeOK, Owned, Judged, Fresh, File, Holding, Breaking
<1>5. ASSUME NEW p \in Proc, Crash(p) PROVE Inv'
  BY <1>1, <1>5, CrashInv DEF Inv
<1>6. ASSUME NEW p \in Proc, Recycle(p) PROVE Inv'
  BY <1>6 DEF Recycle
<1>7. CASE Age
  BY <1>1, <1>7, NoneAssumption DEF Age, Inv, TypeOK, Owned, File, Holding, Breaking
<1>8. CASE UNCHANGED vars
  BY <1>1, <1>8 DEF vars, Inv, Owned, Judged, Fresh
<1> QED
  BY <1>2, <1>3, <1>4, <1>5, <1>6, <1>7, <1>8 DEF Next

LEMMA InitInv == Init => Inv
<1> SUFFICES ASSUME Init PROVE Inv
  OBVIOUS
<1>1. \A p \in Proc : pc[p] = "out" /\ ~broke[p] /\ ~seen[p].old
  BY DEF Init
<1>2. lock = None /\ brk = None
  BY DEF Init
<1> QED
  BY <1>1, <1>2, InitTypes DEF Inv, Owned, Judged, Fresh, Holding, Breaking

\* What is not orderly stays so.
LEMMA OrderlyBefore == [Next]_vars /\ orderly' => orderly
BY DEF Next, Goes, vars, Start, GiveUp, Crash, Recycle, Age, Open, WritePid, ReadConfig,
  SaveConfig, NoChange, CheckOwn, Unlink, Stat, Inspect, OpenBreak, WriteBreak, Recheck,
  Remove, Unbreak, StatBreak, InspectBreak, ClearBreak

LEMMA OrderlyInv == Spec => [](orderly => Inv)
<1>1. Init => (orderly => Inv)
  BY InitInv
<1>2. (orderly => Inv) /\ [Next]_vars => (orderly => Inv)'
  BY InvNext, OrderlyBefore
<1> QED
  BY <1>1, <1>2, PTL DEF Spec

\* acquireConfigLock excludes: however many terminals wait on a lock and break
\* it after its holder died, one command at a time is under it.
THEOREM OrderlyHoldsAlone == Spec => []HoldsAlone
<1>1. (orderly => Inv) => HoldsAlone
  BY DEF Inv, Owned, HoldsAlone
<1> QED
  BY <1>1, OrderlyInv, PTL

\* No command fails because another one broke the same lock (breakStaleLock).
THEOREM OrderlyBreaks == Spec => []BreakersDoNotCollide
<1>1. (orderly => Inv) => BreakersDoNotCollide
  BY DEF Inv, Judged, BreakersDoNotCollide
<1> QED
  BY <1>1, OrderlyInv, PTL

\* updateProjectConfig keeps what every other command saved: a write is one
\* command's change of what was on disk.
THEOREM OrderlyUpdates == Spec => NoUpdateLost
<1>1. ASSUME orderly, orderly => Inv, [Next]_vars, config' # config
      PROVE  \E p \in Proc : config' = [config EXCEPT ![p] = @ + 1]
  <2>1. PICK p \in Proc : SaveConfig(p)
    BY <1>1 DEF Next, Goes, vars, Start, GiveUp, Crash, Recycle, Age, Open, WritePid,
      ReadConfig, NoChange, CheckOwn, Unlink, Stat, Inspect, OpenBreak, WriteBreak,
      Recheck, Remove, Unbreak, StatBreak, InspectBreak, ClearBreak
  <2>2. mine[p] = config
    BY <1>1, <2>1 DEF SaveConfig, Step, Inv, Fresh
  <2> QED
    BY <2>1, <2>2 DEF SaveConfig
<1>2. (orderly => Inv) /\ [Next]_vars => [orderly /\ config' # config =>
        \E p \in Proc : config' = [config EXCEPT ![p] = @ + 1]]_vars
  BY <1>1
<1>3. Spec => [][Next]_vars
  BY DEF Spec
<1> QED
  BY <1>2, <1>3, OrderlyInv, PTL DEF NoUpdateLost
=============================================================================
