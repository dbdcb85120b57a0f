----------------------------- MODULE ConfigLock -----------------------------
(***************************************************************************)
(* updateProjectConfig (src/lib/config.js): the one way any vibecarbon     *)
(* command changes .vibecarbon.json.  Commands in several terminals are    *)
(* processes that share two files, .vibecarbon.json.lock and its .break;   *)
(* every system call on them is a step.  A process may die at any step; a  *)
(* lock whose holder is dead, or that stays empty, is broken by a waiter,  *)
(* one breaker at a time.                                                  *)
(***************************************************************************)
EXTENDS Naturals

CONSTANTS
  Proc,         \* process ids
  None,         \* no such file; no pid in a file
  MaxCalls,     \* bound: calls of updateProjectConfig, by all processes
  MaxCrashes    \* bound: processes that die

Holding == {"write", "read", "save", "check", "unlink"}
Waiting == {"open", "stat", "inspect"}
Breaking == {"writeBreak", "recheck", "remove", "unbreak"}
Clearing == {"openBreak", "statBreak", "inspectBreak", "clearBreak"}
Ended == {"dead", "failed", "gaveUp"}
Pc == {"out"} \cup Waiting \cup Holding \cup Breaking \cup Clearing \cup Ended

ASSUME BoundAssumption == {MaxCalls, MaxCrashes} \subseteq Nat

VARIABLES
  lock, brk,   \* the two files, see File
  config,      \* config[p]: the updates of p that .vibecarbon.json holds
  pc,          \* the step each process is at
  mine,        \* mine[p]: the config p read under the lock
  seen,        \* seen[p]: what p read of a file before acting on it
  broke,       \* broke[p]: a call of p under the break file threw
  calls,       \* how often updateProjectConfig was called
  crashes,     \* how many processes died
  orderly      \* history: no process died between creating a file and
               \* writing its pid, or while breaking, and no pid was reused

vars == <<lock, brk, config, pc, mine, seen, broke, calls, crashes, orderly>>

\* A lock file: the pid it holds, the process that created it, and whether it
\* is older than the grace an empty one is given.
File == [text: Proc \cup {None}, by: Proc, old: BOOLEAN]
Configs == [Proc -> Nat]

ASSUME NoneAssumption == None \notin Proc /\ None \notin File

Init ==
  /\ lock = None /\ brk = None
  /\ config = [p \in Proc |-> 0]
  /\ pc = [p \in Proc |-> "out"]
  /\ mine = [p \in Proc |-> config]
  /\ seen = [p \in Proc |-> [text |-> None, old |-> FALSE]]
  /\ broke = [p \in Proc |-> FALSE]
  /\ calls = 0
  /\ crashes = 0
  /\ orderly = TRUE

Step(p, from, to) == pc[p] = from /\ pc' = [pc EXCEPT ![p] = to]

\* openSync(path, 'wx') is exclusive; the pid is written through the open
\* descriptor, so into whatever became of that file.
Opened(p) == [text |-> None, by |-> p, old |-> FALSE]
Written(f, p) == IF f # None /\ f.by = p THEN [f EXCEPT !.text = p] ELSE f

\* pidAlive: a process that ended has no pid.
Dead(p) == pc[p] \in Ended

\* inspectLock: an empty file is stale by its age, which was read before its
\* text; a pid is stale when dead, or when it is our own, which we do not hold.
StaleUnaged(p, f) == f.text = None \/ f.text = p \/ Dead(f.text)
Stale(p, f) == IF f.text = None THEN seen[p].old ELSE f.text = p \/ Dead(f.text)

-----------------------------------------------------------------------------
(* acquireConfigLock, the update, the release.                             *)

Start(p) ==
  /\ calls < MaxCalls
  /\ Step(p, "out", "open")
  /\ calls' = calls + 1
  /\ UNCHANGED <<lock, brk, config, mine, seen, broke, crashes, orderly>>

Open(p) ==
  /\ Step(p, "open", IF lock = None THEN "write" ELSE "stat")
  /\ lock' = IF lock = None THEN Opened(p) ELSE lock
  /\ UNCHANGED <<brk, config, mine, seen, broke, calls, crashes, orderly>>

WritePid(p) ==
  /\ Step(p, "write", "read")
  /\ lock' = Written(lock, p)
  /\ UNCHANGED <<brk, config, mine, seen, broke, calls, crashes, orderly>>

\* The file is reloaded under the lock, mutated, renamed over.
ReadConfigAhead(p) ==
  /\ Step(p, "read", "save")
  /\ UNCHANGED <<lock, brk, config, mine, seen, broke, calls, crashes, orderly>>
ReadConfig(p) ==
  /\ Step(p, "read", "save")
  /\ mine' = [mine EXCEPT ![p] = config]
  /\ UNCHANGED <<lock, brk, config, seen, broke, calls, crashes, orderly>>

SaveConfig(p) ==
  /\ Step(p, "save", "check")
  /\ config' = [mine[p] EXCEPT ![p] = @ + 1]
  /\ UNCHANGED <<lock, brk, mine, seen, broke, calls, crashes, orderly>>

\* A mutator that changes nothing, or throws, writes nothing.
NoChange(p) ==
  /\ Step(p, "save", "check")
  /\ UNCHANGED <<lock, brk, config, mine, seen, broke, calls, crashes, orderly>>

\* The release removes the lock only if it still holds our pid.
CheckOwn(p) ==
  /\ Step(p, "check", IF lock # None /\ lock.text = p THEN "unlink" ELSE "out")
  /\ UNCHANGED <<lock, brk, config, mine, seen, broke, calls, crashes, orderly>>

Unlink(p) ==
  /\ Step(p, "unlink", "out")
  /\ lock' = None
  /\ UNCHANGED <<brk, config, mine, seen, broke, calls, crashes, orderly>>

-----------------------------------------------------------------------------
(* The lock exists: inspect it, then break it, poll, or give up.           *)

Stat(p) ==
  /\ Step(p, "stat", IF lock = None THEN "open" ELSE "inspect")
  /\ seen' = [seen EXCEPT ![p].old = lock # None /\ lock.old]
  /\ UNCHANGED <<lock, brk, config, mine, broke, calls, crashes, orderly>>

Inspect(p) ==
  /\ pc[p] = "inspect"
  /\ IF lock # None /\ Stale(p, lock)
     THEN /\ pc' = [pc EXCEPT ![p] = "openBreak"]
          /\ seen' = [seen EXCEPT ![p].text = lock.text]
     ELSE /\ pc' = [pc EXCEPT ![p] = "open"]
          /\ seen' = seen
  /\ UNCHANGED <<lock, brk, config, mine, broke, calls, crashes, orderly>>

\* The deadline is looked at only here, where the lock is not stale.
GiveUp(p) ==
  /\ lock # None /\ ~Stale(p, lock)
  /\ Step(p, "inspect", "gaveUp")
  /\ UNCHANGED <<lock, brk, config, mine, seen, broke, calls, crashes, orderly>>

-----------------------------------------------------------------------------
(* breakStaleLock.                                                         *)

OpenBreak(p) ==
  /\ Step(p, "openBreak", IF brk = None THEN "writeBreak" ELSE "statBreak")
  /\ brk' = IF brk = None THEN Opened(p) ELSE brk
  /\ UNCHANGED <<lock, config, mine, seen, broke, calls, crashes, orderly>>

WriteBreak(p) ==
  /\ Step(p, "writeBreak", "recheck")
  /\ brk' = Written(brk, p)
  /\ UNCHANGED <<lock, config, mine, seen, broke, calls, crashes, orderly>>

\* The lock is read again: still the text that was judged stale?
RecheckNothing(p) ==
  /\ Step(p, "recheck", IF lock # None THEN "remove" ELSE "unbreak")
  /\ UNCHANGED <<lock, brk, config, mine, seen, broke, calls, crashes, orderly>>
Recheck(p) ==
  /\ Step(p, "recheck", IF lock # None /\ lock.text = seen[p].text THEN "remove" ELSE "unbreak")
  /\ UNCHANGED <<lock, brk, config, mine, seen, broke, calls, crashes, orderly>>

\* A lock that is gone by now throws, after the break file is removed.
Remove(p) ==
  /\ Step(p, "remove", "unbreak")
  /\ lock' = None
  /\ broke' = [broke EXCEPT ![p] = lock = None]
  /\ UNCHANGED <<brk, config, mine, seen, calls, crashes, orderly>>

\* The break file's own removal throws as well when it is gone.
Unbreak(p) ==
  /\ Step(p, "unbreak", IF broke[p] \/ brk = None THEN "failed" ELSE "open")
  /\ brk' = None
  /\ UNCHANGED <<lock, config, mine, seen, broke, calls, crashes, orderly>>

\* Another breaker's file: inspected, and removed when that breaker is dead.
StatBreak(p) ==
  /\ Step(p, "statBreak", IF brk = None THEN "open" ELSE "inspectBreak")
  /\ seen' = [seen EXCEPT ![p].old = brk # None /\ brk.old]
  /\ UNCHANGED <<lock, brk, config, mine, broke, calls, crashes, orderly>>

InspectBreak(p) ==
  /\ Step(p, "inspectBreak", IF brk # None /\ Stale(p, brk) THEN "clearBreak" ELSE "open")
  /\ UNCHANGED <<lock, brk, config, mine, seen, broke, calls, crashes, orderly>>

ClearBreakNever(p) ==
  /\ Step(p, "clearBreak", "open")
  /\ UNCHANGED <<lock, brk, config, mine, seen, broke, calls, crashes, orderly>>
ClearBreak(p) ==
  /\ Step(p, "clearBreak", "open")
  /\ brk' = None
  /\ UNCHANGED <<lock, config, mine, seen, broke, calls, crashes, orderly>>

-----------------------------------------------------------------------------
(* Deaths, recycled pids, time.                                            *)

Crash(p) ==
  /\ pc[p] \notin Ended \cup {"out"} /\ crashes < MaxCrashes
  /\ pc' = [pc EXCEPT ![p] = "dead"]
  /\ crashes' = crashes + 1
  /\ orderly' = (orderly /\ pc[p] \notin {"write"} \cup Breaking)
  /\ UNCHANGED <<lock, brk, config, mine, seen, broke, calls>>

Recycle(p) ==
  /\ Step(p, "dead", "out")
  /\ broke' = [broke EXCEPT ![p] = FALSE]
  /\ orderly' = FALSE
  /\ UNCHANGED <<lock, brk, config, mine, seen, calls, crashes>>

\* A file whose creator died before it wrote its pid outlives the grace; a
\* live process writes well within it.
Age ==
  \/ /\ lock # None /\ lock.text = None /\ ~lock.old /\ pc[lock.by] # "write"
     /\ lock' = [lock EXCEPT !.old = TRUE]
     /\ UNCHANGED <<brk, config, pc, mine, seen, broke, calls, crashes, orderly>>
  \/ /\ brk # None /\ brk.text = None /\ ~brk.old /\ pc[brk.by] # "writeBreak"
     /\ brk' = [brk EXCEPT !.old = TRUE]
     /\ UNCHANGED <<lock, config, pc, mine, seen, broke, calls, crashes, orderly>>

\* The next system call of a process.
Goes(p) ==
  \/ Open(p) \/ WritePid(p) \/ ReadConfig(p) \/ SaveConfig(p) \/ NoChange(p)
  \/ CheckOwn(p) \/ Unlink(p)
  \/ Stat(p) \/ Inspect(p)
  \/ OpenBreak(p) \/ WriteBreak(p) \/ Recheck(p) \/ Remove(p) \/ Unbreak(p)
  \/ StatBreak(p) \/ InspectBreak(p) \/ ClearBreak(p)

Next ==
  \/ \E p \in Proc : Start(p) \/ Goes(p) \/ GiveUp(p) \/ Crash(p) \/ Recycle(p)
  \/ Age

Spec == Init /\ [][Next]_vars

\* The kernel schedules every live process, and time passes: an empty file ages,
\* and a process that keeps finding the lock held reaches its deadline.
FairSpec ==
  /\ Spec
  /\ \A p \in Proc : WF_vars(Goes(p)) /\ SF_vars(GiveUp(p))
  /\ WF_vars(Age)

-----------------------------------------------------------------------------

TypeOK ==
  /\ lock \in File \cup {None} /\ brk \in File \cup {None}
  /\ config \in Configs
  /\ pc \in [Proc -> Pc]
  /\ mine \in [Proc -> Configs]
  /\ seen \in [Proc -> [text: Proc \cup {None}, old: BOOLEAN]]
  /\ broke \in [Proc -> BOOLEAN]
  /\ calls \in Nat
  /\ crashes \in Nat
  /\ orderly \in BOOLEAN

\* "Exactly one process wins across terminals": no two processes are between
\* their lock's creation and its release, stale locks broken in between.  A
\* death that leaves an empty lock or a break file, and a reused pid, are what
\* the argument beside breakStaleLock does not reckon with (orderly).
HoldsAlone ==
  orderly => \A p, q \in Proc : pc[p] \in Holding /\ pc[q] \in Holding => p = q

\* A write of .vibecarbon.json is one command's change of what is on disk:
\* nothing another command saved is lost (HaPair's Saved).
NoUpdateLost ==
  [][orderly /\ config' # config =>
       \E p \in Proc : config' = [config EXCEPT ![p] = @ + 1]]_vars

\* No waiter trips over another one's break: what a breaker found is there
\* until it removes it, so no command fails with ENOENT.
BreakersDoNotCollide == orderly => \A p \in Proc : pc[p] # "failed"

\* The break file of a dead breaker whose pid went to another program.
BreakerRecycled == brk # None /\ brk.text # None /\ pc[brk.text] = "out"

\* A lock left behind never blocks for good, wherever its holder or its
\* breaker died: a waiting command gets the lock, or it ends.  The exception is
\* a dead breaker whose pid was reused: the deadline is not looked at while the
\* lock is stale and its break file is not.
GetsThrough ==
  \A p \in Proc :
    pc[p] \in Waiting \cup Breaking \cup Clearing
      ~> pc[p] \in Holding \cup Ended \/ BreakerRecycled
=============================================================================
