---------------------------- MODULE HaPairProofs ----------------------------
(***************************************************************************)
(* The safety properties of HaSystem for any two clusters, identifiers,    *)
(* transactions and bounds, from one inductive invariant, PairInv: what    *)
(* the two roles owe each other between commands (RolesKept, HealthyKept), *)
(* what a journal stands for (JournalKept), and what a running failover,   *)
(* abort or deploy has established by the step it is at (FailoverKept,     *)
(* AbortKept, DeployKept).  A step is described by what it does to each    *)
(* side: most are quiet, and only their pc matters.  With no cluster lost,  *)
(* two more parts (SwitchoverKept, CopiesKept) give the step simulation of *)
(* OneWriter.                                                              *)
(***************************************************************************)
EXTENDS HaSystemProofs

\* The intent and the live role of s are primary: a promote of s, or a restart
\* of its database, comes up archiving.
Armed(s) == node[s].intent = "primary" /\ node[s].role = "primary"

\* No promote was sent since the pair was last at rest: no failover is in
\* flight, or the running one journaled it and has sent nothing yet.
Untouched == cfg.journal = None \/ (pc \in BeforeIssue /\ ~fo.journaled)

\* What a promote makes of the standby: the primary's database, one timeline on.
OneOn == [side |-> Standby, id |-> node[Primary].id, tl |-> node[Primary].tl + 1]

\* Between a proven fence and the promote.
Proving ==
  {"capture", "replayed", "reseed", "source", "copy", "unfenced", "arm", "disarm",
   "journal", "send", "issue", "poll"}
Proven == {"caughtUp", "reseeded", "level"}

RolesKept ==
  /\ ~node[Primary].rec /\ ~node[Primary].retired
  /\ cfg.marker \in {Primary, None}
  /\ node[Primary].fence # "off" => cfg.marker = Primary
  /\ node[Standby].retired => cfg.swapped
  /\ node[Standby].rec \/ ~cfg.swapped => node[Standby].fence = "off"
  /\ node[Standby].rec => /\ node[Standby].id = node[Primary].id
                          /\ node[Standby].tl = node[Primary].tl
  /\ node[Standby].db = "zero" => ~node[Standby].pending
  /\ link => node[Standby].rec /\ node[Standby].data \subseteq node[Primary].data
  /\ cfg.journal # None => ~cfg.swapped
  /\ cfg.swapped => Armed(Primary)
  /\ ~cfg.degraded => node[Standby].id = node[Primary].id
  /\ cfg.discard # None =>
       cfg.discard = OneOn /\ (node[Standby].rec \/ cfg.discard = GivenUp(Standby))

\* A pair recorded healthy has a replica and a primary that archives.
HealthyKept == ~cfg.degraded /\ Untouched => node[Standby].rec /\ Armed(Primary)

\* Under a journal the standby is a replica, or was promoted from one; what may
\* promote it is armed; and a planned one leaves the primary fenced, or nothing
\* to promote.
JournalKept ==
  cfg.journal # None =>
    /\ ~node[Standby].rec => GivenUp(Standby) = OneOn
    /\ (node[Standby].pending \/ ~node[Standby].rec) =>
         Armed(Standby) \/ node[Standby].db = "zero"
    /\ cfg.journal.lsn =>
         \/ node[Primary].fence = "on"
         \/ node[Standby].rec /\ ~node[Standby].pending
         \/ node[Standby].db = "zero"
    /\ cfg.journal.lsn /\ cfg.journal.proof \in Proven /\ node[Standby].pending =>
         node[Primary].data \subseteq node[Standby].data

FailoverKept ==
  /\ pc \in FailoverPc \ {"retire"} => ~cfg.swapped
  /\ pc = "retire" => cfg.swapped
  /\ fo.resume => fo.journaled
  /\ fo.journaled /\ pc # "retire" => cfg.journal # None
  /\ pc \in {"disarm", "unfence", "restart", "clear"} => ~fo.journaled
  /\ pc \in BeforeIssue /\ ~fo.journaled => node[Standby].rec
  /\ pc \in {"fence", "terminate"} => cfg.marker = Primary
  /\ pc \in Fencings \cup {"capture", "replayed"} => fo.planned
  /\ pc \in {"ready", "lift", "check"} \cup Fencings => ~fo.lsn
  /\ fo.lsn => fo.planned
  /\ pc \in Proving /\ fo.planned => node[Primary].fence = "on"
  /\ pc \in Proving /\ fo.lsn /\ fo.proof \in Proven =>
       node[Primary].data \subseteq node[Standby].data
  /\ pc \in {"journal", "send", "issue"} => Armed(Standby)
  /\ pc \in {"send", "issue", "poll"} =>
       /\ cfg.journal # None
       /\ cfg.journal.lsn = fo.lsn /\ cfg.journal.proof = fo.proof
  /\ pc \in AfterPromote \/ (pc \in Fencings /\ fo.resume) =>
       cfg.journal # None /\ Armed(Standby)
  /\ pc \notin FailoverPc => fo = NoFailover

AbortKept ==
  /\ pc \in AbortPc => cfg.journal # None
  /\ pc \in AbortPc \ {"lineage", "stop"} => node[Standby].db = "zero"
  /\ ab.lifted => node[Primary].fence = "off"
  /\ ab.reading # None => ab.reading = GivenUp(Standby) /\ ~node[Standby].rec
  /\ pc \notin AbortPc => ab = NoAbort

DeployKept ==
  /\ pc \in DeployPc => cfg.journal = None /\ (de.retired <=> cfg.swapped)
  /\ pc = "refence" => cfg.swapped
  /\ pc \in DeployPc \ {"entry", "refence", "clusters"} => Armed(Primary)
  /\ pc = "stream" \/ de.sysid # None => node[Standby].rec
  /\ pc \in {"writable", "save"} /\ de.retired /\ ~de.kept =>
       node[Standby].rec /\ ~node[Standby].retired
  /\ pc = "stage" => ~PromotedOutside
  /\ pc \notin DeployPc => de = NoDeploy

PairInv ==
  /\ RolesKept /\ HealthyKept /\ JournalKept
  /\ FailoverKept /\ AbortKept /\ DeployKept

-----------------------------------------------------------------------------
(* What a step does to one cluster.                                        *)

\* m, a later state of cluster n, has another network, workload or role at most.
Alike(n, m) ==
  /\ m.rec = n.rec /\ m.retired = n.retired /\ m.fence = n.fence
  /\ m.db = n.db /\ m.pending = n.pending
  /\ m.id = n.id /\ m.tl = n.tl /\ m.data = n.data

\* Nor another role.
Quiet(n, m) == Alike(n, m) /\ m.intent = n.intent /\ m.role = n.role

\* Scaling, an outage and a drained tier are quiet.
LEMMA QuietUpdates ==
  ASSUME NEW n \in Node
  PROVE  /\ Quiet(n, n)
         /\ \A b \in BOOLEAN, c \in BOOLEAN :
              Quiet(n, ScaledDown(n, b, c)) /\ Quiet(n, ScaledUp(n, b, c))
         /\ Quiet(n, [n EXCEPT !.app = "zero"])
         /\ \A x : Quiet(n, [n EXCEPT !.net = x])
BY DEF Quiet, Alike, Node, ScaledDown, ScaledUp

\* setK8sWalgRole writes the intent, and the live role where it can.
LEMMA RoleUpdates ==
  ASSUME NEW n \in Node, NEW r \in Role, NEW live \in BOOLEAN
  PROVE  /\ Alike(n, WithRole(n, r, live))
         /\ WithRole(n, r, live).intent = r
         /\ WithRole(n, r, live).role \in {r, n.role}
         /\ live => WithRole(n, r, live).role = r
BY DEF Alike, Node, Role, WithRole

\* A database start applies the intent and what was set, and forgets a promote.
LEMMA RestartUpdates ==
  ASSUME NEW n \in Node
  PROVE  /\ Restarted(n).role = n.intent /\ Restarted(n).intent = n.intent
         /\ ~Restarted(n).pending
         /\ Restarted(n).fence = (IF n.fence = "set" THEN "on" ELSE n.fence)
         /\ Restarted(n).rec = n.rec /\ Restarted(n).retired = n.retired
         /\ Restarted(n).db = n.db /\ Restarted(n).id = n.id
         /\ Restarted(n).tl = n.tl /\ Restarted(n).data = n.data
BY DEF Restarted, Node

\* A reseed makes a writable copy of m in recovery, with n's intent.
LEMMA ReseedUpdates ==
  ASSUME NEW n \in Node, NEW m \in Node
  PROVE  /\ Reseeded(n, m).rec /\ ~Reseeded(n, m).pending
         /\ Reseeded(n, m).fence = "off" /\ Reseeded(n, m).retired = n.retired
         /\ Reseeded(n, m).db = n.db /\ Reseeded(n, m).id = m.id
         /\ Reseeded(n, m).tl = m.tl /\ Reseeded(n, m).data = m.data
         /\ Reseeded(n, m).intent = n.intent /\ Reseeded(n, m).role = n.intent
<1>1. Restarted(n) \in Node
  BY NodeUpdates
<1>2. Restarted(n).pending = FALSE
  BY DEF Restarted, Node
<1> QED
  BY <1>1, <1>2, RestartUpdates DEF Reseeded, Node

\* The retirement fence marks the side, scales it down and disarms it.
LEMMA RetireUpdates ==
  ASSUME Shared, NEW s \in Side, Retire(s)
  PROVE  /\ \A t \in Side \ {s} : node'[t] = node[t]
         /\ node'[s].rec = node[s].rec /\ node'[s].fence = node[s].fence
         /\ node'[s].db = node[s].db /\ node'[s].pending = node[s].pending
         /\ node'[s].id = node[s].id /\ node'[s].tl = node[s].tl
         /\ node'[s].data = node[s].data
<1> DEFINE Same(n, m) == /\ m.rec = n.rec /\ m.fence = n.fence /\ m.db = n.db
                         /\ m.pending = n.pending /\ m.id = n.id /\ m.tl = n.tl
                         /\ m.data = n.data
<1>1. node[s] \in Node /\ Running(s) \in BOOLEAN
  BY SharedFacts
<1>2. \A n, m, k : Same(n, m) /\ Same(m, k) => Same(n, k)
  OBVIOUS
<1>3. \A n, m : Alike(n, m) => Same(n, m)
  BY DEF Alike
<1>4. \A n \in Node, b \in BOOLEAN :
        /\ [n EXCEPT !.retired = b] \in Node
        /\ [n EXCEPT !.retired = IF b THEN TRUE ELSE @] \in Node
        /\ Same(n, [n EXCEPT !.retired = b])
        /\ Same(n, [n EXCEPT !.retired = IF b THEN TRUE ELSE @])
  <2> TAKE n \in Node, b \in BOOLEAN
  <2>1. \A c \in BOOLEAN :
          [n EXCEPT !.retired = c] \in Node /\ Same(n, [n EXCEPT !.retired = c])
    BY DEF Node
  <2>2. (IF b THEN TRUE ELSE n.retired) \in BOOLEAN
    BY DEF Node
  <2> HIDE DEF Same
  <2> QED
    BY <2>1, <2>2
<1>5. \A n \in Node, b \in BOOLEAN : Same(n, WithRole(n, "standby", b))
  BY <1>3, RoleUpdates DEF Role
<1>6. \A n \in Node, b \in BOOLEAN : Same(n, ScaledDown(n, b, b))
  BY <1>3, QuietUpdates DEF Quiet
<1>7. \A n : Set(s, n) /\ Same(node[s], n) =>
        Same(node[s], node'[s]) /\ \A t \in Side \ {s} : node'[t] = node[t]
  BY DEF Set, Shared
<1>8. CASE Set(s, [ScaledDown(WithRole(node[s], "standby", TRUE), TRUE, TRUE)
                        EXCEPT !.retired = TRUE])
  <2> DEFINE named == WithRole(node[s], "standby", TRUE)
             down == ScaledDown(named, TRUE, TRUE)
             marked == [down EXCEPT !.retired = TRUE]
  <2>1. named \in Node /\ Same(node[s], named)
    BY <1>1, <1>5, NodeUpdates DEF Role
  <2>2. down \in Node /\ Same(named, down)
    <3> HIDE DEF named, Same
    <3> QED BY <2>1, <1>6, NodeUpdates
  <2>3. Same(down, marked)
    <3> HIDE DEF down, Same
    <3> QED BY <2>2, <1>4
  <2>4. Set(s, marked)
    BY <1>8
  <2> HIDE DEF named, down, marked, Same
  <2>5. Same(node[s], marked)
    BY <2>1, <2>2, <2>3, <1>2
  <2>6. Same(node[s], node'[s]) /\ \A t \in Side \ {s} : node'[t] = node[t]
    BY <2>4, <2>5, <1>7
  <2> QED
    BY <2>6 DEF Same
<1>9. CASE \E markers, workloads, role \in BOOLEAN :
             LET zeroed == ScaledDown(node[s], workloads, workloads)
                 marked == [zeroed EXCEPT !.retired = IF markers THEN TRUE ELSE @]
             IN Set(s, IF role THEN WithRole(marked, "standby", Running(s)) ELSE marked)
  <2>1. PICK markers \in BOOLEAN, workloads \in BOOLEAN, role \in BOOLEAN :
          LET zeroed == ScaledDown(node[s], workloads, workloads)
              marked == [zeroed EXCEPT !.retired = IF markers THEN TRUE ELSE @]
          IN Set(s, IF role THEN WithRole(marked, "standby", Running(s)) ELSE marked)
    BY <1>9
  <2> DEFINE zeroed == ScaledDown(node[s], workloads, workloads)
             marked == [zeroed EXCEPT !.retired = IF markers THEN TRUE ELSE @]
             named == WithRole(marked, "standby", Running(s))
  <2>2. zeroed \in Node /\ Same(node[s], zeroed)
    BY <1>1, <1>6, NodeUpdates
  <2>3. marked \in Node /\ Same(zeroed, marked)
    <3> HIDE DEF zeroed, Same
    <3> QED BY <2>2, <1>4
  <2>4. Same(marked, named)
    <3> HIDE DEF marked, Same
    <3> QED BY <2>3, <1>1, <1>5
  <2>5. Set(s, marked) \/ Set(s, named)
    BY <2>1
  <2> HIDE DEF zeroed, marked, named, Same
  <2>6. Same(node[s], marked) /\ Same(node[s], named)
    BY <2>2, <2>3, <2>4, <1>2
  <2>7. Same(node[s], node'[s]) /\ \A t \in Side \ {s} : node'[t] = node[t]
    BY <2>5, <2>6, <1>7
  <2> QED
    BY <2>7 DEF Same
<1> QED
  BY <1>8, <1>9 DEF Retire

-----------------------------------------------------------------------------
(* What a step does to the pair.                                           *)

\* The two roles, and what the types say of both clusters.
LEMMA PairFacts ==
  ASSUME Shared
  PROVE  /\ Primary \in Side /\ Standby \in Side /\ Primary # Standby
         /\ \A s \in Side : s = Primary \/ s = Standby
         /\ node[Primary] \in Node /\ node[Standby] \in Node
         /\ cfg \in Config /\ node \in [Side -> Node] /\ DOMAIN node = Side
<1>1. Primary \in Side /\ Standby \in Side /\ Primary # Standby
  BY SharedFacts, Sides DEF Standby, Primary
<1>2. \A s \in Side : s = Primary \/ s = Standby
  BY SharedFacts, Sides DEF Standby, Primary
<1> QED
  BY <1>1, <1>2, SharedFacts DEF Shared

\* Each half of a step that writes one side.
LEMMA SetOne ==
  ASSUME Shared, NEW s \in Side, NEW n, Set(s, n)
  PROVE  node'[s] = n /\ \A t \in Side \ {s} : node'[t] = node[t]
BY DEF Set, Shared

\* The sides keep their roles while ha.primary is not rewritten.
LEMMA SameRoles ==
  cfg'.primary = cfg.primary => Primary' = Primary /\ Standby' = Standby
BY DEF Primary, Standby

\* Scaling is quiet on both sides.
LEMMA ScaleQuiet ==
  ASSUME Shared, NEW s \in Side, Scale(s, ScaledDown) \/ Scale(s, ScaledUp)
  PROVE  \A t \in Side : Quiet(node[t], node'[t])
<1>1. PICK tier \in BOOLEAN, addons \in BOOLEAN :
        \/ Set(s, ScaledDown(node[s], tier, addons))
        \/ Set(s, ScaledUp(node[s], tier, addons))
  BY DEF Scale
<1>2. \A t \in Side : node[t] \in Node
  BY SharedFacts
<1>3. PICK n : Set(s, n) /\ Quiet(node[s], n)
  BY <1>1, <1>2, QuietUpdates
<1> QED
  BY <1>2, <1>3, SetOne, QuietUpdates

QuietStep ==
  /\ \A s \in Side : Quiet(node[s], node'[s])
  /\ cfg' = cfg /\ (link' => link)

\* The same facts of the two sides, a step later.
QuietView ==
  /\ Primary' = Primary /\ Standby' = Standby
  /\ Quiet(node[Primary], node'[Primary]) /\ Quiet(node[Standby], node'[Standby])
  /\ cfg' = cfg

LEMMA QuietPair ==
  ASSUME Shared, QuietStep
  PROVE  QuietView /\ (link' => link)
BY PairFacts, SameRoles DEF QuietStep, QuietView

LEMMA QuietKept ==
  ASSUME Shared, QuietStep, RolesKept, JournalKept
  PROVE  RolesKept' /\ JournalKept'
<1>1. QuietView /\ (link' => link)
  BY QuietPair
<1>2. Armed(Primary)' = Armed(Primary) /\ Armed(Standby)' = Armed(Standby)
  BY <1>1 DEF QuietView, Quiet, Armed
<1>3. GivenUp(Standby)' = GivenUp(Standby) /\ OneOn' = OneOn
  BY <1>1 DEF QuietView, Quiet, Alike, GivenUp, OneOn
<1>4. RolesKept'
  BY <1>1, <1>2, <1>3 DEF RolesKept, QuietView, Quiet, Alike
<1>5. JournalKept'
  BY <1>1, <1>2, <1>3 DEF JournalKept, QuietView, Quiet, Alike
<1> QED
  BY <1>4, <1>5

\* While no command moves, a quiet step establishes and loses nothing.
LEMMA QuietWorld ==
  ASSUME Shared, QuietStep, PairInv, UNCHANGED <<pc, fo, ab, de>>
  PROVE  PairInv'
<1>1. QuietView /\ (link' => link)
  BY QuietPair
<1>2. Armed(Primary)' = Armed(Primary) /\ Armed(Standby)' = Armed(Standby)
  BY <1>1 DEF QuietView, Quiet, Armed
<1>3. GivenUp(Standby)' = GivenUp(Standby) /\ PromotedOutside' = PromotedOutside
  BY <1>1 DEF QuietView, Quiet, Alike, GivenUp, PromotedOutside, NotNewer
<1>4. RolesKept' /\ JournalKept'
  BY QuietKept DEF PairInv
<1>5. HealthyKept'
  BY <1>1, <1>2 DEF PairInv, HealthyKept, Untouched, QuietView, Quiet, Alike
<1>6. FailoverKept'
  BY <1>1, <1>2 DEF PairInv, FailoverKept, QuietView, Quiet, Alike
<1>7. AbortKept'
  BY <1>1, <1>3 DEF PairInv, AbortKept, QuietView, Quiet, Alike
<1>8. DeployKept'
  BY <1>1, <1>2, <1>3 DEF PairInv, DeployKept, QuietView, Quiet, Alike
<1> QED
  BY <1>4, <1>5, <1>6, <1>7, <1>8 DEF PairInv

\* A commit grows the copy of a side that is out of recovery; never that of a
\* fenced primary, nor one the standby's data was proven against.
LEMMA CommitKept ==
  ASSUME Shared, PromoteOwned, PairInv, UNCHANGED <<pc, fo, ab, de>>,
         NEW s \in Side, NEW w \in Write, Commit(s, w)
  PROVE  PairInv'
<1>1. /\ Primary' = Primary /\ Standby' = Standby
      /\ UNCHANGED <<cfg, link>>
  BY SameRoles DEF Commit
<1> DEFINE Grown(n, m) ==
      /\ m.rec = n.rec /\ m.retired = n.retired /\ m.fence = n.fence
      /\ m.db = n.db /\ m.pending = n.pending /\ m.id = n.id /\ m.tl = n.tl
      /\ m.intent = n.intent /\ m.role = n.role
      /\ n.data \subseteq m.data
      /\ m.data # n.data => ~n.rec /\ n.fence # "on"
<1>2. \A t \in Side : Grown(node[t], node'[t])
  <2>1. node[s] \in Node /\ Set(s, [node[s] EXCEPT !.data = @ \cup {w}])
    BY SharedFacts DEF Commit
  <2>2. ~node[s].rec /\ node[s].fence # "on"
    BY DEF Commit, Writes, TakesWrites
  <2>3. Grown(node[s], [node[s] EXCEPT !.data = @ \cup {w}])
    BY <2>1, <2>2 DEF Node
  <2>4. \A t \in Side : Grown(node[t], node[t])
    OBVIOUS
  <2> HIDE DEF Grown
  <2> QED
    BY <2>1, <2>3, <2>4, SetOne
<1>3. Grown(node[Primary], node'[Primary]) /\ Grown(node[Standby], node'[Standby])
  BY <1>2, PairFacts
<1> HIDE DEF Grown
<1>4. Armed(Primary)' = Armed(Primary) /\ Armed(Standby)' = Armed(Standby)
  BY <1>1, <1>3 DEF Grown, Armed
<1>5. /\ GivenUp(Standby)' = GivenUp(Standby) /\ OneOn' = OneOn
      /\ PromotedOutside' = PromotedOutside
  BY <1>1, <1>3 DEF Grown, GivenUp, OneOn, PromotedOutside, NotNewer
<1>6. node[Standby].rec => node'[Standby].data = node[Standby].data
  BY <1>3 DEF Grown
<1>7. RolesKept'
  BY <1>1, <1>3, <1>4, <1>5, <1>6 DEF PairInv, RolesKept, Grown
<1>8. HealthyKept'
  BY <1>1, <1>3, <1>4 DEF PairInv, HealthyKept, Untouched, Grown
<1>9. JournalKept'
  <2>1. cfg.journal # None /\ node[Standby].pending /\ cfg.journal.lsn
          => node[Primary].fence = "on"
    BY DEF PairInv, JournalKept, RolesKept
  <2>2. node[Primary].fence = "on" => node'[Primary].data = node[Primary].data
    BY <1>3 DEF Grown
  <2>3. ~node[Standby]'.rec => GivenUp(Standby)' = GivenUp(Standby)
    BY <1>5
  <2> QED
    BY <1>1, <1>3, <1>4, <1>5, <2>1, <2>2 DEF PairInv, JournalKept, Grown
<1>10. FailoverKept'
  <2>1. node[Primary].fence = "on" => node'[Primary].data = node[Primary].data
    BY <1>3 DEF Grown
  <2> QED
    BY <1>1, <1>3, <1>4, <2>1 DEF PairInv, FailoverKept, Grown
<1>11. AbortKept'
  BY <1>1, <1>3, <1>5 DEF PairInv, AbortKept, Grown
<1>12. DeployKept'
  BY <1>1, <1>3, <1>4, <1>5 DEF PairInv, DeployKept, Grown
<1> QED
  BY <1>7, <1>8, <1>9, <1>10, <1>11, <1>12 DEF PairInv

\* Only the standby replicates, and only from the primary.
LEMMA ReplicateKept ==
  ASSUME Shared, PairInv, UNCHANGED <<pc, fo, ab, de>>, NEW s \in Side, Replicate(s)
  PROVE  PairInv'
<1>1. s = Standby /\ Other(s) = Primary /\ node[s].rec /\ link
  <2>1. s = Standby
    BY PairFacts DEF Replicate, PairInv, RolesKept
  <2> QED
    BY <2>1, Sides, PairFacts DEF Replicate
<1>2. /\ Primary' = Primary /\ Standby' = Standby
      /\ UNCHANGED <<cfg, link>>
  BY SameRoles DEF Replicate
<1>3. /\ node'[Primary] = node[Primary]
      /\ node'[Standby] = [node[Standby] EXCEPT !.data = node[Primary].data,
                                                !.tl = node[Primary].tl]
  BY <1>1, SetOne, PairFacts DEF Replicate
<1>4. LET n == node[Standby]
          m == node'[Standby]
      IN /\ m.rec = n.rec /\ m.retired = n.retired /\ m.fence = n.fence
         /\ m.db = n.db /\ m.pending = n.pending /\ m.id = n.id /\ m.tl = n.tl
         /\ m.intent = n.intent /\ m.role = n.role
         /\ m.data = node[Primary].data
  <2>1. node[Primary].tl = node[Standby].tl
    BY <1>1 DEF PairInv, RolesKept
  <2> QED
    BY <1>3, <2>1, PairFacts DEF Node
<1>5. Armed(Primary)' = Armed(Primary) /\ Armed(Standby)' = Armed(Standby)
  BY <1>2, <1>3, <1>4 DEF Armed
<1>6. /\ GivenUp(Standby)' = GivenUp(Standby) /\ OneOn' = OneOn
      /\ PromotedOutside' = PromotedOutside
  BY <1>2, <1>3, <1>4 DEF GivenUp, OneOn, PromotedOutside, NotNewer
<1>7. RolesKept'
  BY <1>2, <1>3, <1>4, <1>5, <1>6 DEF PairInv, RolesKept
<1>8. HealthyKept'
  BY <1>2, <1>3, <1>4, <1>5 DEF PairInv, HealthyKept, Untouched
<1>9. JournalKept'
  BY <1>2, <1>3, <1>4, <1>5, <1>6 DEF PairInv, JournalKept
<1>10. FailoverKept'
  BY <1>2, <1>3, <1>4, <1>5 DEF PairInv, FailoverKept
<1>11. AbortKept'
  BY <1>2, <1>3, <1>4, <1>6 DEF PairInv, AbortKept
<1>12. DeployKept'
  BY <1>2, <1>3, <1>4, <1>5, <1>6 DEF PairInv, DeployKept
<1> QED
  BY <1>7, <1>8, <1>9, <1>10, <1>11, <1>12 DEF PairInv

\* A promote lands on the standby, under a journal, as its copy one timeline on.
LEMMA PromoteLandsKept ==
  ASSUME Shared, PromoteOwned, PairInv, UNCHANGED <<pc, fo, ab, de>>,
         NEW s \in Side, PromoteLands(s)
  PROVE  PairInv'
<1>1. s = Standby /\ cfg.journal # None /\ node[s].rec /\ node[s].db # "zero"
  BY DEF PromoteLands, PromoteOwned, Running, PairInv, RolesKept
<1>2. /\ Primary' = Primary /\ Standby' = Standby
      /\ cfg' = cfg /\ ~link'
  BY SameRoles DEF PromoteLands
<1>3. /\ node'[Primary] = node[Primary]
      /\ node'[Standby] = [node[Standby] EXCEPT !.pending = FALSE, !.rec = FALSE,
                                                !.tl = @ + 1]
  BY <1>1, SetOne, PairFacts DEF PromoteLands
<1>4. LET n == node[Standby]
          m == node'[Standby]
      IN /\ ~m.rec /\ ~m.pending /\ m.retired = n.retired /\ m.fence = n.fence
         /\ m.db = n.db /\ m.id = n.id /\ m.tl = n.tl + 1
         /\ m.intent = n.intent /\ m.role = n.role /\ m.data = n.data
  BY <1>3, PairFacts DEF Node
<1>5. Armed(Primary)' = Armed(Primary) /\ Armed(Standby)' = Armed(Standby)
  BY <1>2, <1>3, <1>4 DEF Armed
<1>6. GivenUp(Standby)' = OneOn' /\ OneOn' = OneOn
  <2>1. node[Standby].id = node[Primary].id /\ node[Standby].tl = node[Primary].tl
    BY <1>1 DEF PairInv, RolesKept
  <2> QED
    BY <1>2, <1>3, <1>4, <2>1 DEF GivenUp, OneOn
<1>7. node[Standby].pending /\ ~cfg.swapped
  BY <1>1 DEF PromoteLands, PairInv, RolesKept
<1>8. Armed(Standby)
  BY <1>1, <1>7 DEF PairInv, JournalKept
<1>9. RolesKept'
  BY <1>1, <1>2, <1>3, <1>4, <1>5, <1>6, <1>7 DEF PairInv, RolesKept
<1>10. ~Untouched /\ ~Untouched'
  BY <1>1, <1>2, <1>7 DEF Untouched, PromoteOwned
<1>11. HealthyKept'
  BY <1>10 DEF HealthyKept
<1>12. JournalKept'
  BY <1>1, <1>2, <1>3, <1>4, <1>5, <1>6, <1>7, <1>8 DEF PairInv, JournalKept
<1>13. FailoverKept'
  BY <1>1, <1>2, <1>3, <1>4, <1>5, <1>10 DEF PairInv, FailoverKept, Untouched
<1>14. AbortKept'
  BY <1>1, <1>2, <1>3, <1>4 DEF PairInv, AbortKept, RolesKept
<1>15. DeployKept'
  <2>1. pc \notin DeployPc /\ de = NoDeploy
    BY <1>1 DEF PairInv, DeployKept
  <2> QED
    BY <2>1, <1>1 DEF PairInv, DeployKept, DeployPc, NoDeploy
<1> QED
  BY <1>9, <1>11, <1>12, <1>13, <1>14, <1>15 DEF PairInv

\* A cluster that boots again applies the intent of its side.
LEMMA ReturnKept ==
  ASSUME Shared, PairInv, UNCHANGED <<pc, fo, ab, de>>, NEW s \in Side, Return(s)
  PROVE  PairInv'
<1> DEFINE Booted(n, m) ==
      /\ m.rec = n.rec /\ m.retired = n.retired
      /\ m.fence \in {n.fence, "on"} /\ (m.fence = "off" <=> n.fence = "off")
      /\ m.db = n.db /\ (m.pending => n.pending)
      /\ m.id = n.id /\ m.tl = n.tl /\ m.data = n.data
      /\ m.intent = n.intent /\ m.role \in {n.role, n.intent}
<1>1. /\ Primary' = Primary /\ Standby' = Standby
      /\ UNCHANGED <<cfg, link>>
  BY SameRoles DEF Return
<1>2. \A t \in Side : Booted(node[t], node'[t])
  <2>1. \A n \in Node : \A x : Quiet(n, [n EXCEPT !.net = x])
    BY QuietUpdates
  <2>2. node[s] \in Node /\ Restarted(node[s]) \in Node
    BY SharedFacts, NodeUpdates
  <2>3. PICK n \in {node[s], Restarted(node[s])} : Set(s, [n EXCEPT !.net = "up"])
    BY DEF Return
  <2>4. Booted(node[s], n)
    BY <2>2, <2>3, RestartUpdates DEF Node
  <2>5. Quiet(n, [n EXCEPT !.net = "up"])
    BY <2>1, <2>2, <2>3
  <2>6. Booted(node[s], [n EXCEPT !.net = "up"])
    BY <2>4, <2>5 DEF Quiet, Alike
  <2>7. \A t \in Side : Booted(node[t], node[t])
    OBVIOUS
  <2> HIDE DEF Booted
  <2> QED
    BY <2>3, <2>6, <2>7, SetOne
<1>3. Booted(node[Primary], node'[Primary]) /\ Booted(node[Standby], node'[Standby])
  BY <1>2, PairFacts
<1> HIDE DEF Booted
<1>4. (Armed(Primary) => Armed(Primary)') /\ (Armed(Standby) => Armed(Standby)')
  BY <1>1, <1>3 DEF Booted, Armed
<1>5. /\ GivenUp(Standby)' = GivenUp(Standby) /\ OneOn' = OneOn
      /\ PromotedOutside' = PromotedOutside
  BY <1>1, <1>3 DEF Booted, GivenUp, OneOn, PromotedOutside, NotNewer
<1>6. RolesKept'
  BY <1>1, <1>3, <1>4, <1>5 DEF PairInv, RolesKept, Booted
<1>7. HealthyKept'
  BY <1>1, <1>3, <1>4 DEF PairInv, HealthyKept, Untouched, Booted
<1>8. JournalKept'
  BY <1>1, <1>3, <1>4, <1>5 DEF PairInv, JournalKept, Booted
<1>9. FailoverKept'
  BY <1>1, <1>3, <1>4 DEF PairInv, FailoverKept, Booted
<1>10. AbortKept'
  BY <1>1, <1>3, <1>5 DEF PairInv, AbortKept, Booted
<1>11. DeployKept'
  BY <1>1, <1>3, <1>4, <1>5 DEF PairInv, DeployKept, Booted
<1> QED
  BY <1>6, <1>7, <1>8, <1>9, <1>10, <1>11 DEF PairInv

\* Nothing the clusters, the network and the app do by themselves breaks it.
LEMMA WorldKept ==
  ASSUME Shared, PromoteOwned, PairInv, World, UNCHANGED locals
  PROVE  PairInv'
<1>1. pc' = pc /\ UNCHANGED <<fo, ab, de>>
  BY WorldCalm DEF locals
<1>2. CASE \E s \in Side, w \in Write : Commit(s, w)
  BY <1>1, <1>2, CommitKept
<1>3. ASSUME NEW s \in Side, Replicate(s) PROVE PairInv'
  BY <1>1, <1>3, ReplicateKept
<1>4. ASSUME NEW s \in Side, LinkUp(s) PROVE PairInv'
  <2>1. s = Standby /\ Other(s) = Primary
    <3>1. s = Standby
      BY <1>4, PairFacts DEF LinkUp, PairInv, RolesKept
    <3> QED
      BY <3>1, Sides, PairFacts
  <2>2. UNCHANGED <<node, cfg>> /\ Primary' = Primary /\ Standby' = Standby
    BY <1>4, SameRoles DEF LinkUp
  <2>3. node[Standby].rec /\ node[Standby].data \subseteq node[Primary].data
    BY <1>4, <2>1 DEF LinkUp
  <2>4. Armed(Primary)' = Armed(Primary) /\ Armed(Standby)' = Armed(Standby)
    BY <2>2 DEF Armed
  <2>5. /\ GivenUp(Standby)' = GivenUp(Standby) /\ OneOn' = OneOn
        /\ PromotedOutside' = PromotedOutside
    BY <2>2 DEF GivenUp, OneOn, PromotedOutside
  <2>6. RolesKept' /\ HealthyKept' /\ JournalKept'
    BY <1>1, <2>2, <2>3, <2>4, <2>5
    DEF PairInv, RolesKept, HealthyKept, Untouched, JournalKept
  <2>7. FailoverKept'
    BY <1>1, <2>2, <2>4 DEF PairInv, FailoverKept
  <2>8. AbortKept' /\ DeployKept'
    BY <1>1, <2>2, <2>4, <2>5 DEF PairInv, AbortKept, DeployKept
  <2> QED
    BY <2>6, <2>7, <2>8 DEF PairInv
<1>5. ASSUME NEW s \in Side, Drain(s) PROVE PairInv'
  <2>1. /\ Quiet(node[s], [node[s] EXCEPT !.app = "zero"])
        /\ \A t \in Side : Quiet(node[t], node[t])
    BY SharedFacts, QuietUpdates
  <2>2. Set(s, [node[s] EXCEPT !.app = "zero"]) /\ UNCHANGED <<cfg, link>>
    BY <1>5 DEF Drain
  <2>3. QuietStep
    BY <2>1, <2>2, SetOne DEF QuietStep
  <2> QED
    BY <1>1, <2>3, QuietWorld
<1>6. ASSUME NEW s \in Side, PromoteLands(s) PROVE PairInv'
  BY <1>1, <1>6, PromoteLandsKept
<1>7. ASSUME NEW s \in Side, Die(s) \/ Cut(s) PROVE PairInv'
  <2>1. /\ \A x : Quiet(node[s], [node[s] EXCEPT !.net = x])
        /\ \A t \in Side : Quiet(node[t], node[t])
    BY SharedFacts, QuietUpdates
  <2>2. /\ \E x \in {"dead", "cut"} : Set(s, [node[s] EXCEPT !.net = x])
        /\ cfg' = cfg /\ (link' => link)
    BY <1>7 DEF Die, Cut
  <2>3. QuietStep
    BY <2>1, <2>2, SetOne DEF QuietStep
  <2> QED
    BY <1>1, <2>3, QuietWorld
<1>8. ASSUME NEW s \in Side, Return(s) PROVE PairInv'
  BY <1>1, <1>8, ReturnKept
<1>9. CASE LinkDown
  <2>1. QuietStep
    BY <1>9, SharedFacts, QuietUpdates DEF LinkDown, QuietStep
  <2> QED
    BY <1>1, <2>1, QuietWorld
<1> QED
  BY <1>2, <1>3, <1>4, <1>5, <1>6, <1>7, <1>8, <1>9 DEF World

-----------------------------------------------------------------------------
(* What the commands establish.                                            *)

\* The steps of the three commands have different names.
LEMMA PcsApart ==
  /\ FailoverPc \cap AbortPc = {} /\ FailoverPc \cap DeployPc = {}
  /\ AbortPc \cap DeployPc = {}
  /\ "idle" \notin FailoverPc \cup AbortPc \cup DeployPc
  /\ BeforeIssue \cup Proving \cup AfterPromote \subseteq FailoverPc
BY DEF FailoverPc, AbortPc, DeployPc, BeforeIssue, Proving, AfterPromote

\* A command that is not running has established nothing.
LEMMA NotFailing ==
  ASSUME pc' \notin FailoverPc, fo' = NoFailover
  PROVE  FailoverKept' /\ pc' \notin BeforeIssue
<1>1. ~fo'.resume /\ ~fo'.journaled /\ ~fo'.lsn
  BY DEF NoFailover
<1> QED
  BY <1>1, PcsApart
  DEF FailoverKept, FailoverPc, BeforeIssue, Fencings, Proving, AfterPromote

LEMMA NotAborting ==
  ASSUME pc' \notin AbortPc, ab' = NoAbort
  PROVE  AbortKept'
BY DEF AbortKept, NoAbort, AbortPc

LEMMA NotDeploying ==
  ASSUME pc' \notin DeployPc, de' = NoDeploy
  PROVE  DeployKept'
BY DEF DeployKept, NoDeploy, DeployPc

\* A step that leaves the roles and the fields of the record alone that the
\* invariant reads, but for what the step says of them.
View ==
  /\ Primary' = Primary /\ Standby' = Standby
  /\ cfg' = cfg

\* Alike clusters are the same copies, and writable or not as they were.
LEMMA AlikeSides ==
  ASSUME View, Alike(node[Primary], node'[Primary]), Alike(node[Standby], node'[Standby])
  PROVE  /\ GivenUp(Standby)' = GivenUp(Standby) /\ OneOn' = OneOn
         /\ PromotedOutside' = PromotedOutside
BY DEF View, Alike, GivenUp, OneOn, PromotedOutside, NotNewer

\* A role write on one side, of a pair at rest or in flight, keeps what the
\* roles owe each other when what has to be armed still is.
LEMMA RoleWriteKept ==
  ASSUME RolesKept, JournalKept, View, link' = link,
         Alike(node[Primary], node'[Primary]), Alike(node[Standby], node'[Standby]),
         cfg.swapped /\ Armed(Primary) => Armed(Primary)',
         \/ Armed(Standby) => Armed(Standby)'
         \/ node[Standby].db = "zero"
         \/ node[Standby].rec /\ ~node[Standby].pending
         \/ cfg.journal = None
  PROVE  RolesKept' /\ JournalKept'
<1>1. GivenUp(Standby)' = GivenUp(Standby) /\ OneOn' = OneOn
  BY AlikeSides
<1>2. RolesKept'
  BY <1>1 DEF RolesKept, View, Alike
<1>3. JournalKept'
  BY <1>1 DEF JournalKept, View, Alike
<1> QED
  BY <1>2, <1>3

\* A write of the fence or of its marker, and nothing else: f is the setting it
\* leaves on the primary, m the marker.
FenceStep(f, m) ==
  /\ link' = link
  /\ \/ node' = node /\ f = node[Primary].fence
     \/ Set(Primary, [node[Primary] EXCEPT !.fence = f])
  /\ \/ cfg' = cfg /\ m = cfg.marker
     \/ cfg' = [cfg EXCEPT !.marker = m]

FenceView(f, m) ==
  /\ Primary' = Primary /\ Standby' = Standby
  /\ node'[Standby] = node[Standby]
  /\ node'[Primary].fence = f /\ node'[Primary].data = node[Primary].data
  /\ cfg'.marker = m
  /\ cfg'.journal = cfg.journal /\ cfg'.degraded = cfg.degraded
  /\ cfg'.swapped = cfg.swapped /\ cfg'.discard = cfg.discard
  /\ Armed(Primary)' = Armed(Primary) /\ Armed(Standby)' = Armed(Standby)
  /\ GivenUp(Standby)' = GivenUp(Standby) /\ PromotedOutside' = PromotedOutside

\* A fence that is on record, or a lift with nothing in flight to promote.
LEMMA FenceKept ==
  ASSUME Shared, RolesKept, JournalKept,
         NEW f \in {"off", "set", "on"}, NEW m \in {Primary, None}, FenceStep(f, m),
         f # "off" => m = Primary,
         \/ f \in {"on", node[Primary].fence} \/ node[Primary].fence # "on"
         \/ cfg.journal = None \/ node[Standby].db = "zero"
         \/ node[Standby].rec /\ ~node[Standby].pending
  PROVE  RolesKept' /\ JournalKept' /\ FenceView(f, m)
<1>1. /\ cfg'.primary = cfg.primary /\ cfg'.journal = cfg.journal /\ cfg'.marker = m
      /\ cfg'.degraded = cfg.degraded /\ cfg'.swapped = cfg.swapped
      /\ cfg'.discard = cfg.discard
  BY PairFacts DEF FenceStep, Config
<1>2. Primary' = Primary /\ Standby' = Standby
  BY <1>1, SameRoles
<1>3. node'[Standby] = node[Standby]
  BY SetOne, PairFacts DEF FenceStep
<1>4. LET n == node[Primary]
          k == node'[Primary]
      IN /\ k.rec = n.rec /\ k.retired = n.retired /\ k.fence = f
         /\ k.db = n.db /\ k.pending = n.pending /\ k.id = n.id /\ k.tl = n.tl
         /\ k.intent = n.intent /\ k.role = n.role /\ k.data = n.data
  <2>1. \/ node'[Primary] = [node[Primary] EXCEPT !.fence = f]
        \/ node'[Primary] = node[Primary] /\ f = node[Primary].fence
    BY SetOne, PairFacts DEF FenceStep
  <2> QED
    BY <2>1, PairFacts DEF Node
<1>5. Armed(Primary)' = Armed(Primary) /\ Armed(Standby)' = Armed(Standby)
  BY <1>2, <1>3, <1>4 DEF Armed
<1>6. /\ GivenUp(Standby)' = GivenUp(Standby) /\ OneOn' = OneOn
      /\ PromotedOutside' = PromotedOutside
  BY <1>1, <1>2, <1>3, <1>4 DEF GivenUp, OneOn, PromotedOutside, NotNewer
<1>7. RolesKept'
  <2>1. node'[Primary'].fence # "off" => cfg'.marker = Primary'
    BY <1>1, <1>2, <1>4
  <2>2. cfg'.marker \in {Primary', None}
    BY <1>1, <1>2
  <2>3. /\ ~node'[Primary'].rec /\ ~node'[Primary'].retired
        /\ node'[Standby'].retired => cfg'.swapped
        /\ node'[Standby'].rec \/ ~cfg'.swapped => node'[Standby'].fence = "off"
        /\ node'[Standby'].db = "zero" => ~node'[Standby'].pending
        /\ cfg'.journal # None => ~cfg'.swapped
        /\ cfg'.swapped => Armed(Primary)'
    BY <1>1, <1>2, <1>3, <1>4, <1>5 DEF RolesKept
  <2>4. /\ node'[Standby'].rec => /\ node'[Standby'].id = node'[Primary'].id
                                 /\ node'[Standby'].tl = node'[Primary'].tl
        /\ ~cfg'.degraded => node'[Standby'].id = node'[Primary'].id
    BY <1>1, <1>2, <1>3, <1>4 DEF RolesKept
  <2>5. link' =>
          node'[Standby'].rec /\ node'[Standby'].data \subseteq node'[Primary'].data
    BY <1>2, <1>3, <1>4 DEF RolesKept, FenceStep
  <2>6. cfg'.discard # None =>
          cfg'.discard = OneOn' /\ (node'[Standby'].rec \/ cfg'.discard = GivenUp(Standby)')
    BY <1>1, <1>2, <1>3, <1>6 DEF RolesKept
  <2> QED
    BY <2>1, <2>2, <2>3, <2>4, <2>5, <2>6 DEF RolesKept
<1>8. JournalKept'
  BY <1>1, <1>2, <1>3, <1>4, <1>5, <1>6 DEF JournalKept
<1> QED
  BY <1>1, <1>2, <1>3, <1>4, <1>5, <1>6, <1>7, <1>8 DEF FenceView

-----------------------------------------------------------------------------
(* failover -abort.                                                        *)

\* Every step of an abort (abortFailover): nothing it lifts or starts is at
\* risk, because the standby's database is down by then.
LEMMA AbortStepKept ==
  ASSUME Shared, ab \in Abort, PromoteOwned, PairInv, AbortStep, UNCHANGED <<fo, de>>
  PROVE  PairInv'
<1> USE PairFacts, NoneAssumption DEF PairInv
<1>1. /\ pc \in AbortPc /\ pc' \in AbortPc \cup {"idle"}
      /\ cfg.journal # None /\ ~cfg.swapped
  <2>1. pc \in AbortPc /\ pc' \in AbortPc \cup {"idle"}
    BY DEF AbortStep, ReadStandbyLineage, StopStandbyDb, DisarmStandby, RepointDns,
           UnfencePrimary, ArmPrimary, StartPrimaryWriters, RecordAbort, Goto, AbortPc
  <2> QED
    BY <2>1 DEF AbortKept, RolesKept
<1>2. FailoverKept' /\ DeployKept' /\ pc' \notin BeforeIssue
  BY <1>1, PcsApart, NotFailing, NotDeploying DEF FailoverKept, DeployKept
<1>3. cfg'.journal = cfg.journal => HealthyKept'
  BY <1>1, <1>2 DEF HealthyKept, Untouched
<1>4. SUFFICES RolesKept' /\ HealthyKept' /\ JournalKept' /\ AbortKept'
  BY <1>2
<1>5. ~NoAbort.lifted /\ NoAbort.reading = None
  BY DEF NoAbort
<1>6. CASE ReadStandbyLineage
  <2>1. QuietStep
    BY <1>6, QuietUpdates, SharedFacts DEF ReadStandbyLineage, QuietStep
  <2>2. QuietView /\ RolesKept' /\ JournalKept'
    BY <2>1, QuietPair, QuietKept
  <2>3. /\ pc = "lineage" /\ pc' = "stop" /\ UNCHANGED <<node, cfg>>
        /\ ab' = ab \/ ab' = [ab EXCEPT !.read = TRUE, !.reading = Lineage]
    BY <1>6 DEF ReadStandbyLineage, Goto
  <2>4. ab'.lifted = ab.lifted /\ ab'.reading \in {ab.reading, Lineage}
    BY <2>3 DEF Abort
  <2>5. Lineage # None => Lineage = GivenUp(Standby) /\ ~node[Standby].rec
    BY DEF Lineage
  <2>6. GivenUp(Standby)' = GivenUp(Standby)
    BY <2>2, <2>3 DEF QuietView, GivenUp
  <2>7. AbortKept'
    BY <2>2, <2>3, <2>4, <2>5, <2>6 DEF AbortKept, QuietView, AbortPc
  <2> QED
    BY <1>3, <2>2, <2>3, <2>7
<1>7. CASE StopStandbyDb
  <2>1. /\ pc = "stop" /\ cfg' = cfg /\ (link' => link)
        /\ node'[Primary] = node[Primary]
        /\ \/ node'[Standby] = node[Standby]
           \/ node'[Standby] = Stopped(node[Standby]) /\ ~link'
        /\ pc' = "calledOff" => node'[Standby] = Stopped(node[Standby])
        /\ \/ pc' = "calledOff" /\ ab' = ab
           \/ pc' = "idle" /\ ab' = NoAbort
    BY <1>7, SetOne DEF StopStandbyDb
  <2>2. LET n == node[Standby]
            m == node'[Standby]
        IN /\ m.rec = n.rec /\ m.retired = n.retired /\ m.fence = n.fence
           /\ m.id = n.id /\ m.tl = n.tl /\ m.data = n.data
           /\ m.intent = n.intent /\ m.role = n.role
           /\ (m.pending => n.pending)
           /\ m.db = n.db \/ (m.db = "zero" /\ ~m.pending)
           /\ pc' = "calledOff" => m.db = "zero"
    BY <2>1 DEF Stopped, Node
  <2>3. Primary' = Primary /\ Standby' = Standby
    BY <2>1, SameRoles
  <2>4. Armed(Primary)' = Armed(Primary) /\ Armed(Standby)' = Armed(Standby)
    BY <2>1, <2>2, <2>3 DEF Armed
  <2>5. GivenUp(Standby)' = GivenUp(Standby) /\ OneOn' = OneOn
    BY <2>1, <2>2, <2>3 DEF GivenUp, OneOn
  <2>6. RolesKept'
    BY <2>1, <2>2, <2>3, <2>4, <2>5 DEF RolesKept
  <2>7. JournalKept'
    BY <2>1, <2>2, <2>3, <2>4, <2>5 DEF JournalKept
  <2>8. AbortKept'
    BY <1>1, <1>5, <2>1, <2>2, <2>3, <2>5 DEF AbortKept, AbortPc
  <2> QED
    BY <1>3, <2>1, <2>6, <2>7, <2>8
<1>8. CASE DisarmStandby
  <2>1. /\ pc = "calledOff" /\ pc' = "repoint" /\ UNCHANGED <<link, cfg, ab>>
        /\ \E tier, addons, role \in BOOLEAN :
             LET n == ScaledDown(node[Standby], tier, addons)
             IN Set(Standby, IF role THEN WithRole(n, "standby", FALSE) ELSE n)
    BY <1>8 DEF DisarmStandby
  <2>2. View
    BY <2>1, SameRoles DEF View
  <2>3. PICK tier \in BOOLEAN, addons \in BOOLEAN, role \in BOOLEAN :
          LET n == ScaledDown(node[Standby], tier, addons)
          IN Set(Standby, IF role THEN WithRole(n, "standby", FALSE) ELSE n)
    BY <2>1
  <2> DEFINE n == ScaledDown(node[Standby], tier, addons)
  <2>4. n \in Node /\ Alike(node[Standby], n)
    BY NodeUpdates, QuietUpdates DEF Quiet
  <2>5. Set(Standby, WithRole(n, "standby", FALSE)) \/ Set(Standby, n)
    BY <2>3
  <2> HIDE DEF n
  <2>6. Alike(n, WithRole(n, "standby", FALSE))
    BY <2>4, RoleUpdates DEF Role
  <2>7. Alike(node[Standby], node'[Standby]) /\ node'[Primary] = node[Primary]
    BY <2>4, <2>5, <2>6, SetOne DEF Alike
  <2>8. Alike(node[Primary], node'[Primary]) /\ (Armed(Primary) => Armed(Primary)')
    BY <2>2, <2>7 DEF Alike, Armed, View
  <2>9. node[Standby].db = "zero"
    BY <2>1 DEF AbortKept, AbortPc
  <2>10. RolesKept' /\ JournalKept'
    BY <2>1, <2>2, <2>7, <2>8, <2>9, RoleWriteKept
  <2>11. AbortKept'
    BY <1>1, <2>1, <2>2, <2>7, <2>8, AlikeSides DEF AbortKept, AbortPc, View, Alike
  <2> QED
    BY <1>3, <2>1, <2>10, <2>11
<1>9. CASE RepointDns \/ StartPrimaryWriters
  <2>1. QuietStep
    <3>1. CASE RepointDns
      BY <3>1, QuietUpdates, SharedFacts DEF RepointDns, QuietStep
    <3>2. CASE StartPrimaryWriters
      BY <3>2, ScaleQuiet DEF StartPrimaryWriters, QuietStep
    <3> QED
      BY <1>9, <3>1, <3>2
  <2>2. QuietView /\ RolesKept' /\ JournalKept'
    BY <2>1, QuietPair, QuietKept
  <2>3. /\ pc \in {"repoint", "writers"} /\ pc' \in {"reach", "record"} /\ ab' = ab
    BY <1>9 DEF RepointDns, StartPrimaryWriters
  <2>4. GivenUp(Standby)' = GivenUp(Standby)
    BY <2>2 DEF QuietView, Quiet, Alike, GivenUp
  <2>5. AbortKept'
    BY <1>1, <2>2, <2>3, <2>4 DEF AbortKept, AbortPc, QuietView, Quiet, Alike
  <2> QED
    BY <1>3, <2>2, <2>5 DEF QuietView
<1>10. CASE UnfencePrimary
  <2>1. /\ pc = "reach" /\ pc' \in {"rearm", "record"}
        /\ \E f \in {"off", node[Primary].fence} :
             /\ FenceStep(f, cfg.marker)
             /\ ab' = ab \/ (f = "off" /\ ab' = [ab EXCEPT !.lifted = TRUE])
    <3>1. \/ node' = node /\ ab' = ab
          \/ Set(Primary, [node[Primary] EXCEPT !.fence = "off"])
      BY <1>10 DEF UnfencePrimary, Unfenced
    <3>2. ab' = ab \/ ab' = [ab EXCEPT !.lifted = TRUE]
      BY <1>10 DEF UnfencePrimary
    <3>3. UNCHANGED <<cfg, link>> /\ pc = "reach" /\ pc' \in {"rearm", "record"}
      BY <1>10 DEF UnfencePrimary
    <3> QED
      BY <3>1, <3>2, <3>3 DEF FenceStep
  <2>2. PICK f \in {"off", node[Primary].fence} :
             /\ FenceStep(f, cfg.marker)
             /\ ab' = ab \/ (f = "off" /\ ab' = [ab EXCEPT !.lifted = TRUE])
    BY <2>1
  <2>3. node[Standby].db = "zero"
    BY <2>1 DEF AbortKept, AbortPc
  <2>4. f \in {"off", "set", "on"} /\ cfg.marker \in {Primary, None}
    BY DEF Node, RolesKept
  <2>5. f # "off" => cfg.marker = Primary
    BY DEF RolesKept
  <2>6. RolesKept' /\ JournalKept' /\ FenceView(f, cfg.marker)
    BY <2>2, <2>3, <2>4, <2>5, FenceKept
  <2>7. /\ ab'.reading = ab.reading
        /\ ab'.lifted => ab.lifted \/ f = "off"
    BY <2>2 DEF Abort
  <2>8. AbortKept'
    BY <1>1, <2>1, <2>2, <2>3, <2>6, <2>7 DEF AbortKept, AbortPc, FenceView
  <2> QED
    BY <1>3, <2>6, <2>8 DEF FenceView
<1>11. CASE ArmPrimary
  <2>1. /\ pc = "rearm" /\ pc' = "writers" /\ UNCHANGED <<link, cfg, ab>>
        /\ \/ node' = node
           \/ \E live \in BOOLEAN : Set(Primary, WithRole(node[Primary], "primary", live))
    BY <1>11 DEF ArmPrimary
  <2>2. View
    BY <2>1, SameRoles DEF View
  <2>3. \A live \in BOOLEAN : Alike(node[Primary], WithRole(node[Primary], "primary", live))
    BY RoleUpdates DEF Role
  <2>4. \A s \in Side : Alike(node[s], node[s])
    BY DEF Alike
  <2>5. /\ node'[Standby] = node[Standby]
        /\ Alike(node[Standby], node'[Standby]) /\ Alike(node[Primary], node'[Primary])
    BY <2>1, <2>3, <2>4, SetOne
  <2>6. Armed(Standby)' = Armed(Standby)
    BY <2>2, <2>5 DEF View, Armed
  <2>7. RolesKept' /\ JournalKept'
    BY <1>1, <2>1, <2>2, <2>5, <2>6, RoleWriteKept
  <2>8. AbortKept'
    BY <1>1, <2>1, <2>2, <2>5, AlikeSides DEF AbortKept, AbortPc, View, Alike
  <2> QED
    BY <1>3, <2>1, <2>7, <2>8
<1>12. CASE RecordAbort
  <2>1. pc' = "idle" /\ ab' = NoAbort /\ UNCHANGED <<node, link>> /\ pc = "record"
    BY <1>12 DEF RecordAbort
  <2>2. AbortKept'
    BY <2>1, NotAborting, PcsApart
  <2>3. CASE cfg' = cfg
    <3>1. QuietStep
      BY <2>1, <2>3, QuietUpdates, SharedFacts DEF QuietStep
    <3> QED
      BY <1>3, <2>2, <2>3, <3>1, QuietKept
  <2>4. CASE cfg' = [cfg EXCEPT !.journal = None, !.sysid = None, !.degraded = TRUE,
                               !.marker = KeptMarker, !.discard = ab.reading]
    <3>1. /\ cfg'.primary = cfg.primary /\ cfg'.journal = None /\ cfg'.degraded
          /\ cfg'.marker = KeptMarker /\ cfg'.swapped = cfg.swapped
          /\ cfg'.discard = ab.reading
      BY <2>4 DEF Config
    <3>2. Primary' = Primary /\ Standby' = Standby
      BY <3>1, SameRoles
    <3>3. GivenUp(Standby)' = GivenUp(Standby) /\ OneOn' = OneOn
      BY <2>1, <3>2 DEF GivenUp, OneOn
    <3>4. KeptMarker \in {Primary, None}
          /\ (node[Primary].fence # "off" => KeptMarker = Primary)
      BY DEF KeptMarker, AbortKept, RolesKept
    <3>5. ab.reading # None => ab.reading = GivenUp(Standby) /\ GivenUp(Standby) = OneOn
      BY <1>1 DEF AbortKept, JournalKept
    <3>6. RolesKept'
      BY <1>1, <2>1, <3>1, <3>2, <3>3, <3>4, <3>5 DEF RolesKept
    <3> QED
      BY <2>2, <3>1, <3>6 DEF HealthyKept, JournalKept
  <2> QED
    BY <1>12, <2>3, <2>4 DEF RecordAbort, Saved, SaveFailed
<1> QED
  BY <1>6, <1>7, <1>8, <1>9, <1>10, <1>11, <1>12 DEF AbortStep

-----------------------------------------------------------------------------
(* deploy, and the retirement fence.                                       *)

\* The retirement fence goes on the standby of a pair that failed over.
LEMMA RetirePair ==
  ASSUME Shared, RolesKept, JournalKept, HealthyKept, Retire(Standby), cfg.swapped,
         UNCHANGED <<link, cfg>>
  PROVE  /\ RolesKept' /\ JournalKept' /\ HealthyKept'
         /\ Primary' = Primary /\ Standby' = Standby
         /\ node'[Primary] = node[Primary] /\ node'[Standby].rec = node[Standby].rec
         /\ Armed(Primary)' = Armed(Primary) /\ PromotedOutside' = PromotedOutside
<1>1. Primary' = Primary /\ Standby' = Standby /\ cfg.journal = None
  BY SameRoles DEF RolesKept
<1>2. /\ node'[Primary] = node[Primary]
      /\ LET n == node[Standby]
             m == node'[Standby]
         IN /\ m.rec = n.rec /\ m.fence = n.fence /\ m.db = n.db
            /\ m.pending = n.pending /\ m.id = n.id /\ m.tl = n.tl /\ m.data = n.data
  BY PairFacts, RetireUpdates
<1>3. Armed(Primary)' = Armed(Primary)
  BY <1>1, <1>2 DEF Armed
<1>4. /\ GivenUp(Standby)' = GivenUp(Standby) /\ OneOn' = OneOn
      /\ PromotedOutside' = PromotedOutside
  BY <1>1, <1>2 DEF GivenUp, OneOn, PromotedOutside, NotNewer
<1>5. RolesKept'
  BY <1>1, <1>2, <1>3, <1>4 DEF RolesKept
<1>6. JournalKept' /\ HealthyKept'
  BY <1>1, <1>2, <1>3 DEF JournalKept, HealthyKept, Untouched
<1> QED
  BY <1>1, <1>2, <1>3, <1>4, <1>5, <1>6

\* A converged primary is armed; a converged standby is the same copy.
LEMMA ConvergedUpdates ==
  ASSUME Shared
  PROVE  /\ Alike(node[Primary], Converged(Primary))
         /\ Converged(Primary).intent = "primary" /\ Converged(Primary).role = "primary"
         /\ LET n == node[Standby]
                m == Converged(Standby)
            IN /\ m.rec = n.rec /\ m.retired = n.retired
               /\ (m.fence = "off" <=> n.fence = "off")
               /\ (m.db = "zero" => n.db = "zero" /\ ~m.pending)
               /\ (m.pending => n.pending)
               /\ m.id = n.id /\ m.tl = n.tl /\ m.data = n.data
<1> USE PairFacts
<1>1. /\ Alike(node[Primary], Converged(Primary))
      /\ Converged(Primary).intent = "primary" /\ Converged(Primary).role = "primary"
  <2> DEFINE n == ScaledUp(node[Primary], TRUE, TRUE)
  <2>1. n \in Node /\ Alike(node[Primary], n)
    BY NodeUpdates, QuietUpdates DEF Quiet
  <2>2. Converged(Primary) = WithRole(n, "primary", TRUE)
    BY DEF Converged
  <2> HIDE DEF n
  <2> QED
    <3>1. /\ Alike(n, WithRole(n, "primary", TRUE))
          /\ WithRole(n, "primary", TRUE).intent = "primary"
          /\ WithRole(n, "primary", TRUE).role = "primary"
      BY <2>1, RoleUpdates DEF Role
    <3> QED
      BY <2>1, <2>2, <3>1 DEF Alike
<1>2. LET n == node[Standby]
          m == Converged(Standby)
      IN /\ m.rec = n.rec /\ m.retired = n.retired
         /\ (m.fence = "off" <=> n.fence = "off")
         /\ (m.db = "zero" => n.db = "zero" /\ ~m.pending)
         /\ (m.pending => n.pending)
         /\ m.id = n.id /\ m.tl = n.tl /\ m.data = n.data
  <2> DEFINE down == ScaledDown(node[Standby], TRUE, TRUE)
             named == WithRole(down, "standby", TRUE)
             up == [named EXCEPT !.db = "run"]
  <2>1. down \in Node /\ Alike(node[Standby], down)
    BY NodeUpdates, QuietUpdates DEF Quiet
  <2>2. named \in Node /\ Alike(down, named)
    <3> HIDE DEF down
    <3> QED BY <2>1, NodeUpdates, RoleUpdates DEF Role
  <2>3. /\ up \in Node /\ up.db = "run"
        /\ up.rec = named.rec /\ up.retired = named.retired /\ up.fence = named.fence
        /\ up.pending = named.pending /\ up.id = named.id /\ up.tl = named.tl
        /\ up.data = named.data
    <3> HIDE DEF named
    <3> QED BY <2>2 DEF Node
  <2>4. Converged(Standby) = IF node[Standby].db = "zero" THEN Restarted(up) ELSE up
    BY DEF Converged
  <2> HIDE DEF down, named, up
  <2> QED
    BY <2>1, <2>2, <2>3, <2>4, RestartUpdates DEF Alike, Node
<1> QED
  BY <1>1, <1>2

\* A reseed of the standby, whichever command runs it.
LEMMA ReseedPair ==
  ASSUME Shared, RolesKept, JournalKept,
         Set(Standby, Reseeded(node[Standby], node[Primary])),
         cfg'.primary = cfg.primary, cfg'.journal = cfg.journal,
         cfg'.marker = cfg.marker, cfg'.degraded = cfg.degraded,
         cfg'.swapped = cfg.swapped, cfg'.discard = cfg.discard
  PROVE  /\ RolesKept' /\ JournalKept'
         /\ Primary' = Primary /\ Standby' = Standby
         /\ node'[Primary] = node[Primary] /\ Armed(Primary)' = Armed(Primary)
         /\ node'[Standby].rec /\ ~node'[Standby].pending
         /\ node'[Standby].retired = node[Standby].retired
         /\ node'[Standby].data = node[Primary].data
<1> USE PairFacts
<1>1. Primary' = Primary /\ Standby' = Standby
  BY SameRoles
<1>2. /\ node'[Primary] = node[Primary]
      /\ node'[Standby] = Reseeded(node[Standby], node[Primary])
  BY SetOne
<1>3. LET n == node[Standby]
          m == node'[Standby]
          p == node[Primary]
      IN /\ m.rec /\ ~m.pending /\ m.fence = "off" /\ m.retired = n.retired
         /\ m.db = n.db /\ m.id = p.id /\ m.tl = p.tl /\ m.data = p.data
  BY <1>2, ReseedUpdates
<1>4. Armed(Primary)' = Armed(Primary)
  BY <1>1, <1>2 DEF Armed
<1>5. OneOn' = OneOn
  BY <1>1, <1>2 DEF OneOn
<1>6. RolesKept'
  BY <1>1, <1>2, <1>3, <1>4, <1>5 DEF RolesKept
<1>7. JournalKept'
  BY <1>1, <1>2, <1>3 DEF JournalKept
<1> QED
  BY <1>1, <1>2, <1>3, <1>4, <1>6, <1>7

\* Every step of a deploy: it runs with no failover in flight, and records a
\* replica only where it has seen one.
LEMMA DeployStepKept ==
  ASSUME Shared, de \in Deploy, PromoteOwned, PairInv, DeployStep, UNCHANGED <<fo, ab>>
  PROVE  PairInv'
<1> USE PairFacts, NoneAssumption DEF PairInv
<1>1. /\ pc \in DeployPc /\ pc' \in DeployPc \cup {"idle"}
      /\ cfg.journal = None /\ (de.retired <=> cfg.swapped)
      /\ ~node[Standby].pending
  <2>1. pc \in DeployPc /\ pc' \in DeployPc \cup {"idle"}
    BY DEF DeployStep, LiftAtEntry, Refence, ConvergeClusters, ProbeStreaming, GuardReseed,
           StageAndSwap, VerifyStreaming, ForgetDiscarded, GateStreaming, AwaitDns,
           ClearRetired, AssertWritable, FinalSave, NotStreaming, DeployExit, Goto, DeployPc
  <2> QED
    BY <2>1 DEF DeployKept, PromoteOwned
<1>2. FailoverKept' /\ AbortKept'
  BY <1>1, PcsApart, NotFailing, NotAborting DEF FailoverKept, AbortKept
<1>3. SUFFICES RolesKept' /\ HealthyKept' /\ JournalKept' /\ DeployKept'
  BY <1>2
<1>4. pc' = "idle" /\ de' = NoDeploy => DeployKept'
  BY PcsApart, NotDeploying
<1>5. Untouched
  BY <1>1 DEF Untouched
\* The quiet steps: only what they read counts.
<1>6. ASSUME QuietStep,
             pc' # "idle" =>
               /\ de'.retired = de.retired
               /\ pc' # "refence"
               /\ pc \in {"entry", "refence", "clusters"} =>
                    pc' \in {"entry", "refence", "clusters"}
               /\ pc' = "stream" \/ de'.sysid # None => node[Standby].rec
               /\ pc' \in {"writable", "save"} /\ de'.retired /\ ~de'.kept =>
                    node[Standby].rec /\ ~node[Standby].retired
               /\ pc' = "stage" => ~PromotedOutside,
             pc' = "idle" => de' = NoDeploy
      PROVE  PairInv'
  <2>1. QuietView /\ RolesKept' /\ JournalKept'
    BY <1>6, QuietPair, QuietKept
  <2>2. Armed(Primary)' = Armed(Primary) /\ PromotedOutside' = PromotedOutside
    BY <2>1 DEF QuietView, Quiet, Alike, Armed, GivenUp, PromotedOutside, NotNewer
  <2>3. HealthyKept'
    BY <1>5, <2>1, <2>2 DEF HealthyKept, QuietView, Quiet, Alike
  <2>4. CASE pc' # "idle"
    <3>1. pc' \in DeployPc
      BY <1>1, <2>4
    <3>2. DeployKept'
      BY <1>1, <1>6, <2>1, <2>2, <2>4, <3>1 DEF DeployKept, QuietView, Quiet, Alike
    <3> QED
      BY <1>2, <2>1, <2>3, <3>2
  <2> QED
    BY <1>2, <1>4, <1>6, <2>1, <2>3, <2>4
<1>7. CASE LiftAtEntry
  <2>1. /\ pc = "entry" /\ pc' = (IF de.retired THEN "refence" ELSE "clusters") /\ de' = de
        /\ \E f \in {"off", node[Primary].fence}, m \in {None, cfg.marker} :
             FenceStep(f, m) /\ (f # "off" => m = cfg.marker)
    <3>1. cfg.marker # Standby
      BY DEF RolesKept
    <3>2. \/ UNCHANGED <<node, cfg>>
          \/ /\ Set(Primary, [node[Primary] EXCEPT !.fence = "off"])
             /\ cfg' = cfg \/ cfg' = [cfg EXCEPT !.marker = None]
      BY <1>7, <3>1 DEF LiftAtEntry, Saved, SaveFailed, Unfenced
    <3>3. link' = link
      BY <1>7 DEF LiftAtEntry
    <3>4. \/ FenceStep(node[Primary].fence, cfg.marker)
          \/ FenceStep("off", cfg.marker) \/ FenceStep("off", None)
      BY <3>2, <3>3 DEF FenceStep
    <3> QED
      BY <1>7, <3>4 DEF LiftAtEntry, Goto
  <2>2. PICK f \in {"off", node[Primary].fence}, m \in {None, cfg.marker} :
             FenceStep(f, m) /\ (f # "off" => m = cfg.marker)
    BY <2>1
  <2>3. /\ f \in {"off", "set", "on"} /\ m \in {Primary, None}
        /\ f # "off" => m = Primary
    BY <2>2 DEF Node, RolesKept
  <2>4. RolesKept' /\ JournalKept' /\ FenceView(f, m)
    BY <1>1, <2>2, <2>3, FenceKept
  <2>5. HealthyKept'
    BY <1>5, <2>4 DEF HealthyKept, FenceView
  <2>6. DeployKept'
    BY <1>1, <2>1, <2>4 DEF DeployKept, FenceView, DeployPc
  <2> QED
    BY <2>4, <2>5, <2>6
<1>8. CASE Refence
  <2>1. pc = "refence" /\ pc' = "clusters" /\ UNCHANGED <<link, cfg, de>> /\ Retire(Standby)
    BY <1>8 DEF Refence, Goto
  <2>2. cfg.swapped
    BY <2>1 DEF DeployKept
  <2>3. /\ RolesKept' /\ JournalKept' /\ HealthyKept'
        /\ Primary' = Primary /\ Standby' = Standby
        /\ node'[Standby].rec = node[Standby].rec
    BY <2>1, <2>2, RetirePair
  <2>4. DeployKept'
    BY <1>1, <2>1, <2>3 DEF DeployKept, DeployPc
  <2> QED
    BY <2>3, <2>4
<1>9. CASE ConvergeClusters
  <2>1. /\ UNCHANGED <<link, cfg>> /\ pc = "clusters"
        /\ \A s \in Side : node'[s] \in {node[s], Converged(s)}
        /\ \/ pc' = "probe" /\ de' \in {de, [de EXCEPT !.dnsSet = TRUE]}
              /\ node'[Primary] = Converged(Primary)
           \/ pc' = "idle" /\ de' = NoDeploy
    BY <1>9 DEF ConvergeClusters, DeployExit, Goto
  <2>2. View
    BY <2>1, SameRoles DEF View
  <2>3. Alike(node[Primary], node'[Primary])
    BY <2>1, ConvergedUpdates DEF Alike
  <2>4. /\ Armed(Primary) => Armed(Primary)'
        /\ pc' = "probe" => Armed(Primary)'
    BY <2>1, <2>2, ConvergedUpdates DEF View, Armed
  <2>5. LET n == node[Standby]
            m == node'[Standby]
        IN /\ m.rec = n.rec /\ m.retired = n.retired
           /\ (m.fence = "off" <=> n.fence = "off")
           /\ ~m.pending
           /\ m.id = n.id /\ m.tl = n.tl /\ m.data = n.data
    BY <1>1, <2>1, ConvergedUpdates
  <2>6. GivenUp(Standby)' = GivenUp(Standby) /\ OneOn' = OneOn
    BY <2>2, <2>3, <2>5 DEF View, Alike, GivenUp, OneOn
  <2>7. RolesKept'
    BY <2>1, <2>2, <2>3, <2>4, <2>5, <2>6 DEF RolesKept, View, Alike
  <2>8. HealthyKept' /\ JournalKept'
    BY <1>1, <1>5, <2>2, <2>4, <2>5 DEF HealthyKept, JournalKept, View
  <2>9. CASE pc' = "probe"
    <3>1. de'.retired = de.retired /\ de'.sysid = de.sysid
      BY <2>1, <2>9 DEF Deploy
    <3>2. DeployKept'
      BY <1>1, <2>1, <2>2, <2>4, <2>5, <2>9, <3>1 DEF DeployKept, View, DeployPc
    <3> QED
      BY <2>7, <2>8, <3>2
  <2> QED
    BY <1>4, <2>1, <2>7, <2>8, <2>9
<1>10. CASE ProbeStreaming
  <2>1. /\ UNCHANGED <<node, link, cfg, de>> /\ pc = "probe" /\ pc' \in {"stream", "guard"}
        /\ pc' = "stream" => link
    BY <1>10 DEF ProbeStreaming, Succeeded, Streaming
  <2>2. QuietStep
    BY <2>1, QuietUpdates, SharedFacts DEF QuietStep
  <2> QED
    BY <1>6, <2>1, <2>2 DEF DeployKept, RolesKept
<1>11. CASE GuardReseed
  <2>1. /\ UNCHANGED <<node, link, cfg, de>> /\ pc = "guard" /\ pc' \in {"stage", "gate"}
        /\ pc' = "stage" => ~PromotedOutside
    BY <1>11 DEF GuardReseed, NotStreaming, Goto
  <2>2. QuietStep
    BY <2>1, QuietUpdates, SharedFacts DEF QuietStep
  <2> QED
    BY <1>6, <2>1, <2>2 DEF DeployKept
<1>12. CASE StageAndSwap
  <2>1. /\ cfg' = cfg /\ pc = "stage" /\ pc' \in {"stream", "gate"}
        /\ \/ Set(Standby, Reseeded(node[Standby], node[Primary]))
           \/ UNCHANGED <<node, link>> /\ pc' = "gate"
        /\ de' = de \/ de' = [de EXCEPT !.reseeded = TRUE]
    BY <1>12 DEF StageAndSwap, NotStreaming, Goto
  <2>2. de'.retired = de.retired /\ de'.sysid = de.sysid
    BY <2>1 DEF Deploy
  <2>3. CASE Set(Standby, Reseeded(node[Standby], node[Primary]))
    <3>1. /\ RolesKept' /\ JournalKept'
          /\ Armed(Primary)' = Armed(Primary) /\ node'[Standby'].rec
      BY <2>1, <2>3, ReseedPair
    <3>2. HealthyKept'
      BY <1>5, <2>1, <3>1 DEF HealthyKept
    <3>3. DeployKept'
      BY <1>1, <2>1, <2>2, <3>1 DEF DeployKept, DeployPc
    <3> QED
      BY <3>1, <3>2, <3>3
  <2>4. CASE UNCHANGED <<node, link>> /\ pc' = "gate"
    <3>1. QuietStep
      BY <2>1, <2>4, QuietUpdates, SharedFacts DEF QuietStep
    <3> QED
      BY <1>6, <2>1, <2>2, <2>4, <3>1 DEF DeployKept
  <2> QED
    BY <2>1, <2>3, <2>4
<1>13. CASE VerifyStreaming
  <2>1. /\ UNCHANGED <<node, link, cfg>> /\ pc = "stream" /\ pc' \in {"forget", "gate"}
        /\ de' = de \/ de' = [de EXCEPT !.sysid = node[Standby].id]
    BY <1>13 DEF VerifyStreaming
  <2>2. de'.retired = de.retired
    BY <2>1 DEF Deploy
  <2>3. QuietStep
    BY <2>1, QuietUpdates, SharedFacts DEF QuietStep
  <2>4. node[Standby].rec
    BY <2>1 DEF DeployKept
  <2> QED
    BY <1>6, <2>1, <2>2, <2>3, <2>4
<1>14. CASE ForgetDiscarded
  <2>1. /\ UNCHANGED <<node, link>> /\ pc = "forget" /\ pc' = "gate"
        /\ \/ cfg' = [cfg EXCEPT !.discard = None] /\ de' = de
           \/ cfg' = cfg /\ de' = [de EXCEPT !.sysid = None]
    BY <1>14 DEF ForgetDiscarded, Goto, Saved, SaveFailed
  <2>2. /\ cfg'.primary = cfg.primary /\ cfg'.journal = cfg.journal
        /\ cfg'.marker = cfg.marker /\ cfg'.degraded = cfg.degraded
        /\ cfg'.swapped = cfg.swapped /\ cfg'.discard \in {cfg.discard, None}
    BY <2>1 DEF Config
  <2>3. Primary' = Primary /\ Standby' = Standby
    BY <2>2, SameRoles
  <2>4. Armed(Primary)' = Armed(Primary)
    BY <2>1, <2>3 DEF Armed
  <2>5. GivenUp(Standby)' = GivenUp(Standby) /\ OneOn' = OneOn
    BY <2>1, <2>3 DEF GivenUp, OneOn
  <2>6. RolesKept' /\ JournalKept' /\ HealthyKept'
    BY <1>1, <1>5, <2>1, <2>2, <2>3, <2>4, <2>5
    DEF RolesKept, JournalKept, HealthyKept
  <2>7. de'.retired = de.retired /\ de'.sysid \in {de.sysid, None}
    BY <2>1 DEF Deploy
  <2>8. DeployKept'
    BY <1>1, <2>1, <2>2, <2>3, <2>4, <2>7 DEF DeployKept, DeployPc
  <2> QED
    BY <2>6, <2>8
<1>15. CASE GateStreaming \/ AwaitDns
  <2>1. /\ UNCHANGED <<node, link, cfg>> /\ pc \in {"gate", "dns"}
        /\ \/ pc' \in {"dns", "unretire"} /\ de' = de
           \/ pc' = "writable" /\ de' = de /\ ~de.retired
           \/ pc' = "idle" /\ de' = NoDeploy
    BY <1>15 DEF GateStreaming, AwaitDns, DeployExit, Goto
  <2>2. QuietStep
    BY <2>1, QuietUpdates, SharedFacts DEF QuietStep
  <2> QED
    BY <1>6, <2>1, <2>2 DEF DeployKept
<1>16. CASE ClearRetired
  <2>1. /\ UNCHANGED <<link, cfg>> /\ pc = "unretire"
        /\ node' = node \/ Set(Standby, [node[Standby] EXCEPT !.retired = FALSE])
        /\ \/ /\ pc' = "writable" /\ de' = de /\ node[Standby].rec
              /\ Set(Standby, [node[Standby] EXCEPT !.retired = FALSE])
           \/ pc' = "writable" /\ de' = [de EXCEPT !.kept = TRUE]
           \/ pc' = "idle" /\ de' = NoDeploy
    BY <1>16 DEF ClearRetired, Succeeded, DeployExit, Goto
  <2>2. Primary' = Primary /\ Standby' = Standby
    BY <2>1, SameRoles
  <2>3. /\ node'[Primary] = node[Primary]
        /\ \/ node'[Standby] = node[Standby]
           \/ node'[Standby] = [node[Standby] EXCEPT !.retired = FALSE]
        /\ pc' = "writable" /\ de' = de =>
             node'[Standby] = [node[Standby] EXCEPT !.retired = FALSE] \/ de.kept
    <3>1. pc' = "writable" /\ de' = de =>
            Set(Standby, [node[Standby] EXCEPT !.retired = FALSE]) \/ de.kept
      BY <2>1 DEF Deploy
    <3> QED
      BY <2>1, <3>1, SetOne
  <2>4. LET n == node[Standby]
            m == node'[Standby]
        IN /\ m.rec = n.rec /\ m.fence = n.fence /\ m.db = n.db
           /\ m.pending = n.pending /\ m.id = n.id /\ m.tl = n.tl /\ m.data = n.data
           /\ (m.retired => n.retired)
           /\ (pc' = "writable" /\ de' = de /\ ~de.kept => ~m.retired)
    BY <2>3 DEF Node
  <2>5. Armed(Primary)' = Armed(Primary)
    BY <2>2, <2>3 DEF Armed
  <2>6. GivenUp(Standby)' = GivenUp(Standby) /\ OneOn' = OneOn
    BY <2>2, <2>3, <2>4 DEF GivenUp, OneOn
  <2>7. RolesKept'
    BY <2>1, <2>2, <2>3, <2>4, <2>5, <2>6 DEF RolesKept
  <2>8. JournalKept' /\ HealthyKept'
    BY <1>1, <1>5, <2>1, <2>2, <2>4, <2>5 DEF JournalKept, HealthyKept
  <2>9. CASE pc' = "writable"
    <3>1. /\ de'.retired = de.retired /\ de'.sysid = de.sysid
          /\ (~de'.kept => de' = de /\ ~de.kept /\ node[Standby].rec)
      BY <2>1, <2>9, PcsApart DEF Deploy
    <3>2. DeployKept'
      BY <1>1, <2>1, <2>2, <2>4, <2>5, <2>9, <3>1 DEF DeployKept, DeployPc
    <3> QED
      BY <2>7, <2>8, <3>2
  <2> QED
    BY <1>4, <2>1, <2>7, <2>8, <2>9
<1>17. CASE AssertWritable
  <2>1. /\ pc = "writable"
        /\ \/ pc' = "save" /\ de' = de
           \/ pc' = "idle" /\ de' = NoDeploy
        /\ \E f \in {"off", node[Primary].fence}, m \in {None, cfg.marker} :
             FenceStep(f, m) /\ (f # "off" => m = cfg.marker)
    <3>1. \/ UNCHANGED <<node, cfg>>
          \/ /\ Set(Primary, [node[Primary] EXCEPT !.fence = "off"])
             /\ cfg' = cfg \/ cfg' = [cfg EXCEPT !.marker = None]
      BY <1>17 DEF AssertWritable, Saved, SaveFailed, Unfenced
    <3>2. link' = link
      BY <1>17 DEF AssertWritable
    <3>3. \/ FenceStep(node[Primary].fence, cfg.marker)
          \/ FenceStep("off", cfg.marker) \/ FenceStep("off", None)
      BY <3>1, <3>2 DEF FenceStep
    <3>4. /\ pc = "writable"
          /\ \/ pc' = "save" /\ de' = de
             \/ pc' = "idle" /\ de' = NoDeploy
      BY <1>17 DEF AssertWritable, DeployExit, Goto
    <3> QED
      BY <3>3, <3>4
  <2>2. PICK f \in {"off", node[Primary].fence}, m \in {None, cfg.marker} :
             FenceStep(f, m) /\ (f # "off" => m = cfg.marker)
    BY <2>1
  <2>3. /\ f \in {"off", "set", "on"} /\ m \in {Primary, None}
        /\ f # "off" => m = Primary
    BY <2>2 DEF Node, RolesKept
  <2>4. RolesKept' /\ JournalKept' /\ FenceView(f, m)
    BY <1>1, <2>2, <2>3, FenceKept
  <2>5. HealthyKept'
    BY <1>5, <2>4 DEF HealthyKept, FenceView
  <2>6. pc' = "save" /\ de' = de => DeployKept'
    BY <1>1, <2>1, <2>4 DEF DeployKept, FenceView, DeployPc
  <2> QED
    BY <1>4, <2>1, <2>4, <2>5, <2>6
<1>18. CASE FinalSave
  <2>1. /\ UNCHANGED <<node, link>> /\ pc = "save" /\ pc' = "idle" /\ de' = NoDeploy
        /\ \/ cfg' = cfg
           \/ cfg' = [cfg EXCEPT !.sysid = de.sysid, !.degraded = de.sysid = None,
                                 !.swapped = cfg.swapped /\ de.kept]
    BY <1>18 DEF FinalSave, DeployExit, Goto, Saved, SaveFailed
  <2>2. CASE cfg' = cfg
    <3>1. QuietStep
      BY <2>1, <2>2, QuietUpdates, SharedFacts DEF QuietStep
    <3> QED
      BY <1>6, <2>1, <3>1
  <2>3. CASE cfg' = [cfg EXCEPT !.sysid = de.sysid, !.degraded = de.sysid = None,
                                !.swapped = cfg.swapped /\ de.kept]
    <3>1. /\ cfg'.primary = cfg.primary /\ cfg'.journal = cfg.journal
          /\ cfg'.marker = cfg.marker /\ cfg'.discard = cfg.discard
          /\ (cfg'.degraded <=> de.sysid = None)
          /\ (cfg'.swapped <=> cfg.swapped /\ de.kept)
      BY <2>3 DEF Config
    <3>2. Primary' = Primary /\ Standby' = Standby
      BY <3>1, SameRoles
    <3>3. Armed(Primary)' = Armed(Primary) /\ Armed(Primary)
      BY <2>1, <3>2 DEF Armed, DeployKept, DeployPc
    <3>4. GivenUp(Standby)' = GivenUp(Standby) /\ OneOn' = OneOn
      BY <2>1, <3>2 DEF GivenUp, OneOn
    <3>5. /\ de.sysid # None => node[Standby].rec
          /\ cfg.swapped /\ ~de.kept => node[Standby].rec /\ ~node[Standby].retired
      BY <1>1, <2>1 DEF DeployKept
    <3>6. RolesKept'
      BY <1>1, <2>1, <3>1, <3>2, <3>3, <3>4, <3>5 DEF RolesKept
    <3>7. JournalKept' /\ HealthyKept'
      BY <1>1, <2>1, <3>1, <3>2, <3>3, <3>5 DEF JournalKept, HealthyKept
    <3> QED
      BY <1>4, <2>1, <3>6, <3>7
  <2> QED
    BY <2>1, <2>2, <2>3
<1> QED
  BY <1>7, <1>8, <1>9, <1>10, <1>11, <1>12, <1>13, <1>14, <1>15, <1>16, <1>17, <1>18
  DEF DeployStep

-----------------------------------------------------------------------------
(* failover.                                                               *)

\* What FailoverKept reads of a quiet pair.
LEMMA QuietStill ==
  ASSUME Shared, QuietStep
  PROVE  /\ Primary' = Primary /\ Standby' = Standby /\ cfg' = cfg
         /\ node'[Primary].fence = node[Primary].fence
         /\ node'[Primary].data = node[Primary].data
         /\ node'[Standby].rec = node[Standby].rec
         /\ node'[Standby].data = node[Standby].data
         /\ Armed(Primary)' = Armed(Primary) /\ Armed(Standby)' = Armed(Standby)
BY QuietPair DEF QuietView, Quiet, Alike, Armed

\* A failover that runs leaves the other commands at rest.
LEMMA Failing ==
  ASSUME PairInv, pc \in FailoverPc, pc' \in FailoverPc \cup {"idle"}, UNCHANGED <<ab, de>>
  PROVE  AbortKept' /\ DeployKept'
BY PcsApart, NotAborting, NotDeploying DEF PairInv, AbortKept, DeployKept

\* The exits change nothing: what is in flight stays so for the next command.
LEMMA QuietExit ==
  ASSUME Shared, QuietStep, PairInv, UNCHANGED <<ab, de>>,
         pc \in FailoverPc, pc' = "idle", fo' = NoFailover
  PROVE  PairInv'
<1>1. RolesKept' /\ JournalKept' /\ FailoverKept' /\ AbortKept' /\ DeployKept'
  BY QuietKept, NotFailing, Failing, PcsApart DEF PairInv
<1>2. Untouched' => Untouched
  BY PcsApart DEF QuietStep, Untouched
<1> QED
  BY <1>1, <1>2, QuietStill DEF PairInv, HealthyKept

\* A quiet step goes on when it has established what the next step relies on.
LEMMA QuietGoesOn ==
  ASSUME Shared, QuietStep, PairInv, UNCHANGED <<ab, de>>,
         pc \in FailoverPc, pc' \in FailoverPc, FailoverKept', Untouched' => Untouched
  PROVE  PairInv'
<1>1. RolesKept' /\ JournalKept' /\ AbortKept' /\ DeployKept'
  BY QuietKept, Failing DEF PairInv
<1> QED
  BY <1>1, QuietStill DEF PairInv, HealthyKept

\* Where a step that fails before the promote goes: nowhere, or, with no earlier
\* run's journal, to undo what this run did.
LEMMA AbortsTo ==
  ASSUME NEW from, Aborts(from)
  PROVE  /\ pc = from
         /\ \/ pc' = "idle" /\ fo' = NoFailover
            \/ pc' \in {"unfence", "restart"} /\ fo' = fo /\ ~fo.journaled
BY DEF Aborts, AbortedTo, Goto

LEMMA NotFencedTo ==
  ASSUME NEW from, NotFenced(from)
  PROVE  /\ pc = from
         /\ \/ pc' = "idle" /\ fo' = NoFailover
            \/ pc' \in {"unfence", "restart"} /\ fo' = fo /\ ~fo.journaled
            \/ pc' = "demote" /\ fo' = fo /\ fo.resume
BY AbortsTo DEF NotFenced, Goto

LEMMA NotArmedTo ==
  ASSUME NEW from, NotArmed(from)
  PROVE  /\ pc = from
         /\ \/ pc' = "idle" /\ fo' = NoFailover
            \/ pc' \in {"unfence", "restart"} /\ fo' = fo /\ ~fo.journaled
            \/ pc' = "disarm" /\ fo' = fo /\ ~fo.journaled
BY AbortsTo DEF NotArmed, Goto

\* A quiet step that may also give up, undo or resume: only where it goes on
\* regularly is its own.
LEMMA QuietFailoverStep ==
  ASSUME Shared, QuietStep, PromoteOwned, PairInv, UNCHANGED <<ab, de>>, pc \in FailoverPc,
         \/ pc' = "idle" /\ fo' = NoFailover
         \/ /\ pc' \in {"unfence", "restart"} /\ fo' = fo /\ ~fo.journaled
            /\ pc \in BeforeIssue
         \/ /\ pc' = "demote" /\ fo' = fo /\ fo.resume /\ pc \in Fencings
         \/ /\ pc' = "disarm" /\ fo' = fo /\ ~fo.journaled /\ pc \in {"arm", "journal"}
         \/ pc' \in FailoverPc /\ FailoverKept' /\ (Untouched' => Untouched)
  PROVE  PairInv'
<1>1. CASE pc' = "idle" /\ fo' = NoFailover
  BY <1>1, QuietExit
<1>2. CASE /\ pc' \in {"unfence", "restart"} /\ fo' = fo /\ ~fo.journaled
           /\ pc \in BeforeIssue
  <2>1. FailoverKept'
    BY <1>2, QuietStill
    DEF PairInv, FailoverKept, FailoverPc, BeforeIssue, Fencings, Proving, AfterPromote
  <2>2. pc' \in FailoverPc /\ Untouched
    BY <1>2 DEF FailoverPc, Untouched
  <2> QED
    BY <2>1, <2>2, QuietGoesOn
<1>3. CASE pc' = "demote" /\ fo' = fo /\ fo.resume /\ pc \in Fencings
  <2>1. cfg.journal # None /\ Armed(Standby) /\ fo.journaled
    BY <1>3 DEF PairInv, FailoverKept
  <2>2. FailoverKept'
    BY <1>3, <2>1, QuietStill
    DEF PairInv, FailoverKept, FailoverPc, BeforeIssue, Fencings, Proving, AfterPromote
  <2>3. pc' \in FailoverPc /\ ~Untouched'
    BY <1>3, <2>1, QuietStill DEF FailoverPc, Untouched
  <2> QED
    BY <2>2, <2>3, QuietGoesOn
<1>4. CASE pc' = "disarm" /\ fo' = fo /\ ~fo.journaled /\ pc \in {"arm", "journal"}
  <2>1. FailoverKept'
    BY <1>4, QuietStill
    DEF PairInv, FailoverKept, FailoverPc, BeforeIssue, Fencings, Proving, AfterPromote
  <2>2. pc' \in FailoverPc /\ Untouched
    BY <1>4 DEF FailoverPc, BeforeIssue, Untouched
  <2> QED
    BY <2>1, <2>2, QuietGoesOn
<1>5. CASE pc' \in FailoverPc /\ FailoverKept' /\ (Untouched' => Untouched)
  BY <1>5, QuietGoesOn
<1> QED
  BY <1>1, <1>2, <1>3, <1>4, <1>5

\* The gates: they change nothing, but what they let through is a standby in
\* recovery, or one an earlier run's journal promoted.
LEMMA GatesKept ==
  ASSUME Shared, fo \in Failover, PromoteOwned, PairInv, UNCHANGED <<ab, de>>,
         ProbePrimary \/ LiftStranded \/ Check
  PROVE  PairInv'
<1> USE PairFacts, NoneAssumption
<1>1. CASE ProbePrimary
  <2>1. QuietStep /\ pc \in FailoverPc
    BY <1>1, QuietUpdates, SharedFacts DEF ProbePrimary, QuietStep, FailoverPc
  <2>2. /\ pc = "ready" /\ pc' \in {"lift", "check"}
        /\ \E answer \in BOOLEAN : fo' = [fo EXCEPT !.planned = answer]
    BY <1>1 DEF ProbePrimary
  <2>3. /\ fo'.journaled = fo.journaled /\ fo'.resume = fo.resume
        /\ fo'.lsn = fo.lsn
    BY <2>2 DEF Failover
  <2>4. FailoverKept'
    BY <2>1, <2>2, <2>3, QuietStill
    DEF PairInv, FailoverKept, FailoverPc, BeforeIssue, Fencings, Proving, AfterPromote
  <2>5. pc' \in FailoverPc /\ (Untouched' => Untouched)
    BY <2>1, <2>2 DEF FailoverPc, BeforeIssue, Untouched, QuietStep
  <2> QED
    BY <2>1, <2>4, <2>5, QuietGoesOn
<1>2. CASE LiftStranded
  <2>1. cfg.marker # Standby
    BY DEF PairInv, RolesKept
  <2>2. pc = "lift" /\ link' = link
    BY <1>2 DEF LiftStranded
  <2>3. CASE /\ cfg.marker = None \/ cfg.journal # None
             /\ pc' = "check" /\ UNCHANGED <<node, cfg, used, fo>>
    <3>1. QuietStep /\ pc \in FailoverPc /\ pc' \in FailoverPc
      BY <2>2, <2>3, QuietUpdates, SharedFacts DEF QuietStep, FailoverPc
    <3>2. FailoverKept'
      BY <2>2, <2>3, <3>1, QuietStill
      DEF PairInv, FailoverKept, FailoverPc, BeforeIssue, Fencings, Proving, AfterPromote
    <3>3. Untouched' => Untouched
      BY <2>3 DEF BeforeIssue, Untouched
    <3> QED
      BY <3>1, <3>2, <3>3, QuietGoesOn
  <2>4. CASE /\ cfg.marker = Primary /\ cfg.journal = None
             /\ \/ UNCHANGED <<node, cfg>>
                \/ /\ Set(Primary, [node[Primary] EXCEPT !.fence = "off"])
                   /\ cfg' = cfg \/ cfg' = [cfg EXCEPT !.marker = None]
             /\ \/ pc' = "check" /\ fo' = fo
                \/ pc' = "idle" /\ fo' = NoFailover
    <3>1. \/ FenceStep(node[Primary].fence, cfg.marker)
          \/ FenceStep("off", cfg.marker) \/ FenceStep("off", None)
      BY <2>2, <2>4 DEF FenceStep
    <3>2. PICK f \in {"off", node[Primary].fence}, m \in {None, cfg.marker} :
            FenceStep(f, m) /\ (f # "off" => m = cfg.marker)
      BY <3>1
    <3>3. /\ f \in {"off", "set", "on"} /\ m \in {Primary, None}
          /\ f # "off" => m = Primary
      BY <2>4, <3>2 DEF Node
    <3>4. RolesKept' /\ JournalKept' /\ FenceView(f, m)
      BY <2>4, <3>2, <3>3, FenceKept DEF PairInv
    <3>5. HealthyKept'
      BY <2>4, <3>4 DEF PairInv, HealthyKept, Untouched, FenceView
    <3>6. FailoverKept'
      <4>1. CASE pc' = "idle"
        BY <2>4, <4>1, NotFailing, PcsApart
      <4>2. CASE pc' = "check" /\ fo' = fo
        BY <2>2, <3>4, <4>2
        DEF PairInv, FailoverKept, FailoverPc, BeforeIssue, Fencings, Proving,
            AfterPromote, FenceView
      <4> QED
        BY <2>4, <4>1, <4>2
    <3>7. pc \in FailoverPc /\ pc' \in FailoverPc \cup {"idle"}
      BY <2>2, <2>4 DEF FailoverPc
    <3> QED
      BY <3>4, <3>5, <3>6, <3>7, Failing DEF PairInv
  <2> QED
    BY <1>2, <2>1, <2>3, <2>4 DEF LiftStranded, Saved, Exit, Goto, Unfenced
<1>3. CASE Check
  <2>1. QuietStep /\ pc = "check"
    BY <1>3, QuietUpdates, SharedFacts DEF Check, QuietStep
  <2>2. CASE pc' = "idle"
    <3>1. fo' = NoFailover /\ pc \in FailoverPc
      BY <1>3, <2>1, <2>2 DEF Check, Exit, FailoverPc
    <3> QED
      BY <2>1, <2>2, <3>1, QuietExit
  <2>3. CASE pc' # "idle"
    <3>1. PICK f \in Forced, standby \in StandbyReadings, read \in BOOLEAN :
            LET primaryId == IF read THEN node[Primary].id ELSE None
            IN /\ Gate(f, standby, primaryId)
               /\ fo' = [fo EXCEPT !.journaled = cfg.journal # None,
                                   !.resume = ~node[Standby].rec,
                                   !.seen = standby.id]
               /\ pc' = IF fo.planned THEN "quiesce"
                        ELSE IF fo'.resume THEN "demote" ELSE "reseed"
      BY <1>3, <2>3 DEF Check, Exit, Goto
    <3>2. /\ fo'.journaled <=> cfg.journal # None
          /\ fo'.resume <=> ~node[Standby].rec
          /\ fo'.planned = fo.planned /\ fo'.lsn = fo.lsn
      BY <3>1 DEF Failover
    <3>3. node[Standby].rec \/ cfg.journal # None
      BY <3>1 DEF Gate, ResumeAllowed, PromoteAllowed
    <3>4. node[Standby].db # "zero"
      BY <1>3, <2>3 DEF Check, Exit, Goto, DbAnswers, Running
    <3>5. ~node[Standby].rec => cfg.journal # None /\ Armed(Standby)
      BY <3>3, <3>4 DEF PairInv, JournalKept
    <3>6. /\ pc' \in {"quiesce", "demote", "reseed"}
          /\ (pc' = "quiesce" => fo.planned) /\ (pc' # "quiesce" => ~fo.planned)
          /\ (pc' = "demote" => ~node[Standby].rec)
      BY <3>1, <3>2
    <3>7. ~cfg.swapped /\ ~fo.lsn
      BY <2>1 DEF PairInv, FailoverKept, FailoverPc
    <3>8. pc \in FailoverPc /\ pc' \in FailoverPc
      BY <2>1, <3>6 DEF FailoverPc
    <3>9. FailoverKept'
      BY <2>1, <3>2, <3>3, <3>5, <3>6, <3>7, <3>8, QuietStill
      DEF FailoverKept, BeforeIssue, Fencings, Proving, AfterPromote
    <3>10. Untouched' => Untouched
      BY <2>1, <3>2, QuietStill DEF Untouched
    <3> QED
      BY <2>1, <3>8, <3>9, <3>10, QuietGoesOn
  <2> QED
    BY <2>2, <2>3
<1> QED
  BY <1>1, <1>2, <1>3

\* STEP 3 of a planned failover: the writers, then the fence, on record first.
LEMMA FencingKept ==
  ASSUME Shared, fo \in Failover, PromoteOwned, PairInv, UNCHANGED <<ab, de>>,
         Quiesce \/ Drained \/ Mark \/ Fence \/ Terminate
  PROVE  PairInv'
<1> USE PairFacts, NoneAssumption
<1>1. CASE Quiesce
  <2>1. QuietStep /\ pc \in FailoverPc
    BY <1>1, ScaleQuiet DEF Quiesce, QuietStep, FailoverPc
  <2>2. pc = "quiesce" /\ pc' = "drained" /\ fo' = fo
    BY <1>1 DEF Quiesce
  <2>3. FailoverKept'
    BY <2>1, <2>2, QuietStill
    DEF PairInv, FailoverKept, FailoverPc, BeforeIssue, Fencings, Proving, AfterPromote
  <2>4. pc' \in FailoverPc /\ (Untouched' => Untouched)
    BY <2>1, <2>2 DEF FailoverPc, BeforeIssue, Untouched, QuietStep
  <2> QED
    BY <2>1, <2>3, <2>4, QuietGoesOn
<1>2. CASE Drained
  <2>1. QuietStep /\ pc \in FailoverPc
    BY <1>2, QuietUpdates, SharedFacts DEF Drained, QuietStep, FailoverPc
  <2>2. pc = "drained" /\ ((pc' = "mark" /\ fo' = fo) \/ NotFenced("drained"))
    BY <1>2 DEF Drained
  <2>3. CASE pc' = "mark" /\ fo' = fo
    <3>1. FailoverKept'
      BY <2>1, <2>2, <2>3, QuietStill
      DEF PairInv, FailoverKept, FailoverPc, BeforeIssue, Fencings, Proving, AfterPromote
    <3>2. pc' \in FailoverPc /\ (Untouched' => Untouched)
      BY <2>1, <2>2, <2>3 DEF FailoverPc, BeforeIssue, Untouched, QuietStep
    <3> QED
      BY <2>1, <3>1, <3>2, QuietGoesOn
  <2>4. CASE NotFenced("drained")
    BY <2>1, <2>2, <2>4, NotFencedTo, QuietFailoverStep DEF BeforeIssue, Fencings
  <2> QED
    BY <2>2, <2>3, <2>4
<1>3. CASE Mark
  <2>1. /\ pc = "mark" /\ UNCHANGED <<node, link>>
        /\ \/ /\ cfg' = [cfg EXCEPT !.marker = Primary]
              /\ pc' = "fence" /\ fo' = [fo EXCEPT !.tried = TRUE]
           \/ cfg' = cfg /\ NotFenced("mark")
    BY <1>3 DEF Mark, Saved, SaveFailed
  <2>2. CASE cfg' = cfg /\ NotFenced("mark")
    <3>1. QuietStep /\ pc \in FailoverPc
      BY <2>1, <2>2, QuietUpdates, SharedFacts DEF QuietStep, FailoverPc
    <3> QED
      BY <2>1, <2>2, <3>1, NotFencedTo, QuietFailoverStep DEF BeforeIssue, Fencings
  <2>3. CASE /\ cfg' = [cfg EXCEPT !.marker = Primary]
             /\ pc' = "fence" /\ fo' = [fo EXCEPT !.tried = TRUE]
    <3>1. FenceStep(node[Primary].fence, Primary)
      BY <2>1, <2>3 DEF FenceStep
    <3>2. node[Primary].fence \in {"off", "set", "on"}
      BY DEF Node
    <3>3. RolesKept' /\ JournalKept' /\ FenceView(node[Primary].fence, Primary)
      BY <3>1, <3>2, FenceKept DEF PairInv
    <3>4. /\ fo'.journaled = fo.journaled /\ fo'.resume = fo.resume
          /\ fo'.planned = fo.planned /\ fo'.lsn = fo.lsn
      BY <2>3 DEF Failover
    <3>5. FailoverKept'
      BY <2>1, <2>3, <3>3, <3>4
      DEF PairInv, FailoverKept, FailoverPc, BeforeIssue, Fencings, Proving,
          AfterPromote, FenceView
    <3>6. HealthyKept'
      BY <2>1, <3>3, <3>4 DEF PairInv, HealthyKept, Untouched, BeforeIssue, FenceView
    <3>7. pc \in FailoverPc /\ pc' \in FailoverPc
      BY <2>1, <2>3 DEF FailoverPc
    <3> QED
      BY <3>3, <3>5, <3>6, <3>7, Failing DEF PairInv
  <2> QED
    BY <2>1, <2>2, <2>3
<1>4. CASE Fence \/ Terminate
  <2>1. /\ pc \in {"fence", "terminate"} /\ pc \in FailoverPc /\ pc \in Fencings
        /\ cfg.marker = Primary
    BY <1>4 DEF Fence, Terminate, FailoverPc, Fencings, PairInv, FailoverKept
  <2>2. \E f \in {"off", "set", "on"} :
          /\ FenceStep(f, cfg.marker)
          /\ f \in {"on", node[Primary].fence} \/ node[Primary].fence # "on"
          /\ \/ pc' = "terminate" /\ fo' = fo
             \/ pc' = "demote" /\ fo' = fo /\ fo.resume
             \/ pc' = "capture" /\ fo' = fo /\ f = "on"
             \/ pc' = "idle" /\ fo' = NoFailover
             \/ pc' \in {"unfence", "restart"} /\ fo' = fo /\ ~fo.journaled
    <3>0. node[Primary].fence \in {"off", "set", "on"}
      BY DEF Node
    <3>1. CASE Fence
      <4> DEFINE f == IF node[Primary].fence = "on" THEN "on" ELSE "set"
      <4>1. /\ UNCHANGED <<link, cfg>>
            /\ \/ node' = node
               \/ Set(Primary, [node[Primary] EXCEPT !.fence = f])
            /\ (pc' = "terminate" /\ fo' = fo) \/ NotFenced("fence")
        BY <3>1 DEF Fence, Fencing
      <4>2. /\ f \in {"off", "set", "on"}
            /\ f \in {"on", node[Primary].fence} \/ node[Primary].fence # "on"
        OBVIOUS
      <4>3. FenceStep(f, cfg.marker) \/ FenceStep(node[Primary].fence, cfg.marker)
        BY <4>1 DEF FenceStep
      <4> HIDE DEF f
      <4> QED
        BY <3>0, <4>1, <4>2, <4>3, NotFencedTo
    <3>2. CASE Terminate
      <4>1. /\ UNCHANGED <<link, cfg>>
            /\ \/ /\ Set(Primary, [node[Primary] EXCEPT !.fence = "on"]) /\ fo' = fo
                  /\ (pc' = "demote" /\ fo.resume) \/ pc' = "capture"
               \/ node' = node /\ NotFenced("terminate")
        BY <3>2 DEF Terminate
      <4>2. CASE node' = node /\ NotFenced("terminate")
        <5>1. FenceStep(node[Primary].fence, cfg.marker)
          BY <4>1, <4>2 DEF FenceStep
        <5> QED
          BY <3>0, <4>2, <5>1, NotFencedTo
      <4>3. CASE /\ Set(Primary, [node[Primary] EXCEPT !.fence = "on"]) /\ fo' = fo
                 /\ (pc' = "demote" /\ fo.resume) \/ pc' = "capture"
        <5>1. FenceStep("on", cfg.marker)
          BY <4>1, <4>3 DEF FenceStep
        <5> QED
          BY <4>3, <5>1
      <4> QED
        BY <4>1, <4>2, <4>3
    <3> QED
      BY <1>4, <3>1, <3>2
  <2>3. PICK f \in {"off", "set", "on"} :
          /\ FenceStep(f, cfg.marker)
          /\ f \in {"on", node[Primary].fence} \/ node[Primary].fence # "on"
          /\ \/ pc' = "terminate" /\ fo' = fo
             \/ pc' = "demote" /\ fo' = fo /\ fo.resume
             \/ pc' = "capture" /\ fo' = fo /\ f = "on"
             \/ pc' = "idle" /\ fo' = NoFailover
             \/ pc' \in {"unfence", "restart"} /\ fo' = fo /\ ~fo.journaled
    BY <2>2
  <2>4. RolesKept' /\ JournalKept' /\ FenceView(f, cfg.marker)
    BY <2>1, <2>3, FenceKept DEF PairInv
  <2>5. pc' \in FailoverPc \cup {"idle"} /\ pc' # "retire"
    BY <2>3 DEF FailoverPc
  <2>6. AbortKept' /\ DeployKept'
    BY <2>1, <2>5, Failing
  <2>7. fo.resume => fo.journaled /\ cfg.journal # None /\ Armed(Standby)
    BY <2>1 DEF PairInv, FailoverKept, FailoverPc, Fencings
  <2>8. Untouched' => Untouched
    BY <2>1, <2>3, <2>4, <2>7 DEF Untouched, BeforeIssue, FenceView
  <2>9. HealthyKept'
    BY <2>4, <2>8 DEF PairInv, HealthyKept, FenceView
  <2>10. FailoverKept'
    <3>1. CASE pc' = "idle" /\ fo' = NoFailover
      BY <3>1, NotFailing, PcsApart
    <3>2. CASE pc' = "terminate" /\ fo' = fo
      BY <2>1, <2>4, <2>7, <3>2
      DEF PairInv, FailoverKept, FailoverPc, BeforeIssue, Fencings, Proving, AfterPromote,
          FenceView
    <3>3. CASE pc' = "demote" /\ fo' = fo /\ fo.resume
      BY <2>1, <2>4, <2>7, <3>3
      DEF PairInv, FailoverKept, FailoverPc, BeforeIssue, Fencings, Proving, AfterPromote,
          FenceView
    <3>4. CASE pc' = "capture" /\ fo' = fo /\ f = "on"
      BY <2>1, <2>4, <2>7, <3>4
      DEF PairInv, FailoverKept, FailoverPc, BeforeIssue, Fencings, Proving, AfterPromote,
          FenceView
    <3>5. CASE pc' \in {"unfence", "restart"} /\ fo' = fo /\ ~fo.journaled
      BY <2>1, <2>4, <2>7, <3>5
      DEF PairInv, FailoverKept, FailoverPc, BeforeIssue, Fencings, Proving, AfterPromote,
          FenceView
    <3> QED
      BY <2>3, <3>1, <3>2, <3>3, <3>4, <3>5
  <2> QED
    BY <2>4, <2>6, <2>9, <2>10 DEF PairInv
<1> QED
  BY <1>1, <1>2, <1>3, <1>4

\* STEP 4, what it reads: the proof of the standby's data, and the standby in
\* recovery before the promote and out of it after.
LEMMA ProofReadKept ==
  ASSUME Shared, fo \in Failover, PromoteOwned, PairInv, UNCHANGED <<ab, de>>,
         \/ Capture \/ Replayed \/ SkipReseed \/ ProbeSource \/ AssertUnfenced
         \/ ReadBeforePromote \/ Poll
  PROVE  PairInv'
<1> USE PairFacts, NoneAssumption
<1>1. QuietStep /\ pc \in FailoverPc
  <2>1. UNCHANGED <<node, link, cfg>>
    BY DEF Capture, Replayed, SkipReseed, ProbeSource, AssertUnfenced, ReadBeforePromote, Poll
  <2>2. pc \in {"capture", "replayed", "reseed", "source", "unfenced", "send", "poll"}
    BY DEF Capture, Replayed, SkipReseed, ProbeSource, AssertUnfenced, ReadBeforePromote, Poll
  <2> QED
    BY <2>1, <2>2, QuietUpdates, SharedFacts DEF QuietStep, FailoverPc
<1>2. CASE Capture
  <2>1. /\ pc = "capture"
        /\ \/ \E streams \in BOOLEAN :
                /\ fo' = [fo EXCEPT !.lsn = TRUE,
                                    !.proof = IF streams THEN "none" ELSE "behind"]
                /\ pc' = IF streams THEN "replayed" ELSE "reseed"
           \/ Aborts("capture")
    BY <1>2 DEF Capture
  <2>2. CASE Aborts("capture")
    BY <1>1, <2>1, <2>2, AbortsTo, QuietFailoverStep DEF BeforeIssue
  <2>3. CASE \E streams \in BOOLEAN :
                /\ fo' = [fo EXCEPT !.lsn = TRUE,
                                    !.proof = IF streams THEN "none" ELSE "behind"]
                /\ pc' = IF streams THEN "replayed" ELSE "reseed"
    <3>1. /\ fo'.journaled = fo.journaled /\ fo'.resume = fo.resume
          /\ fo'.planned = fo.planned /\ fo'.lsn /\ fo'.proof \notin Proven
          /\ pc' \in {"replayed", "reseed"}
      BY <2>3 DEF Failover, Proven
    <3>2. FailoverKept'
      BY <1>1, <2>1, <3>1, QuietStill
      DEF PairInv, FailoverKept, FailoverPc, BeforeIssue, Fencings, Proving, AfterPromote
    <3>3. pc' \in FailoverPc /\ (Untouched' => Untouched)
      BY <1>1, <2>1, <3>1 DEF FailoverPc, BeforeIssue, Untouched, QuietStep
    <3> QED
      BY <1>1, <3>2, <3>3, QuietGoesOn
  <2> QED
    BY <2>1, <2>2, <2>3
<1>3. CASE Replayed
  <2>1. /\ pc = "replayed"
        /\ \/ /\ node[Primary].data \subseteq node[Standby].data
              /\ fo' = [fo EXCEPT !.proof = "caughtUp"] /\ pc' = "reseed"
           \/ Aborts("replayed")
    BY <1>3 DEF Replayed, CaughtUp
  <2>2. CASE Aborts("replayed")
    BY <1>1, <2>1, <2>2, AbortsTo, QuietFailoverStep DEF BeforeIssue
  <2>3. CASE /\ node[Primary].data \subseteq node[Standby].data
             /\ fo' = [fo EXCEPT !.proof = "caughtUp"] /\ pc' = "reseed"
    <3>1. /\ fo'.journaled = fo.journaled /\ fo'.resume = fo.resume
          /\ fo'.planned = fo.planned /\ fo'.lsn = fo.lsn
      BY <2>3 DEF Failover
    <3>2. FailoverKept'
      BY <1>1, <2>1, <2>3, <3>1, QuietStill
      DEF PairInv, FailoverKept, FailoverPc, BeforeIssue, Fencings, Proving, AfterPromote
    <3>3. pc' \in FailoverPc /\ (Untouched' => Untouched)
      BY <1>1, <2>1, <2>3, <3>1 DEF FailoverPc, BeforeIssue, Untouched, QuietStep
    <3> QED
      BY <1>1, <3>2, <3>3, QuietGoesOn
  <2> QED
    BY <2>1, <2>2, <2>3
<1>4. CASE SkipReseed
  <2>1. pc = "reseed" /\ pc' \in {"arm", "source"} /\ fo' = fo
    BY <1>4 DEF SkipReseed
  <2>2. FailoverKept'
    BY <1>1, <2>1, QuietStill
    DEF PairInv, FailoverKept, FailoverPc, BeforeIssue, Fencings, Proving, AfterPromote
  <2>3. pc' \in FailoverPc /\ (Untouched' => Untouched)
    BY <1>1, <2>1 DEF FailoverPc, BeforeIssue, Untouched, QuietStep
  <2> QED
    BY <1>1, <2>2, <2>3, QuietGoesOn
<1>5. CASE ProbeSource
  <2>1. /\ pc = "source"
        /\ \/ pc' = "copy" /\ fo' = fo
           \/ /\ pc' = "arm"
              /\ fo' = [fo EXCEPT !.proof = IF @ = "caughtUp" THEN @ ELSE "skipped"]
    BY <1>5 DEF ProbeSource
  <2>2. /\ fo'.journaled = fo.journaled /\ fo'.resume = fo.resume
        /\ fo'.planned = fo.planned /\ fo'.lsn = fo.lsn
        /\ fo'.proof \in Proven => fo'.proof = fo.proof
    BY <2>1 DEF Failover, Proven
  <2>3. FailoverKept'
    BY <1>1, <2>1, <2>2, QuietStill
    DEF PairInv, FailoverKept, FailoverPc, BeforeIssue, Fencings, Proving, AfterPromote
  <2>4. pc' \in FailoverPc /\ (Untouched' => Untouched)
    BY <1>1, <2>1, <2>2 DEF FailoverPc, BeforeIssue, Untouched, QuietStep
  <2> QED
    BY <1>1, <2>3, <2>4, QuietGoesOn
<1>6. CASE AssertUnfenced
  <2>1. pc = "unfenced" /\ ((pc' = "arm" /\ fo' = fo) \/ Aborts("unfenced"))
    BY <1>6 DEF AssertUnfenced
  <2>2. CASE Aborts("unfenced")
    BY <1>1, <2>1, <2>2, AbortsTo, QuietFailoverStep DEF BeforeIssue
  <2>3. CASE pc' = "arm" /\ fo' = fo
    <3>1. FailoverKept'
      BY <1>1, <2>1, <2>3, QuietStill
      DEF PairInv, FailoverKept, FailoverPc, BeforeIssue, Fencings, Proving, AfterPromote
    <3>2. pc' \in FailoverPc /\ (Untouched' => Untouched)
      BY <1>1, <2>1, <2>3 DEF FailoverPc, BeforeIssue, Untouched, QuietStep
    <3> QED
      BY <1>1, <3>1, <3>2, QuietGoesOn
  <2> QED
    BY <2>1, <2>2, <2>3
<1>7. CASE ReadBeforePromote
  <2>1. /\ pc = "send"
        /\ \/ pc' = "issue" /\ fo' = fo
           \/ pc' = "idle" /\ fo' = NoFailover
           \/ /\ pc' \in {"unfence", "clear"} /\ ~fo.journaled
              /\ fo' = [fo EXCEPT !.undo = TRUE]
    BY <1>7 DEF ReadBeforePromote, Exit, Goto
  <2>2. CASE pc' = "idle" /\ fo' = NoFailover
    BY <1>1, <2>2, QuietExit
  <2>3. CASE \/ pc' = "issue" /\ fo' = fo
             \/ /\ pc' \in {"unfence", "clear"} /\ ~fo.journaled
                /\ fo' = [fo EXCEPT !.undo = TRUE]
    <3>1. /\ fo'.journaled = fo.journaled /\ fo'.resume = fo.resume
          /\ fo'.planned = fo.planned /\ fo'.lsn = fo.lsn /\ fo'.proof = fo.proof
      BY <2>3 DEF Failover
    <3>2. FailoverKept'
      BY <1>1, <2>1, <2>3, <3>1, QuietStill
      DEF PairInv, FailoverKept, FailoverPc, BeforeIssue, Fencings, Proving, AfterPromote
    <3>3. pc' \in FailoverPc /\ (Untouched' => Untouched)
      BY <1>1, <2>1, <2>3, <3>1 DEF FailoverPc, BeforeIssue, Untouched, QuietStep
    <3> QED
      BY <1>1, <3>2, <3>3, QuietGoesOn
  <2> QED
    BY <2>1, <2>2, <2>3
<1>8. CASE Poll
  <2>1. /\ pc = "poll"
        /\ \/ DbAnswers(Standby) /\ ~node[Standby].rec /\ pc' = "demote" /\ fo' = fo
           \/ pc' = "idle" /\ fo' = NoFailover
    BY <1>8 DEF Poll, Exit, Goto, Succeeded
  <2>2. CASE pc' = "idle" /\ fo' = NoFailover
    BY <1>1, <2>2, QuietExit
  <2>3. CASE DbAnswers(Standby) /\ ~node[Standby].rec /\ pc' = "demote" /\ fo' = fo
    <3>1. cfg.journal # None /\ node[Standby].db # "zero"
      BY <2>1, <2>3 DEF PairInv, FailoverKept, DbAnswers, Running
    <3>2. Armed(Standby)
      BY <2>3, <3>1 DEF PairInv, JournalKept
    <3>3. FailoverKept'
      BY <1>1, <2>1, <2>3, <3>1, <3>2, QuietStill
      DEF PairInv, FailoverKept, FailoverPc, BeforeIssue, Fencings, Proving, AfterPromote
    <3>4. pc' \in FailoverPc /\ (Untouched' => Untouched)
      BY <1>1, <2>3, <3>1 DEF FailoverPc, BeforeIssue, Untouched, QuietStep
    <3> QED
      BY <1>1, <3>3, <3>4, QuietGoesOn
  <2> QED
    BY <2>1, <2>2, <2>3
<1> QED
  BY <1>2, <1>3, <1>4, <1>5, <1>6, <1>7, <1>8

\* The app tiers and the DNS: nothing the invariant reads.
LEMMA ServingKept ==
  ASSUME Shared, fo \in Failover, PromoteOwned, PairInv, UNCHANGED <<ab, de>>,
         RestartApp \/ ScaleUpPromoted \/ ScaleDownOld \/ StartAddons \/ FlipDns
  PROVE  PairInv'
<1> USE PairFacts, NoneAssumption
<1>1. CASE RestartApp
  <2>1. QuietStep /\ pc \in FailoverPc
    BY <1>1, ScaleQuiet DEF RestartApp, QuietStep, FailoverPc
  <2>2. /\ pc = "restart"
        /\ (pc' = "clear" /\ fo' = fo) \/ (pc' = "idle" /\ fo' = NoFailover)
    BY <1>1 DEF RestartApp, AfterUndo, Goto
  <2>3. CASE pc' = "idle" /\ fo' = NoFailover
    BY <2>1, <2>3, QuietExit
  <2>4. CASE pc' = "clear" /\ fo' = fo
    <3>1. FailoverKept'
      BY <2>1, <2>2, <2>4, QuietStill
      DEF PairInv, FailoverKept, FailoverPc, BeforeIssue, Fencings, Proving, AfterPromote
    <3>2. pc' \in FailoverPc /\ (Untouched' => Untouched)
      BY <2>1, <2>2, <2>4 DEF FailoverPc, BeforeIssue, Untouched, QuietStep
    <3> QED
      BY <2>1, <3>1, <3>2, QuietGoesOn
  <2> QED
    BY <2>2, <2>3, <2>4
<1>2. CASE ScaleUpPromoted \/ ScaleDownOld \/ StartAddons \/ FlipDns
  <2>1. QuietStep
    <3>1. CASE ScaleUpPromoted \/ StartAddons
      <4>1. /\ UNCHANGED <<link, cfg>>
            /\ \/ node' = node
               \/ \E tier, addons \in BOOLEAN :
                    Set(Standby, ScaledUp(node[Standby], tier, addons))
        BY <3>1 DEF ScaleUpPromoted, StartAddons
      <4>2. \A t \in Side : Quiet(node[t], node[t])
        BY SharedFacts, QuietUpdates
      <4>3. ASSUME NEW tier \in BOOLEAN, NEW addons \in BOOLEAN,
                   Set(Standby, ScaledUp(node[Standby], tier, addons))
            PROVE  \A t \in Side : Quiet(node[t], node'[t])
        <5>1. Quiet(node[Standby], ScaledUp(node[Standby], tier, addons))
          BY QuietUpdates
        <5> QED
          BY <4>2, <4>3, <5>1, SetOne
      <4> QED
        BY <4>1, <4>2, <4>3 DEF QuietStep
    <3>2. CASE ScaleDownOld
      BY <3>2, ScaleQuiet DEF ScaleDownOld, QuietStep
    <3>3. CASE FlipDns
      BY <3>3, SharedFacts, QuietUpdates DEF FlipDns, QuietStep
    <3> QED
      BY <1>2, <3>1, <3>2, <3>3
  <2>2. /\ pc \in AfterPromote \ {"swap"} /\ pc' \in AfterPromote
        /\ fo' = fo \/ \E hold \in BOOLEAN : fo' = [fo EXCEPT !.hold = hold]
    BY <1>2 DEF ScaleUpPromoted, ScaleDownOld, StartAddons, FlipDns, Goto, AfterPromote
  <2>3. /\ fo'.journaled = fo.journaled /\ fo'.resume = fo.resume
        /\ fo'.planned = fo.planned /\ fo'.lsn = fo.lsn /\ fo'.proof = fo.proof
    BY <2>2 DEF Failover
  <2>4. pc \in FailoverPc /\ pc' \in FailoverPc
    BY <2>2 DEF FailoverPc, AfterPromote
  <2>5. FailoverKept'
    BY <2>1, <2>2, <2>3, <2>4, QuietStill
    DEF PairInv, FailoverKept, FailoverPc, BeforeIssue, Fencings, Proving, AfterPromote
  <2>6. Untouched' => Untouched
    BY <2>1, <2>2 DEF BeforeIssue, AfterPromote, Untouched, QuietStep
  <2> QED
    BY <2>1, <2>4, <2>5, <2>6, QuietGoesOn
<1> QED
  BY <1>1, <1>2

\* A role write by a failover: the armed standby stays so, and the primary is
\* disarmed only behind a promote.
LEMMA RoleStepKept ==
  ASSUME Shared, PairInv, UNCHANGED <<ab, de>>, View, link' = link, ~cfg.swapped,
         Alike(node[Primary], node'[Primary]), Alike(node[Standby], node'[Standby]),
         \/ Armed(Standby) => Armed(Standby)'
         \/ node[Standby].rec /\ ~node[Standby].pending,
         Untouched' => Untouched /\ Armed(Primary)' = Armed(Primary),
         pc \in FailoverPc, pc' \in FailoverPc \cup {"idle"}, FailoverKept'
  PROVE  PairInv'
<1>1. RolesKept' /\ JournalKept'
  BY RoleWriteKept DEF PairInv
<1>2. AbortKept' /\ DeployKept'
  BY Failing
<1>3. HealthyKept'
  BY DEF PairInv, HealthyKept, View, Alike
<1> QED
  BY <1>1, <1>2, <1>3 DEF PairInv

\* D2 and STEP 4b: the standby armed, disarmed when no promote was sent, and the
\* old primary's role.
LEMMA RolesWrittenKept ==
  ASSUME Shared, fo \in Failover, PromoteOwned, PairInv, UNCHANGED <<ab, de>>,
         Arm \/ Disarm \/ Demote
  PROVE  PairInv'
<1> USE PairFacts, NoneAssumption
<1>1. View /\ link' = link
  BY SameRoles DEF Arm, Disarm, Demote, View
<1>2. /\ pc \in {"arm", "disarm", "demote"} /\ pc \in FailoverPc /\ ~cfg.swapped
  BY DEF Arm, Disarm, Demote, Goto, FailoverPc, PairInv, FailoverKept
<1>3. \A s \in Side : Alike(node[s], node[s])
  BY DEF Alike
<1>4. CASE Arm
  <2>1. /\ pc = "arm"
        /\ \/ /\ Set(Standby, WithRole(node[Standby], "primary", TRUE))
              /\ pc' = "journal" /\ fo' = fo
           \/ /\ \/ node' = node
                 \/ \E live \in BOOLEAN :
                      Set(Standby, WithRole(node[Standby], "primary", live))
              /\ NotArmed("arm")
    BY <1>4 DEF Arm
  <2>2. ASSUME NEW live \in BOOLEAN,
               Set(Standby, WithRole(node[Standby], "primary", live))
        PROVE  /\ node'[Primary] = node[Primary]
               /\ Alike(node[Standby], node'[Standby])
               /\ node'[Standby].intent = "primary"
               /\ node'[Standby].role \in {"primary", node[Standby].role}
               /\ live => node'[Standby].role = "primary"
    <3>1. LET m == WithRole(node[Standby], "primary", live)
          IN /\ Alike(node[Standby], m) /\ m.intent = "primary"
             /\ m.role \in {"primary", node[Standby].role}
             /\ live => m.role = "primary"
      BY RoleUpdates DEF Role
    <3> QED
      BY <2>2, <3>1, SetOne
  <2>3. /\ node'[Primary] = node[Primary] /\ Alike(node[Standby], node'[Standby])
        /\ \/ pc' = "journal" /\ fo' = fo
              /\ node'[Standby].intent = "primary" /\ node'[Standby].role = "primary"
           \/ /\ NotArmed("arm")
              /\ node'[Standby].intent \in {"primary", node[Standby].intent}
              /\ node'[Standby].role \in {"primary", node[Standby].role}
    BY <1>3, <2>1, <2>2
  <2>4. /\ Armed(Primary)' = Armed(Primary) /\ (Armed(Standby) => Armed(Standby)')
        /\ pc' = "journal" => Armed(Standby)'
    BY <1>1, <2>1, <2>3, NotArmedTo DEF View, Armed
  <2>5. \/ pc' = "journal" /\ fo' = fo
        \/ pc' = "idle" /\ fo' = NoFailover
        \/ pc' \in {"unfence", "restart", "disarm"} /\ fo' = fo /\ ~fo.journaled
    BY <2>3, NotArmedTo
  <2>6. FailoverKept'
    <3>1. CASE pc' = "idle" /\ fo' = NoFailover
      BY <3>1, NotFailing, PcsApart
    <3>2. CASE pc' = "journal" /\ fo' = fo
      BY <1>1, <2>1, <2>3, <2>4, <3>2
      DEF PairInv, FailoverKept, FailoverPc, BeforeIssue, Fencings, Proving, AfterPromote,
          View, Alike
    <3>3. CASE pc' \in {"unfence", "restart", "disarm"} /\ fo' = fo /\ ~fo.journaled
      BY <1>1, <2>1, <2>3, <2>4, <3>3
      DEF PairInv, FailoverKept, FailoverPc, BeforeIssue, Fencings, Proving, AfterPromote,
          View, Alike
    <3> QED
      BY <2>5, <3>1, <3>2, <3>3
  <2>7. pc' \in FailoverPc \cup {"idle"} /\ (Untouched' => Untouched)
    BY <1>1, <2>1, <2>5 DEF FailoverPc, BeforeIssue, Untouched, View
  <2> QED
    BY <1>1, <1>2, <1>3, <2>3, <2>4, <2>6, <2>7, RoleStepKept
<1>5. CASE Disarm
  <2>1. /\ pc = "disarm" /\ Aborts("disarm")
        /\ \/ node' = node
           \/ \E live \in BOOLEAN : Set(Standby, WithRole(node[Standby], "standby", live))
    <3>1. Running(Standby) \in BOOLEAN
      BY SharedFacts
    <3> QED
      BY <1>5, <3>1 DEF Disarm
  <2>2. ASSUME NEW live \in BOOLEAN,
               Set(Standby, WithRole(node[Standby], "standby", live))
        PROVE  node'[Primary] = node[Primary] /\ Alike(node[Standby], node'[Standby])
    BY <2>2, SetOne, RoleUpdates DEF Role
  <2>3. node'[Primary] = node[Primary] /\ Alike(node[Standby], node'[Standby])
    BY <1>3, <2>1, <2>2
  <2>4. Armed(Primary)' = Armed(Primary)
    BY <1>1, <2>3 DEF View, Armed
  <2>5. node[Standby].rec /\ ~node[Standby].pending
    BY <2>1 DEF PairInv, FailoverKept, PromoteOwned, BeforeIssue
  <2>6. \/ pc' = "idle" /\ fo' = NoFailover
        \/ pc' \in {"unfence", "restart"} /\ fo' = fo /\ ~fo.journaled
    BY <2>1, AbortsTo
  <2>7. FailoverKept'
    <3>1. CASE pc' = "idle" /\ fo' = NoFailover
      BY <3>1, NotFailing, PcsApart
    <3>2. CASE pc' \in {"unfence", "restart"} /\ fo' = fo /\ ~fo.journaled
      BY <1>1, <2>1, <2>3, <2>4, <3>2
      DEF PairInv, FailoverKept, FailoverPc, BeforeIssue, Fencings, Proving, AfterPromote,
          View, Alike
    <3> QED
      BY <2>6, <3>1, <3>2
  <2>8. pc' \in FailoverPc \cup {"idle"} /\ (Untouched' => Untouched)
    BY <1>1, <2>1, <2>6 DEF FailoverPc, BeforeIssue, Untouched, View
  <2> QED
    BY <1>1, <1>2, <1>3, <2>3, <2>4, <2>5, <2>7, <2>8, RoleStepKept
<1>6. CASE Demote
  <2>1. /\ pc = "demote" /\ pc' = "scaleUp" /\ fo' = fo
        /\ \/ node' = node
           \/ \E live \in BOOLEAN : Set(Primary, WithRole(node[Primary], "standby", live))
    <3>1. Running(Primary) \in BOOLEAN
      BY SharedFacts
    <3> QED
      BY <1>6, <3>1 DEF Demote, Goto
  <2>2. ASSUME NEW live \in BOOLEAN,
               Set(Primary, WithRole(node[Primary], "standby", live))
        PROVE  node'[Standby] = node[Standby] /\ Alike(node[Primary], node'[Primary])
    BY <2>2, SetOne, RoleUpdates DEF Role
  <2>3. node'[Standby] = node[Standby] /\ Alike(node[Primary], node'[Primary])
    BY <1>3, <2>1, <2>2
  <2>4. Armed(Standby)' = Armed(Standby)
    BY <1>1, <2>3 DEF View, Armed
  <2>5. cfg.journal # None
    BY <2>1 DEF PairInv, FailoverKept, AfterPromote
  <2>6. FailoverKept'
    BY <1>1, <2>1, <2>3, <2>4, <2>5
    DEF PairInv, FailoverKept, FailoverPc, BeforeIssue, Fencings, Proving, AfterPromote,
        View, Alike
  <2>7. pc' \in FailoverPc \cup {"idle"} /\ ~Untouched'
    BY <1>1, <2>1, <2>5 DEF FailoverPc, BeforeIssue, Untouched, View
  <2> QED
    BY <1>1, <1>2, <1>3, <2>3, <2>4, <2>6, <2>7, RoleStepKept
<1> QED
  BY <1>4, <1>5, <1>6

\* The reseed of STEP 4: the standby is a copy of the primary again, also where
\* the command fails after the swap.
LEMMA FailoverReseedKept ==
  ASSUME Shared, fo \in Failover, PromoteOwned, PairInv, UNCHANGED <<ab, de>>, Reseed
  PROVE  PairInv'
<1> USE PairFacts, NoneAssumption
<1>1. /\ pc = "copy" /\ pc \in FailoverPc
      /\ \/ /\ Set(Standby, Reseeded(node[Standby], node[Primary]))
            /\ cfg' = [cfg EXCEPT !.sysid = node[Primary].id]
            /\ fo' = [fo EXCEPT !.proof = "reseeded", !.seen = node[Primary].id]
            /\ pc' = IF fo.planned THEN "unfenced" ELSE "arm"
         \/ UNCHANGED <<node, link, cfg>> /\ Aborts("copy")
         \/ /\ Set(Standby, Reseeded(node[Standby], node[Primary]))
            /\ cfg' = cfg /\ Aborts("copy")
         \/ SkipMidProbe
  BY DEF Reseed, FailoverPc
<1>4. CASE SkipMidProbe
  <2>1. QuietStep /\ pc' = "arm"
    BY <1>4, QuietUpdates, SharedFacts DEF QuietStep, SkipMidProbe
  <2>2. /\ fo'.journaled = fo.journaled /\ fo'.resume = fo.resume
        /\ fo'.planned = fo.planned /\ fo'.lsn = fo.lsn
        /\ fo'.proof = SkippedProof
    BY <1>4 DEF SkipMidProbe, Failover
  <2>3. fo.lsn /\ fo'.proof \in Proven => node[Primary].data \subseteq node[Standby].data
    BY <1>1, <2>2 DEF SkippedProof, Proven, CaughtUp, PairInv, FailoverKept, Proving
  <2>4. FailoverKept'
    BY <1>1, <2>1, <2>2, <2>3, QuietStill
    DEF PairInv, FailoverKept, FailoverPc, BeforeIssue, Fencings, Proving, AfterPromote
  <2>5. pc' \in FailoverPc /\ (Untouched' => Untouched)
    BY <1>1, <2>1, <2>2 DEF FailoverPc, BeforeIssue, Untouched, QuietStep
  <2> QED
    BY <1>1, <2>1, <2>4, <2>5, QuietGoesOn
<1>2. CASE UNCHANGED <<node, link, cfg>> /\ Aborts("copy")
  <2>1. QuietStep
    BY <1>2, QuietUpdates, SharedFacts DEF QuietStep
  <2> QED
    BY <1>1, <1>2, <2>1, AbortsTo, QuietFailoverStep DEF BeforeIssue
<1>3. CASE /\ Set(Standby, Reseeded(node[Standby], node[Primary]))
           /\ \/ /\ cfg' = [cfg EXCEPT !.sysid = node[Primary].id]
                 /\ fo' = [fo EXCEPT !.proof = "reseeded", !.seen = node[Primary].id]
                 /\ pc' = IF fo.planned THEN "unfenced" ELSE "arm"
              \/ cfg' = cfg /\ Aborts("copy")
  <2>1. /\ cfg'.primary = cfg.primary /\ cfg'.journal = cfg.journal
        /\ cfg'.marker = cfg.marker /\ cfg'.degraded = cfg.degraded
        /\ cfg'.swapped = cfg.swapped /\ cfg'.discard = cfg.discard
    BY <1>3 DEF Config
  <2>2. /\ RolesKept' /\ JournalKept'
        /\ Primary' = Primary /\ Standby' = Standby
        /\ node'[Primary] = node[Primary] /\ Armed(Primary)' = Armed(Primary)
        /\ node'[Standby].rec /\ node'[Standby].data = node[Primary].data
    BY <1>3, <2>1, ReseedPair DEF PairInv
  <2>3. \/ /\ pc' \in {"unfenced", "arm"}
           /\ fo'.journaled = fo.journaled /\ fo'.resume = fo.resume
           /\ fo'.planned = fo.planned /\ fo'.lsn = fo.lsn
        \/ pc' = "idle" /\ fo' = NoFailover
        \/ pc' \in {"unfence", "restart"} /\ fo' = fo /\ ~fo.journaled
    <3>1. CASE Aborts("copy")
      BY <3>1, AbortsTo
    <3>2. CASE /\ fo' = [fo EXCEPT !.proof = "reseeded", !.seen = node[Primary].id]
               /\ pc' = IF fo.planned THEN "unfenced" ELSE "arm"
      BY <3>2 DEF Failover
    <3> QED
      BY <1>3, <3>1, <3>2
  <2>4. FailoverKept'
    <3>1. CASE pc' = "idle" /\ fo' = NoFailover
      BY <3>1, NotFailing, PcsApart
    <3>2. CASE /\ pc' \in {"unfenced", "arm"}
               /\ fo'.journaled = fo.journaled /\ fo'.resume = fo.resume
               /\ fo'.planned = fo.planned /\ fo'.lsn = fo.lsn
      BY <1>1, <2>1, <2>2, <3>2
      DEF PairInv, FailoverKept, FailoverPc, BeforeIssue, Fencings, Proving, AfterPromote
    <3>3. CASE pc' \in {"unfence", "restart"} /\ fo' = fo /\ ~fo.journaled
      BY <1>1, <2>1, <2>2, <3>3
      DEF PairInv, FailoverKept, FailoverPc, BeforeIssue, Fencings, Proving, AfterPromote
    <3> QED
      BY <2>3, <3>1, <3>2, <3>3
  <2>5. pc' \in FailoverPc \cup {"idle"} /\ (Untouched' => Untouched)
    BY <1>1, <2>1, <2>3 DEF FailoverPc, BeforeIssue, Untouched
  <2>6. HealthyKept'
    BY <2>1, <2>2, <2>5 DEF PairInv, HealthyKept
  <2> QED
    BY <1>1, <2>2, <2>4, <2>5, <2>6, Failing DEF PairInv
<1> QED
  BY <1>1, <1>2, <1>3, <1>4

\* The journal of an armed standby, and its promote: sent, lost, or sent although
\* the call failed.
LEMMA PromoteSentKept ==
  ASSUME Shared, fo \in Failover, PromoteOwned, PairInv, UNCHANGED <<ab, de>>,
         WriteJournal \/ IssuePromote
  PROVE  PairInv'
<1> USE PairFacts, NoneAssumption
<1>1. CASE WriteJournal
  <2>1. /\ pc = "journal" /\ pc \in FailoverPc /\ UNCHANGED <<node, link>>
        /\ \/ /\ cfg' = [cfg EXCEPT !.journal =
                           [lsn |-> fo.lsn, id |-> fo.seen, proof |-> fo.proof]]
              /\ pc' = "send" /\ fo' = fo
           \/ cfg' = cfg /\ NotArmed("journal")
    BY <1>1 DEF WriteJournal, Saved, SaveFailed, FailoverPc
  <2>2. CASE cfg' = cfg /\ NotArmed("journal")
    <3>1. QuietStep
      BY <2>1, <2>2, QuietUpdates, SharedFacts DEF QuietStep
    <3> QED
      BY <2>1, <2>2, <3>1, NotArmedTo, QuietFailoverStep DEF BeforeIssue
  <2>3. CASE /\ cfg' = [cfg EXCEPT !.journal =
                          [lsn |-> fo.lsn, id |-> fo.seen, proof |-> fo.proof]]
             /\ pc' = "send" /\ fo' = fo
    <3>1. /\ cfg'.primary = cfg.primary /\ cfg'.marker = cfg.marker
          /\ cfg'.degraded = cfg.degraded /\ cfg'.swapped = cfg.swapped
          /\ cfg'.discard = cfg.discard
          /\ cfg'.journal = [lsn |-> fo.lsn, id |-> fo.seen, proof |-> fo.proof]
      BY <2>3 DEF Config
    <3>2. cfg'.journal # None /\ cfg'.journal.lsn = fo.lsn /\ cfg'.journal.proof = fo.proof
      <4>1. [lsn |-> fo.lsn, id |-> fo.seen, proof |-> fo.proof] \in Journal
        BY DEF Failover, Journal
      <4> QED
        BY <3>1, <4>1
    <3>3. Primary' = Primary /\ Standby' = Standby
      BY <3>1, SameRoles
    <3>4. /\ Armed(Primary)' = Armed(Primary) /\ Armed(Standby)' = Armed(Standby)
          /\ GivenUp(Standby)' = GivenUp(Standby) /\ OneOn' = OneOn
      BY <2>1, <3>3 DEF Armed, GivenUp, OneOn
    <3>5. /\ ~cfg.swapped /\ Armed(Standby)
          /\ fo.journaled => cfg.journal # None
          /\ ~fo.journaled => node[Standby].rec
          /\ fo.lsn => node[Primary].fence = "on"
          /\ fo.lsn /\ fo.proof \in Proven =>
               node[Primary].data \subseteq node[Standby].data
      BY <2>1 DEF PairInv, FailoverKept, FailoverPc, BeforeIssue, Proving
    <3>6. RolesKept'
      BY <2>1, <3>1, <3>3, <3>4, <3>5 DEF PairInv, RolesKept
    <3>7. JournalKept'
      BY <2>1, <3>2, <3>3, <3>4, <3>5 DEF PairInv, JournalKept
    <3>8. FailoverKept'
      BY <2>1, <2>3, <3>1, <3>2, <3>3, <3>4, <3>5
      DEF PairInv, FailoverKept, FailoverPc, BeforeIssue, Fencings, Proving, AfterPromote
    <3>9. pc' \in FailoverPc \cup {"idle"} /\ (Untouched' => Untouched)
      BY <2>1, <2>3, <3>2 DEF FailoverPc, BeforeIssue, Untouched
    <3>10. HealthyKept'
      BY <2>1, <3>1, <3>3, <3>4, <3>9 DEF PairInv, HealthyKept
    <3> QED
      BY <2>1, <3>6, <3>7, <3>8, <3>9, <3>10, Failing DEF PairInv
  <2> QED
    BY <2>1, <2>2, <2>3
<1>2. CASE IssuePromote
  <2>1. /\ pc = "issue" /\ pc' = "poll" /\ UNCHANGED <<link, cfg, fo>>
        /\ \/ node' = node
           \/ Set(Standby, Promoting(node[Standby])) /\ node[Standby].db # "zero"
    BY <1>2 DEF IssuePromote, Goto, Succeeded, Failed, DbAnswers, Running
  <2>2. Primary' = Primary /\ Standby' = Standby
    BY <2>1, SameRoles
  <2>3. /\ node'[Primary] = node[Primary]
        /\ node'[Standby] = node[Standby] \/
             (node'[Standby] = Promoting(node[Standby]) /\ node[Standby].db # "zero")
    BY <2>1, SetOne
  <2>4. LET n == node[Standby]
            m == node'[Standby]
        IN /\ m.rec = n.rec /\ m.retired = n.retired /\ m.fence = n.fence
           /\ m.db = n.db /\ m.id = n.id /\ m.tl = n.tl /\ m.data = n.data
           /\ m.intent = n.intent /\ m.role = n.role
           /\ m.db = "zero" => m.pending = n.pending
    BY <2>3 DEF Promoting, Node
  <2>5. /\ Armed(Primary)' = Armed(Primary) /\ Armed(Standby)' = Armed(Standby)
        /\ GivenUp(Standby)' = GivenUp(Standby) /\ OneOn' = OneOn
    BY <2>1, <2>2, <2>3, <2>4 DEF Armed, GivenUp, OneOn
  <2>6. /\ cfg.journal # None /\ Armed(Standby)
        /\ cfg.journal.lsn => node[Primary].fence = "on"
        /\ cfg.journal.lsn /\ cfg.journal.proof \in Proven =>
             node[Primary].data \subseteq node[Standby].data
    BY <2>1 DEF PairInv, FailoverKept, Proving
  <2>7. RolesKept'
    BY <2>1, <2>2, <2>3, <2>4, <2>5 DEF PairInv, RolesKept
  <2>8. JournalKept'
    BY <2>1, <2>2, <2>3, <2>4, <2>5, <2>6 DEF PairInv, JournalKept
  <2>9. FailoverKept'
    BY <2>1, <2>2, <2>3, <2>4, <2>5, <2>6
    DEF PairInv, FailoverKept, FailoverPc, BeforeIssue, Fencings, Proving, AfterPromote
  <2>10. HealthyKept'
    BY <2>1, <2>6 DEF HealthyKept, Untouched, BeforeIssue
  <2>11. pc \in FailoverPc /\ pc' \in FailoverPc
    BY <2>1 DEF FailoverPc
  <2> QED
    BY <2>1, <2>7, <2>8, <2>9, <2>10, <2>11, Failing DEF PairInv
<1> QED
  BY <1>1, <1>2

\* unquiesce: with nothing sent, the fence comes off and the journal goes.
LEMMA UndoKept ==
  ASSUME Shared, fo \in Failover, PromoteOwned, PairInv, UNCHANGED <<ab, de>>,
         Unfence \/ ClearJournal
  PROVE  PairInv'
<1> USE PairFacts, NoneAssumption
<1>1. /\ pc \in {"unfence", "clear"} /\ pc \in FailoverPc /\ ~fo.journaled /\ ~cfg.swapped
      /\ node[Standby].rec /\ ~node[Standby].pending
  <2>1. pc \in {"unfence", "clear"}
    BY DEF Unfence, ClearJournal, Exit, Goto
  <2> QED
    BY <2>1 DEF FailoverPc, PairInv, FailoverKept, PromoteOwned, BeforeIssue
<1>2. Untouched
  BY <1>1 DEF Untouched, BeforeIssue
<1>3. CASE Unfence
  <2>1. /\ pc = "unfence" /\ link' = link
        /\ \/ UNCHANGED <<node, cfg>>
           \/ /\ Set(Primary, [node[Primary] EXCEPT !.fence = "off"])
              /\ cfg' = cfg \/ cfg' = [cfg EXCEPT !.marker = None]
        /\ \/ pc' \in {"restart", "clear"} /\ fo' = fo
           \/ pc' = "idle" /\ fo' = NoFailover
    BY <1>3 DEF Unfence, AfterUndo, Goto, Saved, SaveFailed, Unfenced
  <2>2. \/ FenceStep(node[Primary].fence, cfg.marker)
        \/ FenceStep("off", cfg.marker) \/ FenceStep("off", None)
    BY <2>1 DEF FenceStep
  <2>3. PICK f \in {"off", node[Primary].fence}, m \in {None, cfg.marker} :
          FenceStep(f, m) /\ (f # "off" => m = cfg.marker /\ f = node[Primary].fence)
    BY <2>2
  <2>4. /\ f \in {"off", "set", "on"} /\ m \in {Primary, None}
        /\ f # "off" => m = Primary
    BY <2>3 DEF Node, PairInv, RolesKept
  <2>5. RolesKept' /\ JournalKept' /\ FenceView(f, m)
    BY <1>1, <2>3, <2>4, FenceKept DEF PairInv
  <2>6. HealthyKept'
    BY <1>2, <2>5 DEF PairInv, HealthyKept, FenceView
  <2>7. FailoverKept'
    <3>1. CASE pc' = "idle" /\ fo' = NoFailover
      BY <3>1, NotFailing, PcsApart
    <3>2. CASE pc' \in {"restart", "clear"} /\ fo' = fo
      BY <1>1, <2>1, <2>5, <3>2
      DEF PairInv, FailoverKept, FailoverPc, BeforeIssue, Fencings, Proving, AfterPromote,
          FenceView
    <3> QED
      BY <2>1, <3>1, <3>2
  <2>8. pc' \in FailoverPc \cup {"idle"}
    BY <2>1 DEF FailoverPc
  <2> QED
    BY <1>1, <2>5, <2>6, <2>7, <2>8, Failing DEF PairInv
<1>4. CASE ClearJournal
  <2>1. /\ pc' = "idle" /\ fo' = NoFailover /\ UNCHANGED <<node, link>>
        /\ cfg' = cfg \/ cfg' = [cfg EXCEPT !.journal = None]
    BY <1>4 DEF ClearJournal, Exit, Goto, Saved, SaveFailed
  <2>2. CASE cfg' = cfg
    <3>1. QuietStep
      BY <2>1, <2>2, QuietUpdates, SharedFacts DEF QuietStep
    <3> QED
      BY <1>1, <2>1, <3>1, QuietExit
  <2>3. CASE cfg' = [cfg EXCEPT !.journal = None]
    <3>1. /\ cfg'.primary = cfg.primary /\ cfg'.marker = cfg.marker
          /\ cfg'.degraded = cfg.degraded /\ cfg'.swapped = cfg.swapped
          /\ cfg'.discard = cfg.discard /\ cfg'.journal = None
      BY <2>3 DEF Config
    <3>2. Primary' = Primary /\ Standby' = Standby
      BY <3>1, SameRoles
    <3>3. /\ Armed(Primary)' = Armed(Primary)
          /\ GivenUp(Standby)' = GivenUp(Standby) /\ OneOn' = OneOn
      BY <2>1, <3>2 DEF Armed, GivenUp, OneOn
    <3>4. RolesKept'
      BY <2>1, <3>1, <3>2, <3>3 DEF PairInv, RolesKept
    <3>5. JournalKept' /\ HealthyKept'
      BY <1>2, <2>1, <3>1, <3>2, <3>3 DEF PairInv, JournalKept, HealthyKept
    <3>6. FailoverKept'
      BY <2>1, NotFailing, PcsApart
    <3> QED
      BY <1>1, <2>1, <3>4, <3>5, <3>6, Failing DEF PairInv
  <2> QED
    BY <2>1, <2>2, <2>3
<1> QED
  BY <1>1, <1>3, <1>4

\* The swap puts an armed side in service; what was the primary is the standby
\* a deploy reseeds, fenced when it answers.
LEMMA SwapKept ==
  ASSUME Shared, fo \in Failover, PromoteOwned, PairInv, UNCHANGED <<ab, de>>,
         SwapHaRoles \/ RetireOld
  PROVE  PairInv'
<1> USE PairFacts, NoneAssumption
<1>1. CASE SwapHaRoles
  <2>1. /\ pc = "swap" /\ pc \in FailoverPc /\ UNCHANGED <<node, link>>
        /\ \/ /\ cfg' = [cfg EXCEPT !.primary = Standby, !.degraded = TRUE, !.swapped = TRUE,
                                    !.journal = None, !.marker = None, !.discard = None]
              /\ pc' = "retire" /\ fo' = fo
           \/ cfg' = cfg /\ pc' = "idle" /\ fo' = NoFailover
    BY <1>1 DEF SwapHaRoles, Saved, SaveFailed, Exit, Goto, FailoverPc
  <2>2. CASE cfg' = cfg /\ pc' = "idle" /\ fo' = NoFailover
    <3>1. QuietStep
      BY <2>1, <2>2, QuietUpdates, SharedFacts DEF QuietStep
    <3> QED
      BY <2>1, <2>2, <3>1, QuietExit
  <2>3. CASE /\ cfg' = [cfg EXCEPT !.primary = Standby, !.degraded = TRUE, !.swapped = TRUE,
                                   !.journal = None, !.marker = None, !.discard = None]
             /\ pc' = "retire" /\ fo' = fo
    <3>1. /\ cfg'.primary = Standby /\ cfg'.journal = None /\ cfg'.marker = None
          /\ cfg'.degraded /\ cfg'.swapped /\ cfg'.discard = None
      BY <2>3 DEF Config
    <3>2. Primary' = Standby /\ Standby' = Primary
      BY <3>1, Sides DEF Primary, Standby
    <3>3. /\ ~node[Standby].rec /\ ~node[Primary].pending
          /\ ~cfg.swapped /\ Armed(Standby)
      BY <2>1 DEF PairInv, FailoverKept, FailoverPc, PromoteOwned, AfterPromote
    <3>4. Armed(Primary)' = Armed(Standby)
      BY <2>1, <3>2 DEF Armed
    <3>5. RolesKept'
      BY <2>1, <3>1, <3>2, <3>3, <3>4 DEF PairInv, RolesKept
    <3>6. JournalKept' /\ HealthyKept'
      BY <3>1 DEF JournalKept, HealthyKept
    <3>7. FailoverKept'
      BY <2>1, <2>3, <3>1
      DEF PairInv, FailoverKept, FailoverPc, BeforeIssue, Fencings, Proving, AfterPromote
    <3>8. pc' \in FailoverPc
      BY <2>3 DEF FailoverPc
    <3> QED
      BY <2>1, <3>5, <3>6, <3>7, <3>8, Failing DEF PairInv
  <2> QED
    BY <2>1, <2>2, <2>3
<1>2. CASE RetireOld
  <2>1. /\ pc = "retire" /\ pc' = "idle" /\ fo' = NoFailover /\ UNCHANGED <<link, cfg>>
        /\ Retire(Standby)
    BY <1>2 DEF RetireOld, Exit, Goto
  <2>2. cfg.swapped /\ pc \in FailoverPc
    BY <2>1 DEF PairInv, FailoverKept, FailoverPc
  <2>3. RolesKept' /\ JournalKept' /\ HealthyKept'
    BY <2>1, <2>2, RetirePair DEF PairInv
  <2>4. FailoverKept'
    BY <2>1, NotFailing, PcsApart
  <2> QED
    BY <2>1, <2>2, <2>3, <2>4, Failing DEF PairInv
<1> QED
  BY <1>1, <1>2

\* Every step of a failover.
LEMMA FailoverStepKept ==
  ASSUME Shared, fo \in Failover, PromoteOwned, PairInv, UNCHANGED <<ab, de>>, FailoverStep
  PROVE  PairInv'
BY GatesKept, FencingKept, ProofReadKept, FailoverReseedKept, RolesWrittenKept,
   PromoteSentKept, UndoKept, ServingKept, SwapKept
DEF FailoverStep

-----------------------------------------------------------------------------
(* The system.                                                             *)

\* Starting a command, or fencing a retired side again, establishes nothing.
LEMMA OperatorKept ==
  ASSUME Shared, PromoteOwned, PairInv, Operator
  PROVE  PairInv'
<1> USE PairFacts, NoneAssumption
<1>1. /\ pc = "idle" /\ fo = NoFailover /\ ab = NoAbort /\ de = NoDeploy
      /\ pc \notin BeforeIssue
  <2>1. pc = "idle"
    BY DEF Operator, FailoverStart, AbortStart, DeployStart, Reconcile, Starts, Goto
  <2> QED
    BY <2>1, PcsApart DEF PairInv, FailoverKept, AbortKept, DeployKept, BeforeIssue
<1>2. /\ ~NoFailover.resume /\ ~NoFailover.journaled /\ ~NoFailover.lsn
      /\ ~NoAbort.lifted /\ NoAbort.reading = None
      /\ NoDeploy.sysid = None
  BY DEF NoFailover, NoAbort, NoDeploy
<1>3. CASE Reconcile /\ UNCHANGED locals
  <2>1. /\ UNCHANGED <<pc, fo, ab, de, link, cfg>> /\ cfg.swapped /\ Retire(Standby)
    BY <1>3 DEF Reconcile, locals
  <2>2. RolesKept' /\ JournalKept' /\ HealthyKept'
    BY <2>1, RetirePair DEF PairInv
  <2>3. FailoverKept' /\ AbortKept' /\ DeployKept'
    BY <1>1, <2>1, PcsApart, NotFailing, NotAborting, NotDeploying
  <2> QED
    BY <2>2, <2>3 DEF PairInv
<1>4. CASE \/ FailoverStart /\ UNCHANGED <<ab, de>>
           \/ AbortStart /\ UNCHANGED <<fo, de>>
           \/ DeployStart /\ UNCHANGED <<fo, ab>>
  <2>1. QuietStep /\ UNCHANGED <<node, cfg>>
    <3>1. UNCHANGED <<node, cfg, link>>
      BY <1>4 DEF FailoverStart, AbortStart, DeployStart
    <3> QED
      BY <3>1, SharedFacts, QuietUpdates DEF QuietStep
  <2>2. RolesKept' /\ JournalKept'
    BY <2>1, QuietKept DEF PairInv
  <2>3. pc' \notin BeforeIssue
    BY <1>4 DEF FailoverStart, AbortStart, DeployStart, Starts, Goto, BeforeIssue
  <2>4. HealthyKept'
    BY <2>1, <2>3, QuietStill DEF PairInv, HealthyKept, Untouched
  <2>5. FailoverKept' /\ AbortKept' /\ DeployKept'
    <3>1. CASE FailoverStart /\ UNCHANGED <<ab, de>>
      <4>1. pc' = "ready" /\ fo' = fo /\ ~cfg.swapped
        BY <3>1 DEF FailoverStart, Starts, Goto
      <4>2. FailoverKept'
        BY <1>1, <1>2, <2>1, <4>1
        DEF FailoverKept, FailoverPc, BeforeIssue, Fencings, Proving, AfterPromote
      <4>3. pc' \notin AbortPc \cup DeployPc
        BY <4>1 DEF AbortPc, DeployPc
      <4> QED
        BY <1>1, <3>1, <4>2, <4>3, NotAborting, NotDeploying
    <3>2. CASE AbortStart /\ UNCHANGED <<fo, de>>
      <4>1. pc' = "lineage" /\ ab' = ab /\ cfg.journal # None
        BY <3>2 DEF AbortStart, Starts, Goto
      <4>2. AbortKept'
        BY <1>1, <1>2, <2>1, <4>1 DEF AbortKept, AbortPc
      <4>3. pc' \notin FailoverPc \cup DeployPc
        BY <4>1 DEF FailoverPc, DeployPc
      <4> QED
        BY <1>1, <3>2, <4>2, <4>3, NotFailing, NotDeploying
    <3>3. CASE DeployStart /\ UNCHANGED <<fo, ab>>
      <4>1. /\ pc' = "entry" /\ cfg.journal = None
            /\ \E allow \in BOOLEAN :
                 de' = [NoDeploy EXCEPT !.allowDegraded = allow, !.retired = cfg.swapped]
        BY <3>3 DEF DeployStart, Starts, Goto
      <4>2. de'.retired = cfg.swapped /\ de'.sysid = None
        BY <4>1 DEF NoDeploy
      <4>3. DeployKept'
        BY <2>1, <4>1, <4>2 DEF DeployKept, DeployPc
      <4>4. pc' \notin FailoverPc \cup AbortPc
        BY <4>1 DEF FailoverPc, AbortPc
      <4> QED
        BY <1>1, <3>3, <4>3, <4>4, NotFailing, NotAborting
    <3> QED
      BY <1>4, <3>1, <3>2, <3>3
  <2> QED
    BY <2>2, <2>4, <2>5 DEF PairInv
<1> QED
  BY <1>3, <1>4 DEF Operator

\* A command that dies leaves what the next one relies on.
LEMMA CrashKept ==
  ASSUME Shared, PairInv, Crash
  PROVE  PairInv'
<1>1. QuietStep /\ pc' = "idle"
  BY SharedFacts, QuietUpdates DEF Crash, QuietStep
<1>2. RolesKept' /\ JournalKept'
  BY <1>1, QuietKept DEF PairInv
<1>3. FailoverKept' /\ AbortKept' /\ DeployKept'
  BY <1>1, PcsApart, NotFailing, NotAborting, NotDeploying DEF Crash
<1>4. HealthyKept'
  <2>1. Untouched' => Untouched
    BY <1>1, PcsApart DEF Untouched, QuietStep
  <2> QED
    BY <1>1, <2>1, QuietStill DEF PairInv, HealthyKept
<1> QED
  BY <1>2, <1>3, <1>4 DEF PairInv

\* A deployed pair, its standby seeded or recorded degraded.
LEMMA InitKept == Init => PairInv
<1> SUFFICES ASSUME Init PROVE PairInv
  OBVIOUS
<1>1. Shared
  BY InitTypes, TypeOKParts
<1> USE PairFacts, NoneAssumption
<1>2. pc = "idle" /\ fo = NoFailover /\ ab = NoAbort /\ de = NoDeploy
  BY DEF Init, InitPair
<1>3. PICK p \in Side, i \in Id, seeded \in BOOLEAN, j \in Id :
        /\ node = [s \in Side |-> IF s = p THEN Deployed(i) ELSE PilotLight(j, seeded)]
        /\ seeded => j = i
        /\ link = seeded
        /\ cfg.primary = p /\ cfg.journal = None /\ cfg.marker = None
        /\ cfg.degraded = ~seeded /\ ~cfg.swapped /\ cfg.discard = None
  BY DEF Init, InitPair
<1>4. node[Primary] = Deployed(i) /\ node[Standby] = PilotLight(j, seeded)
  BY <1>1, <1>3 DEF Primary
<1>5. LET n == node[Primary]
      IN /\ ~n.rec /\ ~n.retired /\ n.fence = "off" /\ n.id = i /\ n.tl = 1
         /\ n.intent = "primary" /\ n.role = "primary" /\ n.data = {}
  BY <1>4 DEF Deployed
<1>6. LET m == node[Standby]
      IN /\ m.rec = seeded /\ ~m.retired /\ m.fence = "off" /\ m.db = "run"
         /\ ~m.pending /\ m.id = j /\ m.tl = 1 /\ m.data = {}
  BY <1>4 DEF PilotLight, Deployed
<1>7. RolesKept /\ HealthyKept /\ JournalKept
  BY <1>3, <1>5, <1>6 DEF RolesKept, HealthyKept, JournalKept, Armed
<1>8. FailoverKept
  <2>1. ~fo.resume /\ ~fo.journaled /\ ~fo.lsn
    BY <1>2 DEF NoFailover
  <2> QED
    BY <1>2, <2>1 DEF FailoverKept, FailoverPc, BeforeIssue, Fencings, Proving, AfterPromote
<1>9. AbortKept /\ DeployKept
  BY <1>2 DEF AbortKept, DeployKept, AbortPc, DeployPc, NoAbort, NoDeploy
<1> QED
  BY <1>7, <1>8, <1>9 DEF PairInv

\* PairInv is inductive, with the types and the ownership of promotes.
LEMMA NextKept == TypeOK /\ PromoteOwned /\ PairInv /\ [Next]_vars => PairInv'
<1> SUFFICES ASSUME TypeOK, PromoteOwned, PairInv, [Next]_vars PROVE PairInv'
  OBVIOUS
<1>0. Shared /\ fo \in Failover /\ ab \in Abort /\ de \in Deploy
  BY TypeOKParts DEF TypeOK
<1>1. CASE World /\ UNCHANGED locals
  BY <1>0, <1>1, WorldKept
<1>2. CASE Operator
  BY <1>0, <1>2, OperatorKept
<1>3. CASE FailoverStep /\ UNCHANGED <<ab, de>>
  BY <1>0, <1>3, FailoverStepKept
<1>4. CASE AbortStep /\ UNCHANGED <<fo, de>>
  BY <1>0, <1>4, AbortStepKept
<1>5. CASE DeployStep /\ UNCHANGED <<fo, ab>>
  BY <1>0, <1>5, DeployStepKept
<1>6. CASE Crash
  BY <1>0, <1>6, CrashKept
<1>7. CASE UNCHANGED vars
  <2>1. QuietStep /\ UNCHANGED <<pc, fo, ab, de>>
    BY <1>0, <1>7, SharedFacts, QuietUpdates DEF vars, QuietStep
  <2> QED
    BY <1>0, <2>1, QuietWorld
<1> QED
  BY <1>1, <1>2, <1>3, <1>4, <1>5, <1>6, <1>7 DEF Next, Command

\* What the pair owes each of its commands, for any clusters and bounds.
THEOREM PairInvariant == Spec => [](TypeOK /\ PromoteOwned /\ PairInv)
<1>1. Init => TypeOK /\ PromoteOwned /\ PairInv
  BY InitTypes, InitOwned, InitKept
<1>2. TypeOK /\ PromoteOwned /\ PairInv /\ [Next]_vars => (TypeOK /\ PromoteOwned /\ PairInv)'
  BY NextTypes, NextOwned, NextKept
<1> QED
  BY <1>1, <1>2, PTL DEF Spec

\* A primary that refuses writes is on record, in whatever state a failure, a
\* crash or a lost cluster left the pair (write-fence.js, unquiesce): the next
\* failover or deploy finds the marker.
THEOREM FenceIsRecorded == Spec => []StrandedFenceRecorded
<1>1. PairInv => StrandedFenceRecorded
  BY DEF PairInv, RolesKept, StrandedFenceRecorded
<1> QED
  BY <1>1, PairInvariant, PTL

\* Under the journal of a planned failover the two databases never take writes
\* at once: the standby is in recovery or stopped, or the primary is fenced
\* (failoverHA's order: fence, journal, promote; the abort's: stop, then lift).
THEOREM NoSplitBrainWhenPlanned == Spec => []PlannedNoSplitBrain
<1>1. PairInv => PlannedNoSplitBrain
  BY DEF PairInv, JournalKept, PlannedNoSplitBrain, TakesWrites, Running
<1> QED
  BY <1>1, PairInvariant, PTL

\* An environment recorded healthy has a replica of its primary, one that a
\* promote would bring up writable (FinalSave's verdict is of a verified standby).
THEOREM HealthyReplica == Spec => []HealthyHasReplica
<1>1. PairInv => HealthyHasReplica
  BY DEF PairInv, RolesKept, HealthyKept, Untouched, HealthyHasReplica
<1> QED
  BY <1>1, PairInvariant, PTL

\* The primary of a healthy pair, or of one that failed over, archives, also
\* after a restart of its database: its intent and its live role say so.
THEOREM PrimaryIsArmed == Spec => []PrimaryArchives
<1>1. PairInv => PrimaryArchives
  BY DEF PairInv, RolesKept, HealthyKept, Untouched, PrimaryArchives, Armed
<1> QED
  BY <1>1, PairInvariant, PTL

\* The record an abort leaves names the copy the standby holds, or nothing is
\* left of it: every copy a promote makes is the primary's one timeline on.
THEOREM DiscardNamesTheCopy == Spec => []DiscardIsCurrent
<1>1. PairInv => DiscardIsCurrent
  BY DEF PairInv, RolesKept, DiscardIsCurrent, OneOn
<1> QED
  BY <1>1, PairInvariant, PTL

-----------------------------------------------------------------------------
(* The action properties.                                                  *)

\* m, a later state of cluster n, is in recovery if n is, and lost nothing.
Follows(n, m) == (n.rec => m.rec) /\ n.data \subseteq m.data

LEMMA FollowsUpdates ==
  ASSUME NEW n \in Node
  PROVE  /\ Follows(n, n)
         /\ \A b \in BOOLEAN, c \in BOOLEAN :
              Follows(n, ScaledDown(n, b, c)) /\ Follows(n, ScaledUp(n, b, c))
         /\ \A r, live : Follows(n, WithRole(n, r, live))
         /\ \A f : Follows(n, [n EXCEPT !.fence = f])
         /\ \A b : Follows(n, [n EXCEPT !.retired = b])
         /\ Follows(n, Unfenced(n)) /\ Follows(n, Stopped(n)) /\ Follows(n, Fencing(n))
         /\ Follows(n, Promoting(n)) /\ Follows(n, Restarted(n))
         /\ Follows(n, [n EXCEPT !.db = "run"]) /\ Follows(n, [n EXCEPT !.app = "zero"])
         /\ \A x : Follows(n, [n EXCEPT !.net = x])
         /\ \A d : Follows(n, [n EXCEPT !.data = @ \cup d])
BY DEF Follows, Node, ScaledDown, ScaledUp, WithRole, Unfenced, Stopped, Fencing,
       Promoting, Restarted

LEMMA FollowsTransitive ==
  \A n, m, k : Follows(n, m) /\ Follows(m, k) => Follows(n, k)
BY DEF Follows

\* One cluster is written, or none.
LEMMA FollowsSet ==
  ASSUME Shared
  PROVE  /\ \A s \in Side : \A n :
              Set(s, n) /\ Follows(node[s], n) => \A t \in Side : Follows(node[t], node'[t])
         /\ node' = node => \A t \in Side : Follows(node[t], node'[t])
BY SharedFacts, FollowsUpdates DEF Set, Shared

LEMMA ScaleFollows ==
  ASSUME Shared, NEW s \in Side, Scale(s, ScaledDown) \/ Scale(s, ScaledUp)
  PROVE  \A t \in Side : Follows(node[t], node'[t])
BY ScaleQuiet DEF Quiet, Alike, Follows

LEMMA RetireFollows ==
  ASSUME Shared, NEW s \in Side, Retire(s)
  PROVE  \A t \in Side : Follows(node[t], node'[t])
BY RetireUpdates DEF Follows

\* Only a promote that lands takes a side out of recovery, and only a reseed
\* loses transactions of a side.
LEMMA FailoverFollows ==
  ASSUME Shared, FailoverStep
  PROVE  \/ \A t \in Side : Follows(node[t], node'[t])
         \/ Reseed /\ Set(Standby, Reseeded(node[Standby], node[Primary]))
<1> DEFINE Goal == \A t \in Side : Follows(node[t], node'[t])
<1> USE PairFacts
<1>0. Running(Primary) \in BOOLEAN /\ Running(Standby) \in BOOLEAN
  BY SharedFacts
<1>1. CASE \/ ProbePrimary \/ Check \/ Drained \/ Mark \/ Capture \/ Replayed \/ SkipReseed
           \/ ProbeSource \/ AssertUnfenced \/ WriteJournal \/ ReadBeforePromote \/ Poll
           \/ ClearJournal \/ FlipDns \/ SwapHaRoles
  <2>1. node' = node
    BY <1>1 DEF ProbePrimary, Check, Drained, Mark, Capture, Replayed, SkipReseed,
                ProbeSource, AssertUnfenced, WriteJournal, ReadBeforePromote, Poll,
                ClearJournal, FlipDns, SwapHaRoles
  <2> QED
    BY <2>1, FollowsSet
<1>2. CASE LiftStranded \/ Unfence
  <2>1. node' = node \/ Set(Primary, Unfenced(node[Primary]))
    BY <1>2 DEF LiftStranded, Unfence
  <2> QED
    BY <2>1, FollowsSet, FollowsUpdates
<1>3. CASE Fence \/ Terminate
  <2>1. \/ node' = node \/ Set(Primary, Fencing(node[Primary]))
        \/ Set(Primary, [node[Primary] EXCEPT !.fence = "on"])
    BY <1>3 DEF Fence, Terminate
  <2> QED
    BY <2>1, FollowsSet, FollowsUpdates
<1>4. CASE Quiesce \/ RestartApp \/ ScaleDownOld
  BY <1>4, ScaleFollows DEF Quiesce, RestartApp, ScaleDownOld
<1>5. CASE ScaleUpPromoted \/ StartAddons
  <2>1. \/ node' = node
        \/ Set(Standby, ScaledUp(node[Standby], TRUE, FALSE))
        \/ Set(Standby, ScaledUp(node[Standby], FALSE, TRUE))
    BY <1>5 DEF ScaleUpPromoted, StartAddons
  <2>2. /\ Follows(node[Standby], ScaledUp(node[Standby], TRUE, FALSE))
        /\ Follows(node[Standby], ScaledUp(node[Standby], FALSE, TRUE))
    BY FollowsUpdates
  <2> QED
    BY <2>1, <2>2, FollowsSet
<1>6. CASE Arm \/ Disarm \/ Demote
  <2>1. \/ node' = node
        \/ \E s \in Side, r \in Role, live \in BOOLEAN : Set(s, WithRole(node[s], r, live))
    BY <1>0, <1>6 DEF Arm, Disarm, Demote, Role
  <2> QED
    BY <2>1, FollowsSet, FollowsUpdates, SharedFacts
<1>7. CASE IssuePromote
  <2>1. node' = node \/ Set(Standby, Promoting(node[Standby]))
    BY <1>7 DEF IssuePromote
  <2> QED
    BY <2>1, FollowsSet, FollowsUpdates
<1>8. CASE RetireOld
  BY <1>8, RetireFollows DEF RetireOld
<1>9. CASE Reseed
  BY <1>9, FollowsSet DEF Reseed, SkipMidProbe
<1> QED
  BY <1>1, <1>2, <1>3, <1>4, <1>5, <1>6, <1>7, <1>8, <1>9 DEF FailoverStep

LEMMA AbortFollows ==
  ASSUME Shared, AbortStep
  PROVE  \A t \in Side : Follows(node[t], node'[t])
<1> USE PairFacts
<1>1. CASE ReadStandbyLineage \/ RepointDns \/ RecordAbort
  <2>1. node' = node
    BY <1>1 DEF ReadStandbyLineage, RepointDns, RecordAbort
  <2> QED
    BY <2>1, FollowsSet
<1>2. CASE StopStandbyDb
  <2>1. node' = node \/ Set(Standby, Stopped(node[Standby]))
    BY <1>2 DEF StopStandbyDb
  <2> QED
    BY <2>1, FollowsSet, FollowsUpdates
<1>3. CASE DisarmStandby
  <2>1. \E tier, addons, role \in BOOLEAN :
          LET n == ScaledDown(node[Standby], tier, addons)
          IN Set(Standby, IF role THEN WithRole(n, "standby", FALSE) ELSE n)
    BY <1>3 DEF DisarmStandby
  <2>2. PICK tier \in BOOLEAN, addons \in BOOLEAN :
          LET n == ScaledDown(node[Standby], tier, addons)
          IN Set(Standby, WithRole(n, "standby", FALSE)) \/ Set(Standby, n)
    BY <2>1
  <2> DEFINE n == ScaledDown(node[Standby], tier, addons)
  <2>3. n \in Node /\ Follows(node[Standby], n)
    BY NodeUpdates, FollowsUpdates
  <2>4. Set(Standby, WithRole(n, "standby", FALSE)) \/ Set(Standby, n)
    BY <2>2
  <2> HIDE DEF n
  <2>5. Follows(n, WithRole(n, "standby", FALSE))
    BY <2>3, FollowsUpdates
  <2> QED
    BY <2>3, <2>4, <2>5, FollowsTransitive, FollowsSet
<1>4. CASE UnfencePrimary
  <2>1. node' = node \/ Set(Primary, Unfenced(node[Primary]))
    BY <1>4 DEF UnfencePrimary
  <2> QED
    BY <2>1, FollowsSet, FollowsUpdates
<1>5. CASE ArmPrimary
  <2>1. \/ node' = node
        \/ \E live \in BOOLEAN : Set(Primary, WithRole(node[Primary], "primary", live))
    BY <1>5 DEF ArmPrimary
  <2> QED
    BY <2>1, FollowsSet, FollowsUpdates
<1>6. CASE StartPrimaryWriters
  BY <1>6, ScaleFollows DEF StartPrimaryWriters
<1> QED
  BY <1>1, <1>2, <1>3, <1>4, <1>5, <1>6 DEF AbortStep

LEMMA DeployFollows ==
  ASSUME Shared, DeployStep
  PROVE  \/ \A t \in Side : Follows(node[t], node'[t])
         \/ pc = "stage" /\ Set(Standby, Reseeded(node[Standby], node[Primary]))
<1> USE PairFacts
<1>1. CASE \/ ProbeStreaming \/ GuardReseed \/ VerifyStreaming \/ ForgetDiscarded
           \/ GateStreaming \/ AwaitDns \/ FinalSave
  <2>1. node' = node
    BY <1>1 DEF ProbeStreaming, GuardReseed, VerifyStreaming, ForgetDiscarded,
                GateStreaming, AwaitDns, FinalSave
  <2> QED
    BY <2>1, FollowsSet
<1>2. CASE LiftAtEntry \/ AssertWritable
  <2>1. node' = node \/ Set(Primary, Unfenced(node[Primary]))
    BY <1>2 DEF LiftAtEntry, AssertWritable
  <2> QED
    BY <2>1, FollowsSet, FollowsUpdates
<1>3. CASE Refence
  BY <1>3, RetireFollows DEF Refence
<1>4. CASE ConvergeClusters
  <2>1. \A s \in Side : node'[s] \in {node[s], Converged(s)}
    BY <1>4 DEF ConvergeClusters
  <2>2. \A s \in Side : Follows(node[s], node[s]) /\ Follows(node[s], Converged(s))
    BY SharedFacts, FollowsUpdates, ConvergedUpdates DEF Alike, Follows
  <2> QED
    BY <2>1, <2>2
<1>5. CASE ClearRetired
  <2>1. node' = node \/ Set(Standby, [node[Standby] EXCEPT !.retired = FALSE])
    BY <1>5 DEF ClearRetired
  <2> QED
    BY <2>1, FollowsSet, FollowsUpdates
<1>6. CASE StageAndSwap
  BY <1>6, FollowsSet DEF StageAndSwap
<1> QED
  BY <1>1, <1>2, <1>3, <1>4, <1>5, <1>6 DEF DeployStep

LEMMA WorldFollows ==
  ASSUME Shared, RolesKept, World
  PROVE  \/ \A t \in Side : Follows(node[t], node'[t])
         \/ \E s \in Side : PromoteLands(s)
<1> USE PairFacts, SharedFacts
<1>1. ASSUME NEW s \in Side, NEW w \in Write, Commit(s, w)
      PROVE  \A t \in Side : Follows(node[t], node'[t])
  BY <1>1, FollowsSet, FollowsUpdates DEF Commit
<1>2. ASSUME NEW s \in Side, Replicate(s)
      PROVE  \A t \in Side : Follows(node[t], node'[t])
  <2>1. s = Standby /\ Other(s) = Primary
    <3>1. s = Standby
      BY <1>2 DEF Replicate, RolesKept
    <3> QED
      BY <3>1, Sides
  <2>2. node[Standby].data \subseteq node[Primary].data
    BY <1>2 DEF Replicate, RolesKept
  <2>3. Follows(node[s], [node[s] EXCEPT !.data = node[Other(s)].data,
                                         !.tl = node[Other(s)].tl])
    BY <2>1, <2>2 DEF Follows, Node
  <2> QED
    BY <1>2, <2>3, FollowsSet DEF Replicate
<1>3. ASSUME NEW s \in Side, LinkUp(s) \/ LinkDown
      PROVE  \A t \in Side : Follows(node[t], node'[t])
  BY <1>3, FollowsSet DEF LinkUp, LinkDown
<1>4. ASSUME NEW s \in Side, Drain(s)
      PROVE  \A t \in Side : Follows(node[t], node'[t])
  BY <1>4, FollowsSet, FollowsUpdates DEF Drain
<1>5. ASSUME NEW s \in Side, Die(s) \/ Cut(s)
      PROVE  \A t \in Side : Follows(node[t], node'[t])
  <2>1. \E x : Set(s, [node[s] EXCEPT !.net = x])
    BY <1>5 DEF Die, Cut
  <2> QED
    BY <2>1, FollowsSet, FollowsUpdates
<1>6. ASSUME NEW s \in Side, Return(s)
      PROVE  \A t \in Side : Follows(node[t], node'[t])
  <2>1. PICK n \in {node[s], Restarted(node[s])} : Set(s, [n EXCEPT !.net = "up"])
    BY <1>6 DEF Return
  <2>2. n \in Node /\ Follows(node[s], n)
    BY <2>1, NodeUpdates, FollowsUpdates
  <2>3. Follows(node[s], [n EXCEPT !.net = "up"])
    BY <2>2, FollowsUpdates, FollowsTransitive
  <2> QED
    BY <2>1, <2>3, FollowsSet
<1> QED
  BY <1>1, <1>2, <1>3, <1>4, <1>5, <1>6 DEF World

\* The steps that do not only follow, of the whole system.
LEMMA StepFollows ==
  ASSUME TypeOK, PairInv, [Next]_vars
  PROVE  \/ \A t \in Side : Follows(node[t], node'[t])
         \/ \E s \in Side : PromoteLands(s)
         \/ /\ pc = "stage" \/ pc = "copy"
            /\ Set(Standby, Reseeded(node[Standby], node[Primary]))
<1>0. Shared
  BY TypeOKParts
<1>1. CASE World
  BY <1>0, <1>1, WorldFollows DEF PairInv
<1>2. CASE Operator \/ Crash \/ UNCHANGED vars
  <2>1. node' = node \/ Retire(Standby)
    BY <1>2 DEF Operator, FailoverStart, AbortStart, DeployStart, Reconcile, Crash, vars
  <2> QED
    BY <1>0, <2>1, FollowsSet, RetireFollows, PairFacts
<1>3. CASE FailoverStep
  BY <1>0, <1>3, FailoverFollows DEF Reseed
<1>4. CASE AbortStep
  BY <1>0, <1>4, AbortFollows
<1>5. CASE DeployStep
  BY <1>0, <1>5, DeployFollows
<1> QED
  BY <1>1, <1>2, <1>3, <1>4, <1>5 DEF Next, Command

\* So what leaves recovery is the standby, by a promote it accepted.
LEMMA PromotesLand ==
  ASSUME TypeOK, PromoteOwned, PairInv, [Next]_vars, NEW s \in Side, Promotes(s)
  PROVE  /\ s = Standby /\ node[Standby].pending /\ node[Standby].db # "zero"
         /\ cfg.journal # None /\ Other(s) = Primary
<1>0. Shared
  BY TypeOKParts
<1> USE <1>0, PairFacts
<1>1. node[s].rec /\ ~node'[s].rec
  BY DEF Promotes
<1>2. \E t \in Side : PromoteLands(t)
  <2>1. ~Follows(node[s], node'[s])
    BY <1>1 DEF Follows
  <2>2. ASSUME Set(Standby, Reseeded(node[Standby], node[Primary])) PROVE FALSE
    BY <1>1, <2>2, SetOne, ReseedUpdates
  <2> QED
    BY <2>1, <2>2, StepFollows
<1>3. PICK t \in Side : PromoteLands(t)
  BY <1>2
<1>4. t = s
  BY <1>1, <1>3, SetOne DEF PromoteLands
<1>5. node[s].pending /\ node[s].db = "run"
  BY <1>3, <1>4 DEF PromoteLands, Running
<1>6. s = Standby /\ cfg.journal # None
  BY <1>5 DEF PromoteOwned
<1> QED
  BY <1>5, <1>6, Sides

\* No promote lands on a standby that still archives as one (D2: arm, then
\* promote): its .history and .partial files are archived.
THEOREM PromotedArmed == Spec => ArmedBeforePromote
<1>1. TypeOK /\ PromoteOwned /\ PairInv /\ [Next]_vars =>
        \A s \in Side : Promotes(s) => node[s].role = "primary"
  <2> SUFFICES ASSUME TypeOK, PromoteOwned, PairInv, [Next]_vars,
                      NEW s \in Side, Promotes(s)
               PROVE  node[s].role = "primary"
    OBVIOUS
  <2> QED
    BY PromotesLand DEF PairInv, JournalKept, Armed
<1> QED
  BY <1>1, PairInvariant, PTL DEF Spec, ArmedBeforePromote

\* RPO 0: a promote under a planned failover's journal loses nothing the fenced
\* primary committed when its data was proven, whenever it lands.
THEOREM ProvenPromoteIsLossless == Spec => ProvenPromoteLosesNothing
<1>1. TypeOK /\ PromoteOwned /\ PairInv /\ [Next]_vars =>
        \A s \in Side :
          Promotes(s) /\ cfg.journal # None =>
            (cfg.journal.lsn /\ cfg.journal.proof \in {"caughtUp", "reseeded"} =>
               node[Other(s)].data \subseteq node[s].data)
  <2> SUFFICES ASSUME TypeOK, PromoteOwned, PairInv, [Next]_vars,
                      NEW s \in Side, Promotes(s), cfg.journal # None,
                      cfg.journal.lsn, cfg.journal.proof \in {"caughtUp", "reseeded"}
               PROVE  node[Other(s)].data \subseteq node[s].data
    OBVIOUS
  <2> QED
    BY PromotesLand DEF PairInv, JournalKept, Proven
<1> QED
  BY <1>1, PairInvariant, PTL DEF Spec, ProvenPromoteLosesNothing

\* A deploy's reseed overwrites transactions the primary lacks only of another
\* database, of an older timeline, or of the copy an abort gave up
\* (standbyLineageVerdict holds until the swap, minutes later).
THEOREM ReseedsOnlyGivenUp == Spec => ReseedOnlyGivenUp
<1>1. TypeOK /\ PromoteOwned /\ PairInv /\ [Next]_vars =>
        (pc = "stage" /\ ~(node[Standby].data \subseteq node'[Standby].data) =>
           \/ node[Standby].id # node[Primary].id
           \/ node[Standby].tl <= node[Primary].tl
           \/ cfg.discard = GivenUp(Standby))
  <2> SUFFICES ASSUME TypeOK, PromoteOwned, PairInv, [Next]_vars, pc = "stage",
                      ~(node[Standby].data \subseteq node'[Standby].data)
               PROVE  \/ node[Standby].id # node[Primary].id
                      \/ node[Standby].tl <= node[Primary].tl
                      \/ cfg.discard = GivenUp(Standby)
    OBVIOUS
  <2>0. Shared
    BY TypeOKParts
  <2> USE <2>0, PairFacts
  <2>1. ~PromotedOutside
    BY DEF PairInv, DeployKept
  <2>2. CASE node[Standby].rec
    BY <2>2 DEF PairInv, RolesKept, Node, Timeline
  <2>3. CASE ~node[Standby].rec
    BY <2>1, <2>3 DEF PromotedOutside, NotNewer
  <2> QED
    BY <2>2, <2>3
<1> QED
  BY <1>1, PairInvariant, PTL DEF Spec, ReseedOnlyGivenUp

-----------------------------------------------------------------------------
(* The refinement: with no outage, no false reading and no abort, the pair  *)
(* implements OneWriter.                                                   *)

\* What a command relies on then: every failover is planned, and it journals and
\* sends only a promote of data it has proven.
Settling == {"replayed", "reseed", "source", "copy", "unfenced", "arm", "journal"}
SwitchoverKept ==
  /\ pc \notin AbortPc
  /\ pc \in FailoverPc \ {"ready"} => fo.planned
  /\ pc \in Settling => fo.lsn
  /\ pc = "reseed" => fo.proof \in {"caughtUp", "behind"}
  /\ pc \in {"unfenced", "arm", "journal"} => fo.proof \in Proven
  /\ cfg.journal # None => cfg.journal.lsn /\ cfg.journal.proof \in Proven

\* A standby in recovery has no more than the primary; a promoted one no less,
\* until the roles are swapped; and a side that is neither replica nor promoted
\* has no more, and is fenced or serves nobody.
CopiesKept ==
  /\ \A s \in Side : node[s].net = "up" /\ node[s].db = "run"
  /\ node[Standby].rec => node[Standby].data \subseteq node[Primary].data
  /\ ~node[Standby].rec /\ cfg.journal # None =>
       node[Primary].data \subseteq node[Standby].data
  /\ ~node[Standby].rec /\ cfg.journal = None =>
       /\ node[Standby].data \subseteq node[Primary].data
       /\ node[Standby].fence = "on" \/ ~Serving(Standby)

\* Under these the failovers are switchovers.
NoOutage == ~Outages /\ ~ProbeLies /\ "abort" \notin Commands

\* m, a later state of cluster n, is up as n is and holds what n holds.
Still(n, m) == m.net = n.net /\ m.db = n.db /\ m.rec = n.rec /\ m.data = n.data

\* It serves nobody and is fenced when n was.
Down(n, m) ==
  /\ n.fence = "on" => m.fence = "on"
  /\ n.app = "zero" => m.app = "zero"
  /\ m.addon => n.addon

LEMMA StillUpdates ==
  ASSUME NEW n \in Node
  PROVE  /\ Still(n, n)
         /\ \A b \in BOOLEAN, c \in BOOLEAN :
              Still(n, ScaledDown(n, b, c)) /\ Still(n, ScaledUp(n, b, c))
         /\ \A r, live : Still(n, WithRole(n, r, live))
         /\ \A f : Still(n, [n EXCEPT !.fence = f])
         /\ \A b : Still(n, [n EXCEPT !.retired = b])
         /\ Still(n, Unfenced(n)) /\ Still(n, Fencing(n)) /\ Still(n, Promoting(n))
         /\ Still(n, [n EXCEPT !.app = "zero"])
BY DEF Still, Node, ScaledDown, ScaledUp, WithRole, Unfenced, Fencing, Promoting

LEMMA DownUpdates ==
  ASSUME NEW n \in Node
  PROVE  /\ Down(n, n)
         /\ \A b \in BOOLEAN, c \in BOOLEAN : Down(n, ScaledDown(n, b, c))
         /\ \A r, live : Down(n, WithRole(n, r, live))
         /\ \A b : Down(n, [n EXCEPT !.retired = b])
         /\ Down(n, Promoting(n)) /\ Down(n, [n EXCEPT !.app = "zero"])
BY DEF Down, Node, ScaledDown, WithRole, Promoting

\* Neither is lost over two updates in a row.
Calmer(n, m) == Still(n, m) /\ Down(n, m)
LEMMA CalmerTransitive ==
  \A n, m, k : Calmer(n, m) /\ Calmer(m, k) => Calmer(n, k)
BY DEF Calmer, Still, Down

\* The step writes one side, or none.
OneSided == \E s \in Side : \A t \in Side \ {s} : node'[t] = node[t]

\* Such a step that leaves the side still.
LEMMA StillSet ==
  ASSUME Shared
  PROVE  /\ \A s \in Side : \A n :
              Set(s, n) /\ Still(node[s], n) =>
                OneSided /\ \A t \in Side : Still(node[t], node'[t])
         /\ \A s \in Side : \A n :
              Set(s, n) /\ Calmer(node[s], n) =>
                OneSided /\ \A t \in Side : Calmer(node[t], node'[t])
         /\ node' = node => OneSided /\ \A t \in Side : Calmer(node[t], node'[t])
         /\ \A n : Set(Primary, n) => Down(node[Standby], node'[Standby])
<1>1. \A t \in Side : Calmer(node[t], node[t])
  BY SharedFacts, StillUpdates, DownUpdates DEF Calmer
<1>2. Side # {}
  BY Sides
<1> QED
  BY <1>1, <1>2, PairFacts DEF Set, Shared, OneSided, Calmer

\* The retirement fence stops what serves, whichever of its steps fail.
LEMMA RetireStill ==
  ASSUME Shared, NEW s \in Side, Retire(s)
  PROVE  OneSided /\ \A t \in Side : Calmer(node[t], node'[t])
<1>1. node[s] \in Node /\ Running(s) \in BOOLEAN
  BY SharedFacts
<1>2. \A n \in Node, b \in BOOLEAN :
        /\ [n EXCEPT !.retired = IF b THEN TRUE ELSE @] \in Node
        /\ Calmer(n, [n EXCEPT !.retired = b])
        /\ Calmer(n, [n EXCEPT !.retired = IF b THEN TRUE ELSE @])
  BY DEF Node, Calmer, Still, Down
<1>3. \A n \in Node : \A b \in BOOLEAN :
        Calmer(n, WithRole(n, "standby", b)) /\ Calmer(n, ScaledDown(n, b, b))
  BY StillUpdates, DownUpdates DEF Calmer
<1>4. CASE Set(s, [ScaledDown(WithRole(node[s], "standby", TRUE), TRUE, TRUE)
                        EXCEPT !.retired = TRUE])
  <2> DEFINE named == WithRole(node[s], "standby", TRUE)
             down == ScaledDown(named, TRUE, TRUE)
             marked == [down EXCEPT !.retired = TRUE]
  <2>1. named \in Node /\ Calmer(node[s], named)
    BY <1>1, <1>3, NodeUpdates DEF Role
  <2>2. down \in Node /\ Calmer(named, down)
    <3> HIDE DEF named
    <3> QED BY <2>1, <1>3, NodeUpdates
  <2>3. Calmer(down, marked)
    <3> HIDE DEF down
    <3> QED BY <2>2, <1>2
  <2>4. Set(s, marked)
    BY <1>4
  <2> HIDE DEF named, down, marked
  <2>5. Calmer(node[s], marked)
    BY <2>1, <2>2, <2>3, CalmerTransitive
  <2> QED
    BY <2>4, <2>5, StillSet
<1>5. CASE \E markers, workloads, role \in BOOLEAN :
             LET zeroed == ScaledDown(node[s], workloads, workloads)
                 marked == [zeroed EXCEPT !.retired = IF markers THEN TRUE ELSE @]
             IN Set(s, IF role THEN WithRole(marked, "standby", Running(s)) ELSE marked)
  <2>1. PICK markers \in BOOLEAN, workloads \in BOOLEAN, role \in BOOLEAN :
          LET zeroed == ScaledDown(node[s], workloads, workloads)
              marked == [zeroed EXCEPT !.retired = IF markers THEN TRUE ELSE @]
          IN Set(s, IF role THEN WithRole(marked, "standby", Running(s)) ELSE marked)
    BY <1>5
  <2> DEFINE zeroed == ScaledDown(node[s], workloads, workloads)
             marked == [zeroed EXCEPT !.retired = IF markers THEN TRUE ELSE @]
             named == WithRole(marked, "standby", Running(s))
  <2>2. zeroed \in Node /\ Calmer(node[s], zeroed)
    BY <1>1, <1>3, NodeUpdates
  <2>3. marked \in Node /\ Calmer(zeroed, marked)
    <3> HIDE DEF zeroed
    <3> QED BY <2>2, <1>2
  <2>4. Calmer(marked, named)
    <3> HIDE DEF marked
    <3> QED BY <2>3, <1>1, <1>3
  <2>5. Set(s, marked) \/ Set(s, named)
    BY <2>1
  <2> HIDE DEF zeroed, marked, named
  <2>6. Calmer(node[s], marked) /\ Calmer(node[s], named)
    BY <2>2, <2>3, <2>4, CalmerTransitive
  <2> QED
    BY <2>5, <2>6, StillSet
<1> QED
  BY <1>4, <1>5 DEF Retire

\* Scaling down is calmer, scaling up is still.
LEMMA ScaleStill ==
  ASSUME Shared, NEW s \in Side, Scale(s, ScaledDown) \/ Scale(s, ScaledUp)
  PROVE  /\ OneSided /\ \A t \in Side : Still(node[t], node'[t])
         /\ s = Primary => Down(node[Standby], node'[Standby])
<1>1. PICK tier \in BOOLEAN, addons \in BOOLEAN :
        \/ Set(s, ScaledDown(node[s], tier, addons))
        \/ Set(s, ScaledUp(node[s], tier, addons))
  BY DEF Scale
<1>2. /\ Still(node[s], ScaledDown(node[s], tier, addons))
      /\ Still(node[s], ScaledUp(node[s], tier, addons))
  BY SharedFacts, StillUpdates
<1> QED
  BY <1>1, <1>2, StillSet

\* What a step of a command is to the two clusters: one of them is written and
\* stays up, with all it holds, and the standby serves nobody new unless it was
\* promoted; or the standby is reseeded.
StillStep ==
  /\ \A s \in Side : Still(node[s], node'[s])
  /\ OneSided \/ (cfg.journal = None /\ cfg' = cfg)
  /\ Down(node[Standby], node'[Standby]) \/ pc \in AfterPromote
ReseedStep ==
  /\ node[Standby].rec \/ cfg.journal = None
  /\ Set(Standby, Reseeded(node[Standby], node[Primary]))
  /\ cfg'.primary = cfg.primary /\ cfg'.journal = cfg.journal

LEMMA CalmerStep ==
  ASSUME Shared, OneSided, \A t \in Side : Calmer(node[t], node'[t])
  PROVE  StillStep
BY PairFacts DEF Calmer, StillStep

LEMMA PrimaryStep ==
  ASSUME Shared, NEW n, Set(Primary, n), Still(node[Primary], n)
  PROVE  StillStep
BY PairFacts, StillSet DEF StillStep

LEMMA FailoverStill ==
  ASSUME Shared, FailoverStep
  PROVE  StillStep \/ ReseedStep
<1> USE PairFacts
<1>0. Running(Primary) \in BOOLEAN /\ Running(Standby) \in BOOLEAN
  BY SharedFacts
<1>1. node' = node => StillStep
  BY StillSet, CalmerStep
<1>2. CASE \/ ProbePrimary \/ Check \/ Drained \/ Mark \/ Capture \/ Replayed \/ SkipReseed
           \/ ProbeSource \/ AssertUnfenced \/ WriteJournal \/ ReadBeforePromote \/ Poll
           \/ ClearJournal \/ FlipDns \/ SwapHaRoles
  <2>1. node' = node
    BY <1>2 DEF ProbePrimary, Check, Drained, Mark, Capture, Replayed, SkipReseed,
                ProbeSource, AssertUnfenced, WriteJournal, ReadBeforePromote, Poll,
                ClearJournal, FlipDns, SwapHaRoles
  <2> QED
    BY <1>1, <2>1
<1>3. CASE LiftStranded \/ Unfence
  <2>1. node' = node \/ Set(Primary, Unfenced(node[Primary]))
    BY <1>3 DEF LiftStranded, Unfence
  <2> QED
    BY <1>1, <2>1, PrimaryStep, StillUpdates
<1>4. CASE Fence \/ Terminate
  <2>1. \/ node' = node \/ Set(Primary, Fencing(node[Primary]))
        \/ Set(Primary, [node[Primary] EXCEPT !.fence = "on"])
    BY <1>4 DEF Fence, Terminate
  <2> QED
    BY <1>1, <2>1, PrimaryStep, StillUpdates
<1>5. CASE Quiesce \/ RestartApp \/ ScaleDownOld
  BY <1>5, ScaleStill DEF Quiesce, RestartApp, ScaleDownOld, StillStep
<1>6. CASE ScaleUpPromoted \/ StartAddons
  <2>1. /\ pc \in AfterPromote
        /\ \/ node' = node
           \/ Set(Standby, ScaledUp(node[Standby], TRUE, FALSE))
           \/ Set(Standby, ScaledUp(node[Standby], FALSE, TRUE))
    BY <1>6 DEF ScaleUpPromoted, StartAddons, Goto, AfterPromote
  <2>2. /\ Still(node[Standby], ScaledUp(node[Standby], TRUE, FALSE))
        /\ Still(node[Standby], ScaledUp(node[Standby], FALSE, TRUE))
    BY StillUpdates
  <2> QED
    BY <1>1, <2>1, <2>2, StillSet DEF StillStep
<1>7. CASE Arm \/ Disarm
  <2>1. \/ node' = node
        \/ \E r \in Role, live \in BOOLEAN : Set(Standby, WithRole(node[Standby], r, live))
    BY <1>0, <1>7 DEF Arm, Disarm, Role
  <2>2. \A r \in Role, live \in BOOLEAN :
          Calmer(node[Standby], WithRole(node[Standby], r, live))
    BY StillUpdates, DownUpdates DEF Calmer
  <2> QED
    BY <1>1, <2>1, <2>2, StillSet, CalmerStep
<1>8. CASE Demote
  <2>1. \/ node' = node
        \/ \E live \in BOOLEAN : Set(Primary, WithRole(node[Primary], "standby", live))
    BY <1>0, <1>8 DEF Demote
  <2> QED
    BY <1>1, <2>1, PrimaryStep, StillUpdates
<1>9. CASE IssuePromote
  <2>1. node' = node \/ Set(Standby, Promoting(node[Standby]))
    BY <1>9 DEF IssuePromote
  <2>2. Calmer(node[Standby], Promoting(node[Standby]))
    BY StillUpdates, DownUpdates DEF Calmer
  <2> QED
    BY <1>1, <2>1, <2>2, StillSet, CalmerStep
<1>10. CASE RetireOld
  BY <1>10, RetireStill, CalmerStep DEF RetireOld
<1>11. CASE Reseed
  <2>1. \/ node' = node
        \/ /\ Set(Standby, Reseeded(node[Standby], node[Primary]))
           /\ cfg' = cfg \/ cfg' = [cfg EXCEPT !.sysid = node[Primary].id]
           /\ node[Standby].rec
    BY <1>11 DEF Reseed, SkipMidProbe, CanReseed, Succeeded
  <2> QED
    BY <1>1, <2>1 DEF ReseedStep, Config
<1> QED
  BY <1>2, <1>3, <1>4, <1>5, <1>6, <1>7, <1>8, <1>9, <1>10, <1>11 DEF FailoverStep

LEMMA DeployStill ==
  ASSUME Shared, PairInv, DeployStep, node[Standby].db = "run"
  PROVE  StillStep \/ ReseedStep
<1> USE PairFacts
<1>1. node' = node => StillStep
  BY StillSet, CalmerStep
<1>2. CASE \/ ProbeStreaming \/ GuardReseed \/ VerifyStreaming \/ ForgetDiscarded
           \/ GateStreaming \/ AwaitDns \/ FinalSave
  <2>1. node' = node
    BY <1>2 DEF ProbeStreaming, GuardReseed, VerifyStreaming, ForgetDiscarded,
                GateStreaming, AwaitDns, FinalSave
  <2> QED
    BY <1>1, <2>1
<1>3. CASE LiftAtEntry \/ AssertWritable
  <2>1. node' = node \/ Set(Primary, Unfenced(node[Primary]))
    BY <1>3 DEF LiftAtEntry, AssertWritable
  <2> QED
    BY <1>1, <2>1, PrimaryStep, StillUpdates
<1>4. CASE Refence
  BY <1>4, RetireStill, CalmerStep DEF Refence
<1>5. CASE ConvergeClusters
  <2>1. /\ \A s \in Side : node'[s] \in {node[s], Converged(s)}
        /\ pc = "clusters" /\ cfg' = cfg
    BY <1>5 DEF ConvergeClusters
  <2>2. cfg.journal = None
    BY <2>1 DEF PairInv, DeployKept, DeployPc
  <2>3. Still(node[Primary], Converged(Primary))
    <3> DEFINE n == ScaledUp(node[Primary], TRUE, TRUE)
    <3>1. n \in Node /\ Still(node[Primary], n)
      BY NodeUpdates, StillUpdates
    <3>2. Converged(Primary) = WithRole(n, "primary", TRUE)
      BY DEF Converged
    <3> HIDE DEF n
    <3>3. Still(n, WithRole(n, "primary", TRUE))
      BY <3>1, StillUpdates
    <3> QED
      BY <3>1, <3>2, <3>3 DEF Still
  <2>4. Calmer(node[Standby], Converged(Standby))
    <3> DEFINE down == ScaledDown(node[Standby], TRUE, TRUE)
               named == WithRole(down, "standby", TRUE)
    <3>1. down \in Node /\ Calmer(node[Standby], down)
      BY NodeUpdates, StillUpdates, DownUpdates DEF Calmer
    <3>2. named \in Node /\ Calmer(down, named)
      <4> HIDE DEF down
      <4> QED BY <3>1, NodeUpdates, StillUpdates, DownUpdates DEF Calmer, Role
    <3>3. Calmer(node[Standby], named)
      <4> HIDE DEF named, down
      <4> QED BY <3>1, <3>2, CalmerTransitive
    <3>4. Converged(Standby) = [named EXCEPT !.db = "run"]
      BY DEF Converged
    <3> HIDE DEF named
    <3> QED
      BY <3>2, <3>3, <3>4 DEF Calmer, Still, Down, Node
  <2>5. \A s \in Side : Still(node[s], node'[s])
    BY <2>1, <2>3, <2>4, SharedFacts, StillUpdates DEF Calmer
  <2>6. Down(node[Standby], node'[Standby])
    BY <2>1, <2>4, DownUpdates DEF Calmer
  <2> QED
    BY <2>1, <2>2, <2>5, <2>6 DEF StillStep
<1>6. CASE ClearRetired
  <2>1. node' = node \/ Set(Standby, [node[Standby] EXCEPT !.retired = FALSE])
    BY <1>6 DEF ClearRetired
  <2>2. Calmer(node[Standby], [node[Standby] EXCEPT !.retired = FALSE])
    BY StillUpdates, DownUpdates DEF Calmer
  <2> QED
    BY <1>1, <2>1, <2>2, StillSet, CalmerStep
<1>7. CASE StageAndSwap
  <2>1. cfg.journal = None
    BY <1>7 DEF StageAndSwap, PairInv, DeployKept, DeployPc
  <2> QED
    BY <1>1, <1>7, <2>1 DEF StageAndSwap, ReseedStep
<1> QED
  BY <1>2, <1>3, <1>4, <1>5, <1>6, <1>7 DEF DeployStep

\* The clusters by themselves, when none goes away.
LEMMA WorldStill ==
  ASSUME Shared, RolesKept, World, ~Outages, \A s \in Side : node[s].net = "up"
  PROVE  /\ cfg' = cfg /\ pc' = pc
         /\ \/ StillStep
            \/ \E s \in Side, w \in Write : Commit(s, w)
            \/ Replicate(Standby) /\ Other(Standby) = Primary
            \/ PromoteLands(Standby) \/ PromoteLands(Primary)
<1> USE PairFacts
<1>1. cfg' = cfg /\ pc' = pc
  BY DEF World, Commit, Replicate, LinkUp, LinkDown, Drain, PromoteLands, Die, Cut, Return
<1>2. CASE LinkDown \/ \E s \in Side : LinkUp(s)
  BY <1>2, StillSet, CalmerStep DEF LinkDown, LinkUp
<1>3. ASSUME NEW s \in Side, Drain(s)
      PROVE  StillStep
  <2>1. Calmer(node[s], [node[s] EXCEPT !.app = "zero"])
    BY SharedFacts, StillUpdates, DownUpdates DEF Calmer
  <2> QED
    BY <1>3, <2>1, StillSet, CalmerStep DEF Drain
<1>4. \A s \in Side : ~Die(s) /\ ~Cut(s) /\ ~Return(s)
  BY DEF Die, Cut, Return
<1>5. ASSUME NEW s \in Side, Replicate(s)
      PROVE  s = Standby /\ Other(s) = Primary
  <2>1. s = Standby
    BY <1>5 DEF Replicate, RolesKept
  <2> QED
    BY <2>1, Sides
<1> QED
  BY <1>1, <1>2, <1>3, <1>4, <1>5 DEF World

\* A step that ends a failover, or goes on past what it settles before the
\* promote, keeps what it relies on.
LEMMA SwitchoverGoesOn ==
  ASSUME SwitchoverKept, pc \in FailoverPc \ {"ready"}, cfg'.journal \in {cfg.journal, None},
         \/ pc' = "idle"
         \/ pc' \in FailoverPc \ Settling /\ fo'.planned = fo.planned
  PROVE  SwitchoverKept'
<1>1. pc' \notin AbortPc /\ pc' \notin Settling /\ (pc' \in FailoverPc => fo'.planned)
  <2>1. CASE pc' = "idle"
    BY <2>1, PcsApart DEF Settling
  <2>2. CASE pc' \in FailoverPc \ Settling /\ fo'.planned = fo.planned
    BY <2>2, PcsApart DEF SwitchoverKept
  <2> QED
    BY <2>1, <2>2
<1> QED
  BY <1>1 DEF SwitchoverKept, Settling

\* One that keeps the proof, and settles nothing that was not.
LEMMA SwitchoverSettles ==
  ASSUME SwitchoverKept, cfg' = cfg, pc \in FailoverPc \ {"ready"}, pc' \in Settling,
         fo'.planned = fo.planned, fo'.lsn,
         pc' = "reseed" => fo'.proof \in {"caughtUp", "behind"},
         pc' \in {"unfenced", "arm", "journal"} => fo'.proof \in Proven
  PROVE  SwitchoverKept'
<1>1. Settling \subseteq FailoverPc /\ "ready" \notin Settling
  BY DEF Settling, FailoverPc
<1> QED
  BY <1>1, PcsApart DEF SwitchoverKept

LEMMA ExitOrOn ==
  /\ \A from : Aborts(from) =>
       pc' = "idle" \/ (pc' \in {"unfence", "restart"} /\ fo' = fo)
  /\ \A from : NotFenced(from) =>
       pc' = "idle" \/ (pc' \in {"unfence", "restart", "demote"} /\ fo' = fo)
  /\ \A from : NotArmed(from) =>
       pc' = "idle" \/ (pc' \in {"unfence", "restart", "disarm"} /\ fo' = fo)
  /\ \A from : AfterUndo(from) => pc' = "idle" \/ (pc' = "clear" /\ fo' = fo)
  /\ \A from : Exit(from) => pc' = "idle"
BY AbortsTo, NotFencedTo, NotArmedTo DEF AfterUndo, Exit, Goto

LEMMA FailoverSwitches ==
  ASSUME Shared, fo \in Failover, PairInv, SwitchoverKept, CopiesKept, ~ProbeLies,
         FailoverStep, ~used'.behind
  PROVE  SwitchoverKept'
<1> USE PairFacts
<1>0. /\ DbAnswers(Primary) /\ {"unfence", "restart", "demote", "disarm"} \subseteq FailoverPc \ Settling
      /\ Settling \subseteq FailoverPc /\ "ready" \notin Settling
  BY DEF CopiesKept, DbAnswers, Answers, Running, FailoverPc, Settling
<1>1. CASE ProbePrimary
  <2>1. pc = "ready" /\ cfg' = cfg /\ pc' = "lift" /\ fo' = [fo EXCEPT !.planned = TRUE]
    BY <1>0, <1>1 DEF ProbePrimary, PrimaryReady
  <2>2. fo'.planned
    BY <2>1 DEF Failover
  <2> QED
    BY <2>1, <2>2, PcsApart DEF SwitchoverKept, FailoverPc, Settling
<1>2. CASE LiftStranded \/ Check
  <2>1. /\ pc \in FailoverPc \ {"ready"} /\ cfg'.journal = cfg.journal
        /\ pc' = "idle" \/ (pc' \in {"check", "quiesce"} /\ fo'.planned = fo.planned)
    <3>1. fo.planned
      BY <1>2 DEF SwitchoverKept, LiftStranded, Check, FailoverPc
    <3>2. CASE LiftStranded
      <4>1. pc = "lift" /\ (pc' = "idle" \/ (pc' = "check" /\ fo' = fo))
        BY <3>2, ExitOrOn DEF LiftStranded
      <4>2. cfg'.journal = cfg.journal
        BY <3>2 DEF LiftStranded, Saved, Config
      <4> QED
        BY <4>1, <4>2 DEF FailoverPc
    <3>3. CASE Check
      <4>1. \/ pc' = "idle"
            \/ /\ pc' = "quiesce"
               /\ \E j, r, i : fo' = [fo EXCEPT !.journaled = j, !.resume = r, !.seen = i]
        <5>1. CASE Exit("check")
          BY <5>1, ExitOrOn
        <5>2. CASE \E standby \in StandbyReadings :
                     /\ fo' = [fo EXCEPT !.journaled = cfg.journal # None,
                                         !.resume = ~node[Standby].rec,
                                         !.seen = standby.id]
                     /\ pc' = IF fo.planned THEN "quiesce"
                              ELSE IF fo'.resume THEN "demote" ELSE "reseed"
          <6>1. PICK standby \in StandbyReadings :
                  fo' = [fo EXCEPT !.journaled = cfg.journal # None,
                                   !.resume = ~node[Standby].rec,
                                   !.seen = standby.id]
            BY <5>2
          <6> QED
            BY <3>1, <5>2, <6>1
        <5> QED
          BY <3>3, <5>1, <5>2 DEF Check
      <4>2. pc = "check" /\ cfg' = cfg
        BY <3>3 DEF Check
      <4> QED
        BY <4>1, <4>2 DEF FailoverPc, Failover
    <3> QED
      BY <1>2, <3>2, <3>3
  <2>2. {"check", "quiesce"} \subseteq FailoverPc \ Settling
    BY DEF FailoverPc, Settling
  <2> QED
    BY <2>1, <2>2, SwitchoverGoesOn
<1>3. CASE \/ Quiesce \/ Drained \/ Fence \/ Terminate \/ Disarm \/ ReadBeforePromote
           \/ IssuePromote \/ Poll \/ RestartApp
           \/ Demote \/ ScaleUpPromoted \/ ScaleDownOld \/ StartAddons \/ FlipDns \/ RetireOld
  <2>1. cfg' = cfg
    BY <1>3 DEF Quiesce, Drained, Fence, Terminate, Disarm, ReadBeforePromote,
                IssuePromote, Poll, RestartApp, Demote, ScaleUpPromoted, ScaleDownOld,
                StartAddons, FlipDns, RetireOld
  <2>2. pc \in FailoverPc \ {"ready"}
    BY <1>3 DEF Quiesce, Drained, Fence, Terminate, Disarm, ReadBeforePromote,
                IssuePromote, Poll, RestartApp, Demote, ScaleUpPromoted, ScaleDownOld,
                StartAddons, FlipDns, RetireOld, Goto, Exit, FailoverPc, AfterUndo
  <2>3. pc' = "idle" \/ (pc' \in FailoverPc \ Settling /\ fo'.planned = fo.planned)
    <3>1. CASE Quiesce \/ Drained \/ Fence
      BY <1>0, <3>1, ExitOrOn DEF Quiesce, Drained, Fence, FailoverPc, Settling
    <3>2. CASE Terminate
      BY <1>0, <3>2, ExitOrOn DEF Terminate, FailoverPc, Settling
    <3>3. CASE Disarm \/ RestartApp
      BY <1>0, <3>3, ExitOrOn DEF Disarm, RestartApp, FailoverPc, Settling
    <3>4. CASE ReadBeforePromote
      <4>1. pc' = "idle" \/ (pc' \in {"issue", "unfence", "clear"} /\ fo'.planned = fo.planned)
        BY <3>4, ExitOrOn DEF ReadBeforePromote, Goto, Failover
      <4> QED
        BY <4>1 DEF FailoverPc, Settling
    <3>5. CASE IssuePromote \/ Poll
      BY <3>5, ExitOrOn DEF IssuePromote, Poll, Goto, FailoverPc, Settling
    <3>6. CASE Demote \/ ScaleUpPromoted \/ StartAddons \/ FlipDns \/ RetireOld
      BY <3>6, ExitOrOn DEF Demote, ScaleUpPromoted, StartAddons, FlipDns, RetireOld, Goto,
                            FailoverPc, Settling
    <3>7. CASE ScaleDownOld
      <4>1. pc' = "addons" /\ \E hold : fo' = [fo EXCEPT !.hold = hold]
        BY <3>7 DEF ScaleDownOld, Goto
      <4> QED
        BY <4>1 DEF FailoverPc, Settling, Failover
    <3> QED
      BY <1>3, <3>1, <3>2, <3>3, <3>4, <3>5, <3>6, <3>7
  <2> QED
    BY <2>1, <2>2, <2>3, SwitchoverGoesOn
<1>4. CASE Mark \/ Unfence \/ ClearJournal \/ SwapHaRoles
  <2>1. cfg'.journal \in {cfg.journal, None}
    BY <1>4 DEF Mark, Unfence, ClearJournal, SwapHaRoles, Saved, SaveFailed, Config
  <2>2. pc \in FailoverPc \ {"ready"}
    BY <1>4 DEF Mark, Unfence, ClearJournal, SwapHaRoles, Goto, Exit, FailoverPc
  <2>3. pc' = "idle" \/ (pc' \in FailoverPc \ Settling /\ fo'.planned = fo.planned)
    <3>1. CASE Mark
      <4>1. \/ pc' = "idle"
            \/ pc' \in {"unfence", "restart", "demote"} /\ fo' = fo
            \/ pc' = "fence" /\ fo' = [fo EXCEPT !.tried = TRUE]
        BY <3>1, ExitOrOn DEF Mark
      <4> QED
        BY <1>0, <4>1 DEF FailoverPc, Settling, Failover
    <3>2. CASE Unfence
      BY <3>2, ExitOrOn DEF Unfence, FailoverPc, Settling
    <3>3. CASE ClearJournal \/ SwapHaRoles
      BY <3>3, ExitOrOn DEF ClearJournal, SwapHaRoles, FailoverPc, Settling
    <3> QED
      BY <1>4, <3>1, <3>2, <3>3
  <2> QED
    BY <2>1, <2>2, <2>3, SwitchoverGoesOn
<1>5. CASE Capture
  <2>1. /\ pc = "capture" /\ cfg' = cfg
        /\ \/ pc' = "idle" \/ (pc' \in {"unfence", "restart"} /\ fo' = fo)
           \/ pc' = "replayed" /\ fo' = [fo EXCEPT !.lsn = TRUE, !.proof = "none"]
           \/ pc' = "reseed" /\ fo' = [fo EXCEPT !.lsn = TRUE, !.proof = "behind"]
    BY <1>5, ExitOrOn DEF Capture
  <2>2. pc \in FailoverPc \ {"ready"}
    BY <2>1 DEF FailoverPc
  <2>3. CASE pc' = "idle" \/ (pc' \in {"unfence", "restart"} /\ fo' = fo)
    BY <1>0, <2>1, <2>2, <2>3, SwitchoverGoesOn
  <2>4. CASE pc' = "replayed" /\ fo' = [fo EXCEPT !.lsn = TRUE, !.proof = "none"]
    <3>1. fo'.planned = fo.planned /\ fo'.lsn
      BY <2>4 DEF Failover
    <3> QED
      BY <2>1, <2>2, <2>4, <3>1, SwitchoverSettles DEF Settling
  <2>5. CASE pc' = "reseed" /\ fo' = [fo EXCEPT !.lsn = TRUE, !.proof = "behind"]
    <3>1. fo'.planned = fo.planned /\ fo'.lsn /\ fo'.proof = "behind"
      BY <2>5 DEF Failover
    <3> QED
      BY <2>1, <2>2, <2>5, <3>1, SwitchoverSettles DEF Settling
  <2> QED
    BY <2>1, <2>3, <2>4, <2>5
<1>6. CASE Replayed \/ SkipReseed \/ ProbeSource \/ AssertUnfenced \/ Arm
  <2>1. pc \in Settling /\ cfg' = cfg
    BY <1>6 DEF Replayed, SkipReseed, ProbeSource, AssertUnfenced, Arm, Settling
  <2>2. pc \in FailoverPc \ {"ready"} /\ fo.lsn
    BY <1>0, <2>1 DEF SwitchoverKept
  <2>3. \/ pc' = "idle" \/ (pc' \in {"unfence", "restart", "disarm"} /\ fo' = fo)
        \/ pc' = "reseed" /\ fo' = [fo EXCEPT !.proof = "caughtUp"]
        \/ pc' \in {"source", "copy"} /\ fo' = fo
        \/ pc' \in {"arm", "journal"} /\ fo' = fo /\ fo.proof \in Proven
    <3>1. CASE Replayed
      BY <3>1, ExitOrOn DEF Replayed
    <3>2. CASE SkipReseed
      <4>1. fo.proof \in {"caughtUp", "behind"}
        BY <3>2 DEF SkipReseed, SwitchoverKept
      <4> QED
        BY <3>2, <4>1 DEF SkipReseed, Proven
    <3>3. CASE ProbeSource
      BY <1>0, <3>3 DEF ProbeSource, PrimaryReady
    <3>4. CASE AssertUnfenced \/ Arm
      <4>1. fo.proof \in Proven
        BY <3>4 DEF AssertUnfenced, Arm, SwitchoverKept
      <4> QED
        BY <3>4, <4>1, ExitOrOn DEF AssertUnfenced, Arm
    <3> QED
      BY <1>6, <3>1, <3>2, <3>3, <3>4
  <2>4. CASE pc' = "idle" \/ (pc' \in {"unfence", "restart", "disarm"} /\ fo' = fo)
    BY <1>0, <2>1, <2>2, <2>4, SwitchoverGoesOn
  <2>5. CASE pc' = "reseed" /\ fo' = [fo EXCEPT !.proof = "caughtUp"]
    <3>1. fo'.planned = fo.planned /\ fo'.lsn /\ fo'.proof = "caughtUp"
      BY <2>2, <2>5 DEF Failover
    <3> QED
      BY <2>1, <2>2, <2>5, <3>1, SwitchoverSettles DEF Settling
  <2>6. CASE pc' \in {"source", "copy"} /\ fo' = fo
    BY <2>1, <2>2, <2>6, SwitchoverSettles DEF Settling
  <2>7. CASE pc' \in {"arm", "journal"} /\ fo' = fo /\ fo.proof \in Proven
    BY <2>1, <2>2, <2>7, SwitchoverSettles DEF Settling
  <2> QED
    BY <2>3, <2>4, <2>5, <2>6, <2>7
<1>7. CASE Reseed
  <2>1. pc = "copy" /\ fo.planned /\ fo.lsn /\ pc \in FailoverPc \ {"ready"}
    BY <1>7 DEF Reseed, SwitchoverKept, Settling, FailoverPc
  <2>2. cfg'.journal = cfg.journal
    BY <1>7 DEF Reseed, SkipMidProbe, Config
  <2>3. CASE Aborts("copy")
    BY <1>0, <2>1, <2>2, <2>3, ExitOrOn, SwitchoverGoesOn
  <2>4. CASE /\ fo' = [fo EXCEPT !.proof = "reseeded", !.seen = node[Primary].id]
             /\ pc' = "unfenced"
    <3>1. fo'.planned /\ fo'.lsn /\ fo'.proof = "reseeded"
      BY <2>1, <2>4 DEF Failover
    <3> QED
      BY <2>2, <2>4, <3>1, PcsApart DEF SwitchoverKept, Settling, FailoverPc, AbortPc, Proven
  <2>5. CASE SkipMidProbe
    <3>1. cfg' = cfg /\ pc' = "arm" /\ fo'.planned = fo.planned /\ fo'.lsn = fo.lsn
          /\ fo'.proof = SkippedProof
      BY <2>5 DEF SkipMidProbe, Failover
    <3>2. used'.behind <=> used.behind \/ SkippedProof = "skipped"
      BY <2>5 DEF SkipMidProbe, Shared, UsedType
    <3>3. fo'.proof \in Proven
      BY <3>1, <3>2 DEF SkippedProof, Proven
    <3> QED
      BY <2>1, <3>1, <3>3, SwitchoverSettles DEF Settling
  <2> QED
    BY <1>7, <2>1, <2>3, <2>4, <2>5 DEF Reseed
<1>8. CASE WriteJournal
  <2>1. pc = "journal" /\ fo.planned /\ fo.lsn /\ fo.proof \in Proven /\ pc \in FailoverPc \ {"ready"}
    BY <1>8 DEF WriteJournal, SwitchoverKept, Settling, FailoverPc
  <2>2. CASE SaveFailed /\ NotArmed("journal")
    BY <1>0, <2>1, <2>2, ExitOrOn, SwitchoverGoesOn DEF SaveFailed
  <2>3. CASE /\ Saved([cfg EXCEPT !.journal =
                         [lsn |-> fo.lsn, id |-> fo.seen, proof |-> fo.proof]])
             /\ pc' = "send" /\ fo' = fo
    <3>1. cfg'.journal.lsn /\ cfg'.journal.proof \in Proven
      BY <2>1, <2>3 DEF Saved, Config
    <3> QED
      BY <2>1, <2>3, <3>1 DEF SwitchoverKept, Settling, FailoverPc, AbortPc
  <2> QED
    BY <1>8, <2>2, <2>3 DEF WriteJournal
<1> QED
  BY <1>1, <1>2, <1>3, <1>4, <1>5, <1>6, <1>7, <1>8 DEF FailoverStep

\* Everything else keeps it by its pc and the journal.
LEMMA SwitchoverElsewhere ==
  ASSUME SwitchoverKept, cfg'.journal = cfg.journal,
         \/ pc' = pc /\ fo' = fo
         \/ pc' \in {"idle", "ready"} \cup DeployPc
  PROVE  SwitchoverKept'
<1>1. {"ready"} \cap Settling = {} /\ Settling \subseteq FailoverPc
      /\ "ready" \in FailoverPc
  BY DEF Settling, FailoverPc
<1>2. CASE pc' = pc /\ fo' = fo
  BY <1>2 DEF SwitchoverKept
<1>3. CASE pc' \in {"idle", "ready"} \cup DeployPc
  <2>1. pc' \notin AbortPc /\ pc' \notin FailoverPc \ {"ready"} /\ pc' \notin Settling
    BY <1>1, <1>3, PcsApart
  <2> QED
    BY <2>1 DEF SwitchoverKept, Settling
<1> QED
  BY <1>2, <1>3

LEMMA AbortSteps == AbortStep => pc \in AbortPc
BY DEF AbortStep, ReadStandbyLineage, StopStandbyDb, DisarmStandby, RepointDns,
       UnfencePrimary, ArmPrimary, StartPrimaryWriters, RecordAbort, Goto, AbortPc

LEMMA DeploySteps ==
  ASSUME Shared, DeployStep
  PROVE  /\ pc' \in {"idle"} \cup DeployPc
         /\ cfg'.primary = cfg.primary /\ cfg'.journal = cfg.journal
<1>1. CASE LiftAtEntry \/ Refence \/ ConvergeClusters \/ ProbeStreaming \/ GuardReseed
  BY <1>1 DEF LiftAtEntry, Refence, ConvergeClusters, ProbeStreaming, GuardReseed, Saved,
     SaveFailed, Goto, DeployExit, NotStreaming, DeployPc, Shared, Config
<1>2. CASE StageAndSwap \/ VerifyStreaming \/ ForgetDiscarded \/ GateStreaming
  BY <1>2 DEF StageAndSwap, VerifyStreaming, ForgetDiscarded, GateStreaming, Saved,
     SaveFailed, Goto, DeployExit, NotStreaming, DeployPc, Shared, Config
<1>3. CASE AwaitDns \/ ClearRetired \/ AssertWritable \/ FinalSave
  BY <1>3 DEF AwaitDns, ClearRetired, AssertWritable, FinalSave, Saved,
     SaveFailed, Goto, DeployExit, DeployPc, Shared, Config
<1> QED
  BY <1>1, <1>2, <1>3 DEF DeployStep

LEMMA NextSwitches ==
  ASSUME TypeOK, PairInv, SwitchoverKept, CopiesKept, NoOutage, [Next]_vars, ~used'.behind
  PROVE  SwitchoverKept'
<1>1. Shared /\ fo \in Failover /\ ~ProbeLies
  BY DEF TypeOK, Shared, UsedType, NoOutage
<1>2. CASE World /\ UNCHANGED locals
  <2>1. cfg' = cfg /\ pc' = pc /\ fo' = fo
    BY <1>2 DEF World, locals, Commit, Replicate, LinkUp, LinkDown, Drain, PromoteLands,
                Die, Cut, Return
  <2> QED
    BY <2>1, SwitchoverElsewhere
<1>3. CASE Operator
  <2>1. cfg' = cfg
    BY <1>3 DEF Operator, FailoverStart, AbortStart, DeployStart, Reconcile
  <2>2. pc' \in {"idle", "ready"} \cup DeployPc
    <3>2. FailoverStart => pc' = "ready"
      BY DEF FailoverStart, Starts, Goto
    <3>3. DeployStart => pc' = "entry"
      BY DEF DeployStart, Starts, Goto
    <3>4. Reconcile => pc' = "idle"
      BY DEF Reconcile
    <3>5. "abort" \notin Commands
      BY DEF NoOutage
    <3> QED
      BY <1>3, <3>2, <3>3, <3>4, <3>5 DEF Operator, DeployPc
  <2> QED
    BY <2>1, <2>2, SwitchoverElsewhere
<1>4. CASE FailoverStep
  BY <1>1, <1>4, FailoverSwitches
<1>5. CASE AbortStep
  <2>1. pc \in AbortPc
    BY <1>5, AbortSteps
  <2> QED
    BY <2>1 DEF SwitchoverKept
<1>6. CASE DeployStep
  <2>1. pc' \in {"idle"} \cup DeployPc
    BY <1>1, <1>6, DeploySteps
  <2>2. cfg'.journal = cfg.journal
    BY <1>1, <1>6, DeploySteps
  <2> QED
    BY <2>1, <2>2, SwitchoverElsewhere
<1>7. CASE Crash
  BY <1>7, SwitchoverElsewhere DEF Crash
<1>8. CASE UNCHANGED vars
  BY <1>8, SwitchoverElsewhere DEF vars
<1> QED
  BY <1>2, <1>3, <1>4, <1>5, <1>6, <1>7, <1>8 DEF Next, Command

-----------------------------------------------------------------------------
(* The two copies.                                                         *)

\* The two copies, once it is known which side is which.
LEMMA CopiesNext ==
  ASSUME NEW p \in Side, NEW s \in Side, Primary' = p, Standby' = s,
         \A t \in Side : node'[t].net = "up" /\ node'[t].db = "run",
         node'[s].rec => node'[s].data \subseteq node'[p].data,
         ~node'[s].rec /\ cfg'.journal # None => node'[p].data \subseteq node'[s].data,
         ~node'[s].rec /\ cfg'.journal = None =>
           /\ node'[s].data \subseteq node'[p].data
           /\ \/ node'[s].fence = "on"
              \/ node'[s].app = "zero" /\ ~node'[s].addon
  PROVE  CopiesKept'
<1>1. node'[s].app = "zero" /\ ~node'[s].addon => ~Serving(Standby)'
  BY DEF Serving
<1> QED
  BY <1>1 DEF CopiesKept

\* A step that leaves both sides up with what they hold, and the roles and the
\* journal as they are or the standby in recovery.
LEMMA CopiesStill ==
  ASSUME Shared, FailoverKept, CopiesKept, StillStep, cfg'.primary = cfg.primary,
         \/ (cfg'.journal = None) <=> (cfg.journal = None)
         \/ node[Standby].rec
  PROVE  CopiesKept'
<1> USE PairFacts
<1>1. Primary' = Primary /\ Standby' = Standby
  BY SameRoles
<1>2. \A s \in Side : node'[s].net = "up" /\ node'[s].db = "run"
  BY DEF CopiesKept, StillStep, Still
<1>3. /\ node'[Primary].data = node[Primary].data
      /\ node'[Standby].data = node[Standby].data /\ node'[Standby].rec = node[Standby].rec
  BY DEF StillStep, Still
<1>4. ASSUME ~node[Standby].rec, cfg.journal = None
      PROVE  node'[Standby].fence = "on" \/ ~Serving(Standby)'
  <2>1. Down(node[Standby], node'[Standby])
    BY <1>4 DEF StillStep, FailoverKept
  <2>2. node[Standby].addon \in BOOLEAN
    BY DEF Node
  <2>3. node[Standby].fence = "on" \/ (node[Standby].app = "zero" /\ ~node[Standby].addon)
    BY <1>4 DEF CopiesKept, Serving
  <2> QED
    BY <1>1, <2>1, <2>2, <2>3 DEF Down, Serving
<1>5. node[Standby].rec => node[Standby].data \subseteq node[Primary].data
  BY DEF CopiesKept
<1>6. ~node[Standby].rec /\ cfg'.journal # None =>
        node[Primary].data \subseteq node[Standby].data
  BY DEF CopiesKept
<1>7. ~node[Standby].rec /\ cfg'.journal = None =>
        /\ node[Standby].data \subseteq node[Primary].data
        /\ node'[Standby].fence = "on" \/ ~Serving(Standby)'
  BY <1>4 DEF CopiesKept
<1> QED
  BY <1>1, <1>2, <1>3, <1>5, <1>6, <1>7 DEF CopiesKept

LEMMA CopiesReseed ==
  ASSUME Shared, CopiesKept, ReseedStep
  PROVE  CopiesKept'
<1> USE PairFacts
<1>1. Primary' = Primary /\ Standby' = Standby
  BY SameRoles DEF ReseedStep
<1>2. /\ node'[Primary] = node[Primary]
      /\ node'[Standby] = Reseeded(node[Standby], node[Primary])
  BY SetOne DEF ReseedStep
<1>3. /\ node'[Standby].rec /\ node'[Standby].data = node[Primary].data
      /\ node'[Standby].db = node[Standby].db
  BY <1>2, ReseedUpdates
<1>4. node'[Standby].net = node[Standby].net
  BY <1>2 DEF Reseeded, Restarted, Node
<1> QED
  BY <1>1, <1>2, <1>3, <1>4 DEF CopiesKept

\* A failover writes the roles at its end, with the old primary fenced; and the
\* journal while the standby is in recovery, or was journaled before.
LEMMA FailoverRecords ==
  ASSUME Shared, fo \in Failover, FailoverKept, FailoverStep
  PROVE  \/ /\ pc = "swap" /\ node' = node
            /\ cfg'.primary = Standby /\ cfg'.journal = None
         \/ /\ cfg'.primary = cfg.primary
            /\ \/ (cfg'.journal = None) <=> (cfg.journal = None)
               \/ node[Standby].rec
<1>1. CASE \/ ProbePrimary \/ Check \/ Quiesce \/ Drained \/ Fence \/ Terminate \/ Capture
           \/ Replayed \/ SkipReseed \/ ProbeSource \/ AssertUnfenced \/ Arm \/ Disarm
           \/ ReadBeforePromote \/ IssuePromote \/ Poll \/ RestartApp \/ Demote
           \/ ScaleUpPromoted \/ ScaleDownOld \/ StartAddons \/ FlipDns \/ RetireOld
  <2>1. cfg' = cfg
    BY <1>1 DEF ProbePrimary, Check, Quiesce, Drained, Fence, Terminate, Capture,
           Replayed, SkipReseed, ProbeSource, AssertUnfenced, Arm, Disarm,
           ReadBeforePromote, IssuePromote, Poll, RestartApp, Demote,
           ScaleUpPromoted, ScaleDownOld, StartAddons, FlipDns, RetireOld
  <2> QED
    BY <2>1
<1>2. CASE LiftStranded \/ Mark \/ Unfence \/ Reseed
  <2>1. cfg'.primary = cfg.primary /\ cfg'.journal = cfg.journal
    BY <1>2
    DEF LiftStranded, Mark, Unfence, Reseed, SkipMidProbe, Saved, SaveFailed, Shared, Config
  <2> QED
    BY <2>1
<1>3. CASE WriteJournal
  <2>1. cfg' = cfg \/ cfg' = [cfg EXCEPT !.journal =
                                [lsn |-> fo.lsn, id |-> fo.seen, proof |-> fo.proof]]
    BY <1>3 DEF WriteJournal, Saved, SaveFailed
  <2>2. [lsn |-> fo.lsn, id |-> fo.seen, proof |-> fo.proof] # None
    BY NoneAssumption DEF Failover, Journal
  <2>3. cfg.journal # None \/ node[Standby].rec
    BY <1>3 DEF WriteJournal, FailoverKept, BeforeIssue
  <2>4. cfg'.primary = cfg.primary
    BY <2>1 DEF Shared, Config
  <2>5. cfg' = cfg \/ cfg'.journal # None
    BY <2>1, <2>2 DEF Shared, Config
  <2> QED
    BY <2>3, <2>4, <2>5
<1>4. CASE ClearJournal
  <2>1. node[Standby].rec
    BY <1>4 DEF ClearJournal, Exit, Goto, FailoverKept, BeforeIssue
  <2>2. cfg'.primary = cfg.primary
    BY <1>4 DEF ClearJournal, Saved, SaveFailed, Shared, Config
  <2> QED
    BY <2>1, <2>2
<1>5. CASE SwapHaRoles
  BY <1>5 DEF SwapHaRoles, Saved, SaveFailed, Shared, Config
<1> QED
  BY <1>1, <1>2, <1>3, <1>4, <1>5 DEF FailoverStep

\* The roles are swapped on a promoted standby, whose old primary is fenced.
LEMMA CopiesSwap ==
  ASSUME Shared, PromoteOwned, PairInv, SwitchoverKept, CopiesKept,
         pc = "swap", node' = node, cfg'.primary = Standby, cfg'.journal = None
  PROVE  CopiesKept'
<1> USE PairFacts
<1>1. Primary' = Standby /\ Standby' = Primary
  BY Sides DEF Primary, Standby
<1>2. ~node[Standby].rec /\ cfg.journal # None
  BY DEF PromoteOwned, PairInv, FailoverKept, AfterPromote
<1>3. node[Primary].fence = "on"
  BY <1>2 DEF PairInv, JournalKept, SwitchoverKept, CopiesKept
<1>4. node[Primary].data \subseteq node[Standby].data
  BY <1>2 DEF CopiesKept
<1>5. ~node[Primary].rec
  BY DEF PairInv, RolesKept
<1>6. \A s \in Side : node'[s].net = "up" /\ node'[s].db = "run"
  BY DEF CopiesKept
<1> QED
  BY <1>1, <1>3, <1>4, <1>5, <1>6, CopiesNext

\* A commit keeps them: a fenced side takes none, and the standby only once it
\* was promoted.
LEMMA CopiesCommit ==
  ASSUME Shared, PairInv, SwitchoverKept, CopiesKept,
         NEW s \in Side, NEW w \in Write, Commit(s, w)
  PROVE  CopiesKept'
<1> USE PairFacts
<1> DEFINE n == [node[s] EXCEPT !.data = @ \cup {w}]
<1>1. /\ Primary' = Primary /\ Standby' = Standby /\ cfg' = cfg
      /\ node'[s] = n /\ \A t \in Side \ {s} : node'[t] = node[t]
  BY SetOne, SameRoles DEF Commit
<1>2. /\ n.net = node[s].net /\ n.db = node[s].db /\ n.rec = node[s].rec
      /\ n.fence = node[s].fence /\ n.app = node[s].app /\ n.addon = node[s].addon
      /\ n.data = node[s].data \cup {w}
  BY DEF Node
<1>3. ~node[s].rec /\ node[s].fence # "on" /\ Serving(s)
  BY DEF Commit, Writes, TakesWrites
<1> HIDE DEF n
<1>4. \A t \in Side : /\ node'[t].net = "up" /\ node'[t].db = "run"
                      /\ node'[t].rec = node[t].rec /\ node'[t].fence = node[t].fence
                      /\ node'[t].app = node[t].app /\ node'[t].addon = node[t].addon
  BY <1>1, <1>2 DEF CopiesKept
<1>5. CASE s = Primary
  <2>1. node[Standby].rec \/ cfg.journal = None
    BY <1>3, <1>5 DEF PairInv, JournalKept, SwitchoverKept, CopiesKept
  <2>2. node[Standby].data \subseteq node[Primary].data
    BY <2>1 DEF CopiesKept
  <2>3. node'[Standby].data \subseteq node'[Primary].data
    BY <1>1, <1>2, <1>5, <2>2
  <2> QED
    BY <1>1, <1>4, <2>1, <2>3 DEF CopiesKept, Serving
<1>6. CASE s = Standby
  <2>1. cfg.journal # None
    BY <1>3, <1>6 DEF CopiesKept
  <2>2. node[Primary].data \subseteq node[Standby].data
    BY <1>3, <1>6, <2>1 DEF CopiesKept
  <2>3. node'[Primary].data \subseteq node'[Standby].data
    BY <1>1, <1>2, <1>6, <2>2
  <2> QED
    BY <1>1, <1>3, <1>4, <1>6, <2>1, <2>3 DEF CopiesKept
<1> QED
  BY <1>5, <1>6

LEMMA CopiesReplicate ==
  ASSUME Shared, CopiesKept, Replicate(Standby), Other(Standby) = Primary
  PROVE  CopiesKept'
<1> USE PairFacts
<1>1. /\ Primary' = Primary /\ Standby' = Standby
      /\ node'[Primary] = node[Primary] /\ node[Standby].rec
  BY SetOne, SameRoles DEF Replicate
<1>2. /\ node'[Standby].net = node[Standby].net /\ node'[Standby].db = node[Standby].db
      /\ node'[Standby].rec /\ node'[Standby].data = node[Primary].data
  <2>1. node'[Standby] = [node[Standby] EXCEPT !.data = node[Primary].data,
                                               !.tl = node[Primary].tl]
    BY SetOne DEF Replicate
  <2> QED
    BY <1>1, <2>1 DEF Node
<1>3. \A t \in Side : node'[t].net = "up" /\ node'[t].db = "run"
  BY <1>1, <1>2 DEF CopiesKept
<1> QED
  BY <1>1, <1>2, <1>3, CopiesNext

\* What lands is a promote of proven data.
LEMMA CopiesPromote ==
  ASSUME Shared, PromoteOwned, PairInv, SwitchoverKept, CopiesKept,
         NEW s \in Side, PromoteLands(s)
  PROVE  /\ CopiesKept' /\ s = Standby
         /\ cfg' = cfg /\ node[Primary].fence = "on"
         /\ node[Primary].data \subseteq node[Standby].data
         /\ node'[Primary] = node[Primary]
         /\ node'[Standby].data = node[Standby].data
<1> USE PairFacts
<1>1. s = Standby /\ cfg.journal # None /\ node[Standby].pending
  BY DEF PromoteLands, PromoteOwned
<1>2. /\ Primary' = Primary /\ Standby' = Standby /\ cfg' = cfg
      /\ node'[Primary] = node[Primary]
  BY <1>1, SetOne, SameRoles DEF PromoteLands
<1>3. /\ node'[Standby].net = node[Standby].net /\ node'[Standby].db = node[Standby].db
      /\ ~node'[Standby].rec /\ node'[Standby].data = node[Standby].data
  <2>1. node'[Standby] = [node[Standby] EXCEPT !.pending = FALSE, !.rec = FALSE,
                                               !.tl = @ + 1]
    BY <1>1, SetOne DEF PromoteLands
  <2> QED
    BY <2>1 DEF Node
<1>4. node[Primary].fence = "on" /\ node[Primary].data \subseteq node[Standby].data
  BY <1>1 DEF PairInv, JournalKept, SwitchoverKept, CopiesKept
<1>5. \A t \in Side : node'[t].net = "up" /\ node'[t].db = "run"
  BY <1>1, <1>2, <1>3 DEF CopiesKept
<1>6. CopiesKept'
  BY <1>1, <1>2, <1>3, <1>4, <1>5, CopiesNext
<1> QED
  BY <1>1, <1>2, <1>3, <1>4, <1>6

\* What a step is to the two copies.
CopyStep ==
  \/ node' = node
  \/ StillStep /\ (cfg'.primary = cfg.primary)
  \/ ReseedStep
  \/ \E s \in Side, w \in Write : Commit(s, w)
  \/ Replicate(Standby) /\ Other(Standby) = Primary
  \/ \E s \in Side : PromoteLands(s)

LEMMA NextCopies ==
  ASSUME TypeOK, PromoteOwned, PairInv, SwitchoverKept, CopiesKept, NoOutage, [Next]_vars
  PROVE  CopiesKept' /\ CopyStep
<1> USE PairFacts
<1>1. Shared /\ fo \in Failover /\ ~Outages
  BY DEF TypeOK, Shared, UsedType, NoOutage
<1>2. /\ \A s \in Side : node[s].net = "up" /\ node[s].db = "run"
      /\ node[Standby].db = "run"
      /\ RolesKept /\ FailoverKept
  BY <1>1 DEF CopiesKept, PairInv
<1>3. ASSUME StillStep \/ ReseedStep, cfg'.primary = cfg.primary,
             \/ (cfg'.journal = None) <=> (cfg.journal = None)
             \/ node[Standby].rec
      PROVE  CopiesKept' /\ CopyStep
  BY <1>1, <1>2, <1>3, CopiesStill, CopiesReseed DEF CopyStep
<1>4. node' = node => StillStep
  BY <1>1, StillSet, CalmerStep
<1>5. CASE World /\ UNCHANGED locals
  <2>1. /\ cfg' = cfg
        /\ \/ StillStep
           \/ \E s \in Side, w \in Write : Commit(s, w)
           \/ Replicate(Standby) /\ Other(Standby) = Primary
           \/ PromoteLands(Standby) \/ PromoteLands(Primary)
    BY <1>1, <1>2, <1>5, WorldStill
  <2>2. CASE StillStep
    BY <1>3, <2>1, <2>2
  <2>3. CASE \E s \in Side, w \in Write : Commit(s, w)
    BY <1>1, <2>3, CopiesCommit DEF CopyStep
  <2>4. CASE Replicate(Standby) /\ Other(Standby) = Primary
    BY <1>1, <2>4, CopiesReplicate DEF CopyStep
  <2>5. CASE PromoteLands(Standby) \/ PromoteLands(Primary)
    BY <1>1, <2>5, CopiesPromote DEF CopyStep
  <2> QED
    BY <2>1, <2>2, <2>3, <2>4, <2>5
<1>6. CASE Operator
  <2>1. cfg' = cfg /\ (node' = node \/ Retire(Standby))
    BY <1>6 DEF Operator, FailoverStart, AbortStart, DeployStart, Reconcile
  <2>2. StillStep
    BY <1>1, <1>4, <2>1, RetireStill, CalmerStep
  <2> QED
    BY <1>3, <2>1, <2>2
<1>7. CASE FailoverStep
  <2>1. CASE /\ pc = "swap" /\ node' = node
             /\ cfg'.primary = Standby /\ cfg'.journal = None
    BY <1>1, <2>1, CopiesSwap DEF CopyStep
  <2>2. CASE /\ cfg'.primary = cfg.primary
             /\ \/ (cfg'.journal = None) <=> (cfg.journal = None)
                \/ node[Standby].rec
    BY <1>1, <1>3, <1>7, <2>2, FailoverStill
  <2> QED
    BY <1>1, <1>2, <1>7, <2>1, <2>2, FailoverRecords
<1>8. CASE AbortStep
  BY <1>8, AbortSteps DEF SwitchoverKept
<1>9. CASE DeployStep
  BY <1>1, <1>2, <1>3, <1>9, DeploySteps, DeployStill
<1>10. CASE Crash \/ UNCHANGED vars
  <2>1. cfg' = cfg /\ node' = node
    BY <1>10 DEF Crash, vars
  <2> QED
    BY <1>3, <1>4, <2>1
<1> QED
  BY <1>5, <1>6, <1>7, <1>8, <1>9, <1>10 DEF Next, Command

-----------------------------------------------------------------------------
(* The step simulation.                                                    *)

\* At most one side takes writes, and it has everything.
LEMMA OneWrites ==
  ASSUME Shared, PairInv, SwitchoverKept, CopiesKept
  PROVE  /\ Writes(Primary) =>
              ~Writes(Standby) /\ node[Standby].data \subseteq node[Primary].data
         /\ Writes(Standby) => node[Primary].data \subseteq node[Standby].data
<1> USE PairFacts
<1>1. ASSUME Writes(Primary)
      PROVE  ~Writes(Standby) /\ node[Standby].data \subseteq node[Primary].data
  <2>1. node[Primary].fence # "on"
    BY <1>1 DEF Writes, TakesWrites
  <2>2. node[Standby].rec \/ cfg.journal = None
    BY <2>1 DEF PairInv, JournalKept, SwitchoverKept, CopiesKept
  <2> QED
    BY <2>2 DEF CopiesKept, Writes, TakesWrites
<1>2. ASSUME Writes(Standby)
      PROVE  node[Primary].data \subseteq node[Standby].data
  <2>1. ~node[Standby].rec /\ node[Standby].fence # "on" /\ Serving(Standby)
    BY <1>2 DEF Writes, TakesWrites
  <2> QED
    BY <2>1 DEF CopiesKept
<1> QED
  BY <1>1, <1>2

\* The sides that take writes, and what each holds, as OneWriter sees them.
W == {s \in Side : Writes(s)}
H == [s \in Side |-> node[s].data]

\* There is one writer at most, which holds everything; and it is the primary
\* when no failover is in flight.
OneServes ==
  /\ \/ W = {}
     \/ \E s \in Side : W = {s} /\ \A t \in Side : H[t] \subseteq H[s]
  /\ cfg.journal = None => W \subseteq {Primary}

LEMMA OneInW ==
  ASSUME Shared, PairInv, SwitchoverKept, CopiesKept
  PROVE  OneServes
<1> USE PairFacts
<1>1. CASE Writes(Primary)
  <2>1. W = {Primary} /\ \A t \in Side : H[t] \subseteq H[Primary]
    BY <1>1, OneWrites DEF W, H
  <2> QED
    BY <2>1 DEF OneServes
<1>2. CASE ~Writes(Primary) /\ Writes(Standby)
  <2>1. W = {Standby} /\ \A t \in Side : H[t] \subseteq H[Standby]
    BY <1>2, OneWrites DEF W, H
  <2>2. cfg.journal # None
    BY <1>2 DEF CopiesKept, Writes, TakesWrites
  <2> QED
    BY <2>1, <2>2 DEF OneServes
<1>3. CASE ~Writes(Primary) /\ ~Writes(Standby)
  BY <1>3 DEF W, OneServes
<1> QED
  BY <1>1, <1>2, <1>3

\* A step that leaves the data: the writer stays, stops, or starts alone.
LEMMA WriterStep ==
  ASSUME H' = H, OneServes', W # {} /\ W' # {} => W' = W
  PROVE  Abstract!Step
<1>1. CASE W' = {}
  BY <1>1 DEF Abstract!Step, Abstract!Next, Abstract!Stop, W, H
<1>2. CASE W' # {} /\ W # {}
  BY <1>2 DEF Abstract!Step, W, H
<1>3. CASE W' # {} /\ W = {}
  <2>1. PICK s \in Side : W' = {s} /\ \A t \in Side : H'[t] \subseteq H'[s]
    BY <1>3 DEF OneServes
  <2>2. Abstract!Serve(s)
    BY <1>3, <2>1 DEF Abstract!Serve, W, H
  <2> QED
    BY <2>2 DEF Abstract!Step, Abstract!Next
<1> QED
  BY <1>1, <1>2, <1>3

\* Whether a side takes writes is a matter of that side.
LEMMA WritesAlike ==
  ASSUME NEW s \in Side, node'[s] = node[s]
  PROVE  Writes(s)' <=> Writes(s)
BY DEF Writes, TakesWrites, Serving, Running

LEMMA StillSimulates ==
  ASSUME Shared, OneServes, OneServes', StillStep, cfg'.primary = cfg.primary
  PROVE  Abstract!Step
<1> USE PairFacts
<1>1. H' = H
  BY DEF H, StillStep, Still
<1>2. CASE OneSided
  <2>1. PICK s \in Side : \A t \in Side \ {s} : node'[t] = node[t]
    BY <1>2 DEF OneSided
  <2>2. \A t \in Side \ {s} : t \in W' <=> t \in W
    BY <2>1, WritesAlike DEF W
  <2>3. W # {} /\ W' # {} => W' = W
    <3>1. /\ W = {} \/ \E t \in Side : W = {t}
          /\ W' = {} \/ \E t \in Side : W' = {t}
      BY DEF OneServes
    <3> QED
      BY <2>2, <3>1
  <2> QED
    BY <1>1, <2>3, WriterStep
<1>3. CASE cfg.journal = None /\ cfg' = cfg
  <2>1. W \subseteq {Primary} /\ W' \subseteq {Primary}
    BY <1>3, SameRoles DEF OneServes
  <2> QED
    BY <1>1, <2>1, WriterStep
<1> QED
  BY <1>2, <1>3 DEF StillStep

LEMMA CommitSimulates ==
  ASSUME Shared, OneServes, NEW s \in Side, NEW w \in Write, Commit(s, w)
  PROVE  Abstract!Step
<1> DEFINE n == [node[s] EXCEPT !.data = @ \cup {w}]
<1>1. node'[s] = n /\ \A t \in Side \ {s} : node'[t] = node[t]
  BY SetOne DEF Commit
<1>2. node[s] \in Node
  BY SharedFacts
<1>3. /\ n.net = node[s].net /\ n.db = node[s].db /\ n.rec = node[s].rec
      /\ n.fence = node[s].fence /\ n.app = node[s].app /\ n.addon = node[s].addon
      /\ n.retired = node[s].retired /\ n.data = node[s].data \cup {w}
  BY <1>2 DEF Node
<1>4. \A t \in Side : w \notin node[t].data
  BY Sides DEF Commit
<1>5. s \in W
  BY DEF Commit, W
<1> HIDE DEF n
<1>6. Writes(s)' <=> Writes(s)
  BY <1>1, <1>3 DEF Writes, TakesWrites, Serving, Running
<1>7. W' = W
  BY <1>1, <1>6, WritesAlike DEF W
<1>8. W = {s}
  BY <1>5 DEF OneServes
<1>9. H' = [H EXCEPT ![s] = @ \cup {w}]
  BY <1>1, <1>3 DEF H
<1>10. \A t \in Side : w \notin H[t]
  BY <1>4 DEF H
<1>11. Abstract!Commit(s, w)
  BY <1>7, <1>8, <1>9, <1>10 DEF Abstract!Commit, W, H
<1> QED
  BY <1>11 DEF Abstract!Step, Abstract!Next

\* The standby catches up, or is rebuilt from the primary.
LEMMA CopySimulates ==
  ASSUME Shared, OneServes, node'[Primary] = node[Primary],
         node'[Standby].rec, node'[Standby].data = node[Primary].data,
         node[Standby].data \subseteq node[Primary].data,
         node[Standby].rec \/ cfg.journal = None
  PROVE  Abstract!Step
<1> USE PairFacts
<1>1. Standby \notin W
  BY DEF OneServes, W, Writes, TakesWrites
<1>2. ~Writes(Standby)
  BY <1>1 DEF W
<1> SUFFICES ASSUME NEW p \in Side, NEW s \in Side, p = Primary, s = Standby
             PROVE  Abstract!Step
  OBVIOUS
<1>3. ~Writes(s)' /\ (Writes(p)' <=> Writes(p)) /\ ~Writes(s)
  BY <1>2, WritesAlike DEF Writes, TakesWrites
<1>4. W' = W
  BY <1>3 DEF W
<1>5. H' = [H EXCEPT ![s] = H[p]] /\ H[s] \subseteq H[p] /\ W # {s}
  BY <1>1 DEF H
<1>6. Abstract!Copy(p, s)
  BY <1>4, <1>5 DEF Abstract!Copy, W, H
<1> QED
  BY <1>6 DEF Abstract!Step, Abstract!Next

LEMMA StepSimulates ==
  ASSUME Shared, PromoteOwned, PairInv, SwitchoverKept, CopiesKept,
         OneServes, OneServes', CopyStep
  PROVE  Abstract!Step
<1> USE PairFacts
<1>1. CASE node' = node
  <2>1. H' = H /\ W' = W
    BY <1>1, WritesAlike DEF H, W
  <2> QED
    BY <2>1, WriterStep
<1>2. CASE StillStep /\ cfg'.primary = cfg.primary
  BY <1>2, StillSimulates
<1>3. CASE ReseedStep
  <2>1. /\ node'[Primary] = node[Primary]
        /\ node'[Standby] = Reseeded(node[Standby], node[Primary])
        /\ node[Standby].rec \/ cfg.journal = None
    BY <1>3, SetOne DEF ReseedStep
  <2>2. node'[Standby].rec /\ node'[Standby].data = node[Primary].data
    BY <2>1, ReseedUpdates
  <2>3. node[Standby].data \subseteq node[Primary].data
    BY <2>1 DEF CopiesKept
  <2> QED
    BY <2>1, <2>2, <2>3, CopySimulates
<1>4. CASE \E s \in Side, w \in Write : Commit(s, w)
  BY <1>4, CommitSimulates
<1>5. CASE Replicate(Standby) /\ Other(Standby) = Primary
  <2>1. node'[Primary] = node[Primary] /\ node[Standby].rec
    BY <1>5, SetOne DEF Replicate
  <2>2. node'[Standby] = [node[Standby] EXCEPT !.data = node[Primary].data,
                                               !.tl = node[Primary].tl]
    BY <1>5, SetOne DEF Replicate
  <2>3. node'[Standby].rec /\ node'[Standby].data = node[Primary].data
    BY <2>1, <2>2 DEF Node
  <2>4. node[Standby].data \subseteq node[Primary].data
    BY <2>1 DEF CopiesKept
  <2> QED
    BY <2>1, <2>3, <2>4, CopySimulates
<1>6. CASE \E s \in Side : PromoteLands(s)
  <2>1. PICK s \in Side : PromoteLands(s)
    BY <1>6
  <2>2. /\ s = Standby /\ node[Primary].fence = "on" /\ node'[Primary] = node[Primary]
        /\ node'[Standby].data = node[Standby].data
    BY <2>1, CopiesPromote
  <2>3. node[Standby].rec
    BY <2>1, <2>2 DEF PromoteLands, PromoteOwned
  <2>4. W = {}
    BY <2>2, <2>3 DEF W, Writes, TakesWrites
  <2>5. H' = H
    BY <2>2 DEF H
  <2> QED
    BY <2>4, <2>5, WriterStep
<1> QED
  BY <1>1, <1>2, <1>3, <1>4, <1>5, <1>6 DEF CopyStep

LEMMA InitSwitches == Init => SwitchoverKept /\ CopiesKept /\ Abstract!Init
<1> SUFFICES ASSUME Init PROVE SwitchoverKept /\ CopiesKept /\ Abstract!Init
  OBVIOUS
<1>1. Shared
  BY InitTypes, TypeOKParts
<1> USE PairFacts
<1>2. pc = "idle"
  BY DEF Init, InitPair
<1>3. PICK p \in Side, i \in Id, seeded \in BOOLEAN, j \in Id :
        /\ node = [s \in Side |-> IF s = p THEN Deployed(i) ELSE PilotLight(j, seeded)]
        /\ cfg.primary = p /\ cfg.journal = None
  BY DEF Init, InitPair
<1>4. node[Primary] = Deployed(i) /\ node[Standby] = PilotLight(j, seeded)
  BY <1>1, <1>3 DEF Primary
<1>5. LET n == node[Primary]
      IN /\ n.net = "up" /\ n.db = "run" /\ ~n.rec /\ ~n.retired /\ n.fence = "off"
         /\ n.app = "up" /\ n.data = {}
  BY <1>4 DEF Deployed
<1>6. LET m == node[Standby]
      IN /\ m.net = "up" /\ m.db = "run" /\ m.app = "zero" /\ ~m.addon /\ m.data = {}
  BY <1>4 DEF PilotLight, Deployed
<1>7. SwitchoverKept
  BY <1>2, <1>3, PcsApart DEF SwitchoverKept, Settling
<1>8. ~Serving(Standby)
  BY <1>6 DEF Serving
<1>9. CopiesKept
  BY <1>1, <1>3, <1>5, <1>6, <1>8 DEF CopiesKept
<1>10. Writes(Primary) /\ ~Writes(Standby)
  BY <1>5, <1>8 DEF Writes, TakesWrites, Running, Serving
<1>11. W = {Primary}
  BY <1>1, <1>10 DEF W
<1>12. H = [s \in Side |-> {}]
  BY <1>1, <1>5, <1>6 DEF H
<1> QED
  BY <1>1, <1>7, <1>9, <1>11, <1>12 DEF Abstract!Init, W, H

\* A switchover that went on without the copy stays on the record.
LEMMA BehindStays ==
  ASSUME TypeOK, [Next]_vars, used.behind
  PROVE  used'.behind
<1>1. used \in UsedType
  BY DEF TypeOK, UsedType
<1>2. /\ used' = used => used'.behind
      /\ Spent => used'.behind
      /\ \A b : Succeeded(b) => used'.behind
      /\ \A b : Failed(b) => used'.behind
      /\ \A c : Saved(c) => used'.behind
      /\ SaveFailed => used'.behind
  BY <1>1 DEF UsedType, Spent, Succeeded, Failed, Saved, SaveFailed
<1>3. /\ \A first : Starts(first) => used'.behind
      /\ Crash => used'.behind
      /\ SkipMidProbe => used'.behind
  BY <1>1 DEF UsedType, Starts, Crash, SkipMidProbe
<1>4. /\ \A b : PrimaryReady(b) => used'.behind
      /\ \A s : Retire(s) => used'.behind
      /\ \A s : Scale(s, ScaledUp) \/ Scale(s, ScaledDown) => used'.behind
  BY <1>2 DEF PrimaryReady, Retire, Scale
<1>5. CASE World /\ UNCHANGED locals
  BY <1>2, <1>5 DEF World, Commit, Replicate, LinkUp, LinkDown, Drain, PromoteLands, Die,
                    Cut, Return
<1>6. CASE Operator
  BY <1>2, <1>3, <1>4, <1>6 DEF Operator, FailoverStart, AbortStart, DeployStart, Reconcile
<1>7. CASE FailoverStep
  BY <1>2, <1>3, <1>4, <1>7
  DEF FailoverStep, ProbePrimary, LiftStranded, Check, Quiesce, Drained, Mark, Fence,
      Terminate, Capture, Replayed, SkipReseed, ProbeSource, Reseed, AssertUnfenced, Arm,
      Disarm, WriteJournal, ReadBeforePromote, IssuePromote, Poll, Unfence, RestartApp,
      ClearJournal, Demote, ScaleUpPromoted, ScaleDownOld, StartAddons, FlipDns,
      SwapHaRoles, RetireOld
<1>8. CASE AbortStep
  BY <1>2, <1>4, <1>8
  DEF AbortStep, ReadStandbyLineage, StopStandbyDb, DisarmStandby, RepointDns,
      UnfencePrimary, ArmPrimary, StartPrimaryWriters, RecordAbort
<1>9. CASE DeployStep
  BY <1>2, <1>4, <1>9
  DEF DeployStep, LiftAtEntry, Refence, ConvergeClusters, ProbeStreaming, GuardReseed,
      StageAndSwap, VerifyStreaming, ForgetDiscarded, GateStreaming, AwaitDns,
      ClearRetired, AssertWritable, FinalSave
<1>10. CASE UNCHANGED vars
  BY <1>2, <1>10 DEF vars
<1> QED
  BY <1>3, <1>5, <1>6, <1>7, <1>8, <1>9, <1>10 DEF Next, Command

\* Planned failovers and deploys, failed, crashed and rerun at any step, are
\* switchovers of one writer (failover.js: RPO 0, no split brain): at most one
\* side takes writes, it starts with every transaction ever committed, and no
\* copy loses one, as long as no cluster is lost, a ready primary is never read
\* as not ready, nobody calls a failover off, and none went on mid-probe with a
\* standby that lacks transactions (failover.js:409, "promoting standby with
\* current state"): from that step on nothing is claimed.
THEOREM SwitchoversKeepOneWriter == ASSUME NoOutage PROVE Spec => SwitchoverIsOneWriter
<1> DEFINE Inv == TypeOK /\ PromoteOwned /\ PairInv
           KeptThen == SwitchoverKept /\ CopiesKept
           Behind == used.behind
           Simulated == Behind' \/ [Abstract!Next]_<<W, H>>
<1>1. Init => KeptThen /\ Abstract!Init
  BY InitSwitches
<1>2. Inv /\ [Next]_vars /\ Behind => Behind'
  BY BehindStays
<1>3. Inv /\ KeptThen /\ [Next]_vars /\ ~Behind' => KeptThen' /\ CopyStep
  BY NextSwitches, NextCopies
<1>4. Inv /\ KeptThen => OneServes
  BY OneInW, TypeOKParts
<1>5. Inv /\ KeptThen /\ OneServes /\ OneServes' /\ CopyStep => [Abstract!Next]_<<W, H>>
  BY StepSimulates, TypeOKParts DEF Abstract!Step, W, H
<1>6. Simulated => used'.behind \/ Abstract!Step
  BY DEF Abstract!Step, W, H
<1> HIDE DEF Inv, KeptThen, Behind
<1>7. Inv /\ (Behind \/ KeptThen) /\ Inv' /\ [Next]_vars => (Behind' \/ KeptThen')
  BY <1>2, <1>3
<1>8. Spec => []Inv
  BY PairInvariant DEF Inv
<1>9. Spec => [](Behind \/ KeptThen)
  BY <1>1, <1>7, <1>8, PTL DEF Spec
<1>10. Inv /\ (Behind \/ KeptThen) /\ OneServes' /\ [Next]_vars /\ KeptThen' => Simulated
  BY <1>2, <1>3, <1>4, <1>5
<1>11. Spec => [][Simulated]_vars
  BY <1>4, <1>8, <1>9, <1>10, PTL DEF Spec
<1> QED
  BY <1>1, <1>6, <1>11, PTL DEF Spec, SwitchoverIsOneWriter
=============================================================================
