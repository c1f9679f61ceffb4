------------------------- MODULE NodeSupervisorProofs -------------------------
(***************************************************************************)
(* Theorems about NodeSupervisor, for any plugins, versions, requests,     *)
(* faults and edits.                                                       *)
(***************************************************************************)
EXTENDS NodeSupervisor, FiniteSetTheorems, TLAPS

-----------------------------------------------------------------------------
(* The inductive invariant *)

FileMap == [SavedFile -> Slot]
Archive == {m \in FileMap : m["managed"] = {}}
Op == {"apply", "rollback", "create", "restore", "write"}

\* The stages an operation goes through; each may end in "done" or "failed".
Stages == [apply |-> {"fetch", "backup", "add", "manage", "validate", "undo"},
           rollback |-> {"guard", "restore", "check", "unguard"},
           create |-> {"store", "index"},
           restore |-> {"store", "index", "open", "swap", "place", "unswap"},
           write |-> {"write"}]

\* What a page may ask: the target of a request is in the history or the index.
Fields == {"mut", "op", "plugin", "to", "target", "type", "expect"}
Asked(r) ==
  /\ DOMAIN r = Fields /\ r.mut \in 1 .. requests /\ r.op \in Op
  /\ r.op = "apply" => r.plugin \in Plugins /\ r.to \in Version \ {0}
  /\ r.op = "rollback" => r.target \in DOMAIN changes
  /\ r.op = "create" => r.type \in DOMAIN Scope
  /\ r.op = "restore" => r.target \in DOMAIN rows
  /\ r.op = "write" => r.to \in Version

Job(r) == [req : {r}, at : Stages[r.op] \cup {"done", "failed"}, n : 0 .. Len(Order),
           got : Archive, base : FileMap, aside : FileMap, placed : SUBSET Scope.fleet,
           own : BOOLEAN, quiet : BOOLEAN]

ChangeSet == [mut : 1 .. MaxRequests, plugin : Plugins, to : Version \ {0},
              before : [DependencyFile -> Slot], after : SUBSET [DependencyFile -> Slot],
              status : Status]
RowSet == [mut : Nat \X {"manual", "pre-restore"}, type : DOMAIN Scope, files : Archive]

DiskTyped == disk \in [SavedFile \cup {"modules"} -> Slot]
CountersTyped ==
  requests \in 0 .. MaxRequests /\ faults \in 0 .. MaxFaults /\ edits \in 0 .. MaxEdits
OwedTyped == \A r \in owed : Asked(r)
JobTyped == job = {} \/ \E r \in owed : \E j \in Job(r) : job = {j}
HistoryTyped ==
  /\ changes \in Seq(ChangeSet)
  /\ kept \in [1 .. MaxRequests -> FileMap] /\ guard \in FileMap
  /\ artifacts \in [Plugins \X Version -> {"absent", "torn", "whole"}]
SnapshotsTyped == rows \in Seq(RowSet) /\ archives \subseteq FileMap

Typed == DiskTyped /\ CountersTyped /\ OwedTyped /\ JobTyped /\ HistoryTyped /\ SnapshotsTyped

\* A change has its whole backup, and is the only one of its request.
ChangesKept == \A i \in DOMAIN changes : LockHash(kept[i]) = changes[i].before
ChangesApart ==
  /\ \A i \in DOMAIN changes : changes[i].mut <= requests
  /\ \A i, k \in DOMAIN changes : changes[i].mut = changes[k].mut => i = k
RowsStored == \A i \in DOMAIN rows : rows[i].files \in archives

\* The first n files are as they are in another place.
Same(d, e, n) == \A k \in 1 .. n : d[Order[k]] = e[Order[k]]

\* What an update has done, step by step.
ApplyOK(j) ==
  /\ j.at \in {"fetch", "backup"} => Prior(j.req) = {} /\ LockHash(disk) = j.req.expect
  /\ j.at = "backup" => Same(kept[Current + 1], disk, j.n)
  /\ j.at \in {"add", "manage", "validate", "undo"} =>
       /\ changes # <<>>
       /\ changes[Current].plugin = j.req.plugin /\ changes[Current].to = j.req.to
  /\ j.at = "add" => kept[Current] = Saved(disk)
  /\ j.at = "validate" => Names(disk["managed"], j.req.plugin) = j.req.to
  /\ j.at = "undo" => Same(disk, kept[Current], j.n)

\* What a rollback has put back.
RollbackOK(j) ==
  /\ j.at = "restore" => Same(disk, kept[j.req.target], j.n)
  /\ j.at = "check" => /\ Same(disk, kept[j.req.target], Len(Order))
                       /\ disk["modules"] = disk["lock"]

\* A snapshot holds what is on disk, and its index row is written after it.
Holds(files, type, d) == \A f \in Scope[type] : files[f] = d[f]
Guarded(j, d) ==
  \E i \in DOMAIN rows :
    /\ rows[i].mut = Protection(j.req)
    /\ j.own /\ j.quiet => Holds(rows[i].files, rows[i].type, d)
SnapshotOK(j) ==
  /\ j.at \in {"store", "index"} /\ j.quiet => Holds(j.got, TypeOf(j.req), disk)
  /\ j.at = "index" => j.got \in archives
  /\ j.req.op = "restore" =>
       /\ j.at = "open" => Guarded(j, disk)
       /\ j.at \in {"swap", "place"} => Guarded(j, j.base)

\* A restoration that nobody disturbs: what is in place, what is aside, what is
\* as it was.
Replaced(j, f) == IF f \in j.placed THEN j.got[f] ELSE j.base[f]
SwapOK(j) ==
  /\ j.at \in {"store", "index", "open"} => j.base = Nothing /\ j.aside = Nothing /\ j.placed = {}
  /\ j.at \in {"swap", "place", "unswap"} =>
       \A f \in j.placed : j.got[f] # {} /\ (j.quiet => j.aside[f] = j.base[f])
  /\ j.at = "swap" => \A f \in SavedFile \ j.placed : j.aside[f] = {}
  /\ j.at = "place" =>
       /\ Entries(j) # {}
       /\ j.quiet => j.aside[Entry(j)] = j.base[Entry(j)] /\ disk[Entry(j)] = {}
       /\ \A f \in SavedFile \ j.placed : f # Entry(j) => j.aside[f] = {}
  /\ j.at \in {"swap", "unswap"} /\ j.quiet => \A f \in SavedFile : disk[f] = Replaced(j, f)
  /\ j.at = "place" /\ j.quiet => \A f \in SavedFile \ {Entry(j)} : disk[f] = Replaced(j, f)

\* What AllOrNothing says of one operation.
Ended(j) ==
  j.at = "failed" /\ j.req.op = "restore" /\ j.base # Nothing /\ j.quiet =>
    \/ \A f \in SavedFile : disk[f] = j.base[f]
    \/ \A f \in SavedFile : disk[f] = IF j.got[f] # {} THEN j.got[f] ELSE j.base[f]

JobOK(j) ==
  /\ j.req.op = "apply" => ApplyOK(j)
  /\ j.req.op = "rollback" => RollbackOK(j)
  /\ j.req.op \in {"create", "restore"} => SnapshotOK(j)
  /\ j.req.op = "restore" => SwapOK(j) /\ Ended(j)

IInv ==
  /\ Typed /\ ChangesKept /\ ChangesApart /\ RowsStored
  /\ \A j \in job : JobOK(j)

-----------------------------------------------------------------------------
(* Files, slots and versions *)

LEMMA Names4 ==
  /\ SavedFile = {"manifest", "lock", "cordis", "managed"} /\ Len(Order) = 4
  /\ Order[1] = "manifest" /\ Order[2] = "lock" /\ Order[3] = "cordis" /\ Order[4] = "managed"
  /\ Scope.fleet = {"manifest", "lock", "cordis"}
  /\ DOMAIN Scope = {"configuration", "dependency", "fleet"}
  /\ \A t \in DOMAIN Scope : Scope[t] \subseteq Scope.fleet
BY DEF SavedFile, DependencyFile, ProfileFile, Order, Scope

LEMMA OrderFacts ==
  /\ \A k \in 1 .. 4 : Order[k] \in SavedFile
  /\ \A k, n \in 1 .. 4 : Order[k] = Order[n] => k = n
  /\ \A f \in SavedFile : \E k \in 1 .. 4 : Order[k] = f
<1>1. \A k \in 1 .. 4 : k = 1 \/ k = 2 \/ k = 3 \/ k = 4 OBVIOUS
<1>2. \A k \in 1 .. 4 : Order[k] \in SavedFile BY <1>1, Names4
<1>3. \A k, n \in 1 .. 4 : Order[k] = Order[n] => k = n BY <1>1, Names4
<1>4. \A f \in SavedFile : \E k \in 1 .. 4 : Order[k] = f
  <2>1. 1 \in 1 .. 4 /\ 2 \in 1 .. 4 /\ 3 \in 1 .. 4 /\ 4 \in 1 .. 4 OBVIOUS
  <2> QED BY <2>1, Names4
<1> QED BY <1>2, <1>3, <1>4

LEMMA Bounds ==
  /\ MaxRequests \in Nat /\ MaxFaults \in Nat /\ MaxEdits \in Nat
  /\ 0 \in Version /\ 1 \in Version
BY ProfileAssumption DEF ProfileAssumption, Version

LEMMA NamesOf ==
  ASSUME NEW c, NEW p PROVE Names({c}, p) = c[p]
BY DEF Names

LEMMA NamesTyped ==
  ASSUME NEW s \in Slot, NEW p \in Plugins PROVE Names(s, p) \in Version
<1>1. CASE s = {} BY <1>1, Bounds DEF Names
<1>2. ASSUME NEW c \in Content, s = {c} PROVE Names(s, p) \in Version
  BY <1>2, NamesOf DEF Content
<1> QED BY <1>1, <1>2 DEF Slot

\* A slot with one entry replaced.
LEMMA WithFacts ==
  ASSUME NEW s \in Slot, NEW r, r.to \in Version
  PROVE  /\ With(s, r) \in Slot
         /\ r.plugin \in Plugins => Names(With(s, r), r.plugin) = r.to
<1> DEFINE c == [p \in Plugins |-> IF p = r.plugin THEN r.to ELSE Names(s, p)]
<1>1. c \in Content BY NamesTyped DEF Content
<1>2. With(s, r) = {c} BY DEF With
<1>3. r.plugin \in Plugins => c[r.plugin] = r.to OBVIOUS
<1> HIDE DEF c
<1> QED BY <1>1, <1>2, <1>3, NamesOf DEF Slot

LEMMA CompositionTyped == \A v \in Version : Composition(v) \in Slot
BY DEF Composition, Slot, Content

LEMMA NothingTyped ==
  Nothing \in FileMap /\ Nothing \in Archive /\ \A f \in SavedFile : Nothing[f] = {}
BY Names4 DEF Nothing, FileMap, Archive, Slot

\* Part of the files on disk.
LEMMA Readings ==
  ASSUME DiskTyped
  PROVE  /\ Saved(disk) \in FileMap /\ \A f \in SavedFile : Saved(disk)[f] = disk[f]
         /\ LockHash(disk) \in [DependencyFile -> Slot]
         /\ \A t \in DOMAIN Scope : Collected(t) \in Archive /\ Holds(Collected(t), t, disk)
<1>1. Saved(disk) \in FileMap /\ \A f \in SavedFile : Saved(disk)[f] = disk[f]
  BY DEF DiskTyped, Saved, FileMap
<1>2. LockHash(disk) \in [DependencyFile -> Slot]
  BY DEF DiskTyped, LockHash, SavedFile
<1>3. ASSUME NEW t \in DOMAIN Scope PROVE Collected(t) \in Archive /\ Holds(Collected(t), t, disk)
  <2>1. {} \in Slot BY DEF Slot
  <2>2. Scope[t] \subseteq SavedFile /\ "managed" \notin Scope[t] /\ "managed" \in SavedFile
    BY Names4
  <2>3. Collected(t) \in FileMap /\ Holds(Collected(t), t, disk)
    BY <2>1, <2>2 DEF DiskTyped, Collected, FileMap, Holds
  <2>4. Collected(t)["managed"] = {} BY <2>2 DEF Collected
  <2> QED BY <2>3, <2>4 DEF Archive
<1> QED BY <1>1, <1>2, <1>3

\* Replacing one file on disk.
LEMMA Replacing ==
  ASSUME DiskTyped, NEW f \in SavedFile, NEW s \in Slot, disk' = [disk EXCEPT ![f] = s]
  PROVE  DiskTyped' /\ disk'[f] = s
         /\ \A g \in SavedFile \cup {"modules"} : g # f => disk'[g] = disk[g]
BY DEF DiskTyped

\* The loops over the saved files advance by one.
LEMMA OneMoreSame ==
  ASSUME NEW d, NEW e, NEW d2, NEW e2, NEW n \in 0 .. 3, Same(d, e, n),
         d2[Order[n + 1]] = e2[Order[n + 1]],
         \A f \in SavedFile : f # Order[n + 1] => d2[f] = d[f] /\ e2[f] = e[f]
  PROVE  Same(d2, e2, n + 1)
<1> SUFFICES ASSUME NEW k \in 1 .. n + 1 PROVE d2[Order[k]] = e2[Order[k]] BY DEF Same
<1>1. CASE k = n + 1 BY <1>1
<1>2. CASE k \in 1 .. n
  <2>1. k \in 1 .. 4 /\ n + 1 \in 1 .. 4 /\ k # n + 1 BY <1>2
  <2>2. Order[k] \in SavedFile /\ Order[k] # Order[n + 1] BY <2>1, OrderFacts
  <2> QED BY <1>2, <2>2 DEF Same
<1> QED BY <1>1, <1>2

LEMMA AllSame ==
  ASSUME NEW d, NEW e, Same(d, e, 4) PROVE \A f \in SavedFile : d[f] = e[f]
BY OrderFacts DEF Same

-----------------------------------------------------------------------------
(* The operation *)

LEMMA JobFacts ==
  ASSUME JobTyped, NEW j \in job PROVE job = {j} /\ j.req \in owed /\ j \in Job(j.req)
<1>1. PICK r \in owed : \E k \in Job(r) : job = {k} BY DEF JobTyped
<1>2. PICK k \in Job(r) : job = {k} BY <1>1
<1>3. j = k /\ j.req = r BY <1>2 DEF Job
<1> QED BY <1>1, <1>2, <1>3

\* An operation that begins, goes to another stage, or to the next file.
AtStage(k, r, stage) == k \in Job(r) /\ k.req = r /\ k.at = stage
Carries(k, j) ==
  /\ k.got = j.got /\ k.base = j.base /\ k.aside = j.aside /\ k.placed = j.placed
  /\ k.own = j.own /\ k.quiet = j.quiet
Fresh(k) ==
  /\ k.got = Nothing /\ k.base = Nothing /\ k.aside = Nothing /\ k.placed = {}
  /\ k.own = FALSE /\ k.quiet = TRUE

LEMMA Begun ==
  ASSUME NEW r, NEW stage \in Stages[r.op] \cup {"done", "failed"}
  PROVE  \E k : k = Running(r, stage) /\ AtStage(k, r, stage) /\ k.n = 0 /\ Fresh(k)
<1> DEFINE k == Running(r, stage)
<1>1. 0 \in 0 .. Len(Order) BY Names4
<1>2. k \in Job(r) BY <1>1, NothingTyped DEF Job, Running
<1>3. k.req = r /\ k.at = stage /\ k.n = 0 BY DEF Running
<1>4. Fresh(k) BY DEF Running, Fresh
<1> QED BY <1>2, <1>3, <1>4 DEF AtStage

LEMMA Moved ==
  ASSUME NEW r, NEW j \in Job(r), NEW stage \in Stages[r.op] \cup {"done", "failed"}
  PROVE  \E k : k = [j EXCEPT !.at = stage, !.n = 0] /\ AtStage(k, r, stage) /\ k.n = 0
                /\ Carries(k, j)
<1> DEFINE k == [j EXCEPT !.at = stage, !.n = 0]
<1>1. 0 \in 0 .. Len(Order) BY Names4
<1>2. k \in Job(r) BY <1>1 DEF Job
<1>3. k.req = r /\ k.at = stage /\ k.n = 0 BY DEF Job
<1>4. Carries(k, j) BY DEF Job, Carries
<1> QED BY <1>2, <1>3, <1>4 DEF AtStage

LEMMA Counted ==
  ASSUME NEW r, NEW j \in Job(r), j.n < Len(Order)
  PROVE  \E k : k = [j EXCEPT !.n = @ + 1] /\ AtStage(k, r, j.at) /\ k.n = j.n + 1
                /\ Carries(k, j)
<1> DEFINE k == [j EXCEPT !.n = @ + 1]
<1>1. j.n + 1 \in 0 .. Len(Order) BY Names4 DEF Job
<1>2. k \in Job(r) BY <1>1 DEF Job
<1>3. k.req = r /\ k.at = j.at /\ k.n = j.n + 1 BY DEF Job
<1>4. Carries(k, j) BY DEF Job, Carries
<1> QED BY <1>2, <1>3, <1>4 DEF AtStage

\* The stage says which operation is being run.
LEMMA StageFacts ==
  ASSUME NEW r, r.op \in Op, NEW j \in Job(r)
  PROVE  /\ j.at \in {"fetch", "backup", "add", "manage", "validate", "undo"} => r.op = "apply"
         /\ j.at \in {"guard", "restore", "check", "unguard"} => r.op = "rollback"
         /\ j.at \in {"store", "index"} => r.op \in {"create", "restore"}
         /\ j.at \in {"open", "swap", "place", "unswap"} => r.op = "restore"
         /\ j.at = "write" => r.op = "write"
BY DEF Op, Job, Stages
-----------------------------------------------------------------------------
(* What the parts of the invariant need of a step *)

\* A target that was in the history or the index is there still.
LEMMA AskedStays ==
  ASSUME CountersTyped, requests' \in Nat, requests <= requests',
         DOMAIN changes \subseteq DOMAIN changes', DOMAIN rows \subseteq DOMAIN rows',
         NEW r, Asked(r)
  PROVE  Asked(r)'
BY Bounds DEF Asked, CountersTyped

LEMMA OwedStays ==
  ASSUME CountersTyped, OwedTyped, owed' \subseteq owed, requests' = requests,
         DOMAIN changes \subseteq DOMAIN changes', DOMAIN rows \subseteq DOMAIN rows'
  PROVE  OwedTyped'
<1>1. requests' \in Nat /\ requests <= requests' BY Bounds DEF CountersTyped
<1> QED BY <1>1, AskedStays DEF OwedTyped

LEMMA FaultCounts ==
  ASSUME CountersTyped, requests' = requests, edits' = edits, Fault \/ UNCHANGED faults
  PROVE  CountersTyped'
BY Bounds DEF CountersTyped, Fault

LEMMA ChangeAt ==
  ASSUME HistoryTyped, NEW i \in DOMAIN changes
  PROVE  /\ changes[i] \in ChangeSet /\ changes[i].mut \in Nat \ {0}
         /\ Len(changes) \in Nat /\ DOMAIN changes = 1 .. Len(changes)
<1>1. changes[i] \in ChangeSet /\ Len(changes) \in Nat /\ DOMAIN changes = 1 .. Len(changes)
  BY DEF HistoryTyped
<1>2. changes[i].mut \in 1 .. MaxRequests BY <1>1 DEF ChangeSet
<1> QED BY <1>1, <1>2, Bounds

\* One operation takes the place of another, or begins.
LEMMA JobBecomes ==
  ASSUME NEW k, job' = {k}, k.req \in owed', k \in Job(k.req), JobOK(k)'
  PROVE  JobTyped' /\ (\A j \in job : JobOK(j))'
<1>1. JobTyped' BY DEF JobTyped
<1>2. ASSUME NEW j \in job' PROVE JobOK(j)' BY <1>2
<1> QED BY <1>1, <1>2

LEMMA HistoryStays ==
  ASSUME HistoryTyped, ChangesKept, ChangesApart, UNCHANGED <<changes, kept, guard, artifacts>>,
         requests \in Nat, requests' \in Nat, requests <= requests'
  PROVE  HistoryTyped' /\ ChangesKept' /\ ChangesApart'
<1>1. HistoryTyped' BY DEF HistoryTyped
<1>2. ChangesKept' BY DEF ChangesKept
<1>3. \A i \in DOMAIN changes : changes[i].mut \in Nat
  BY ChangeAt
<1>4. ChangesApart' BY <1>3 DEF ChangesApart
<1> QED BY <1>1, <1>2, <1>4

LEMMA SnapshotsStay ==
  ASSUME SnapshotsTyped, RowsStored, UNCHANGED snapshots
  PROVE  SnapshotsTyped' /\ RowsStored'
BY DEF SnapshotsTyped, RowsStored, snapshots

\* Marking a change leaves everything else about it alone.
LEMMA Marked ==
  ASSUME HistoryTyped, NEW i \in DOMAIN changes, NEW st \in Status, NEW a,
         a \in SUBSET [DependencyFile -> Slot],
         changes' = [changes EXCEPT ![i].status = st, ![i].after = a]
           \/ changes' = [changes EXCEPT ![i].status = st]
  PROVE  /\ changes' \in Seq(ChangeSet) /\ Len(changes') = Len(changes)
         /\ DOMAIN changes' = DOMAIN changes
         /\ \A n \in DOMAIN changes :
              /\ changes'[n].mut = changes[n].mut /\ changes'[n].plugin = changes[n].plugin
              /\ changes'[n].to = changes[n].to /\ changes'[n].before = changes[n].before
              /\ changes'[n].status = IF n = i THEN st ELSE changes[n].status
<1>1. changes \in Seq(ChangeSet) /\ changes[i] \in ChangeSet BY DEF HistoryTyped
<1>2. CASE changes' = [changes EXCEPT ![i].status = st]
  <2> DEFINE c == [changes[i] EXCEPT !.status = st]
  <2>1. c \in ChangeSet /\ c.mut = changes[i].mut /\ c.plugin = changes[i].plugin
        /\ c.to = changes[i].to /\ c.before = changes[i].before /\ c.status = st
    BY <1>1 DEF ChangeSet
  <2>2. changes' = [changes EXCEPT ![i] = c] BY <1>2
  <2> HIDE DEF c
  <2> QED BY <1>1, <2>1, <2>2
<1>3. CASE changes' = [changes EXCEPT ![i].status = st, ![i].after = a]
  <2> DEFINE c == [changes[i] EXCEPT !.status = st, !.after = a]
  <2>1. c \in ChangeSet /\ c.mut = changes[i].mut /\ c.plugin = changes[i].plugin
        /\ c.to = changes[i].to /\ c.before = changes[i].before /\ c.status = st
    BY <1>1 DEF ChangeSet
  <2>2. changes' = [changes EXCEPT ![i] = c] BY <1>1, <1>3
  <2> HIDE DEF c
  <2> QED BY <1>1, <2>1, <2>2
<1> QED BY <1>2, <1>3

LEMMA MarkedKeeps ==
  ASSUME HistoryTyped, ChangesKept, ChangesApart, NEW i \in DOMAIN changes, DiskTyped,
         MarkApplied(i) \/ (\E st \in Status : Mark(i, st)),
         UNCHANGED <<kept, guard, artifacts, requests>>
  PROVE  /\ HistoryTyped' /\ ChangesKept' /\ ChangesApart'
         /\ Len(changes') = Len(changes) /\ DOMAIN changes' = DOMAIN changes
         /\ \A n \in DOMAIN changes :
              changes'[n].plugin = changes[n].plugin /\ changes'[n].to = changes[n].to
<1>1. "applied" \in Status /\ {LockHash(disk)} \in SUBSET [DependencyFile -> Slot]
  BY Readings DEF Status
<1>2. /\ changes' \in Seq(ChangeSet) /\ Len(changes') = Len(changes)
      /\ DOMAIN changes' = DOMAIN changes
      /\ \A n \in DOMAIN changes :
           /\ changes'[n].mut = changes[n].mut /\ changes'[n].plugin = changes[n].plugin
           /\ changes'[n].to = changes[n].to /\ changes'[n].before = changes[n].before
  <2>1. CASE MarkApplied(i) BY <1>1, <2>1, Marked DEF MarkApplied
  <2>2. ASSUME NEW st \in Status, Mark(i, st)
        PROVE  changes' = [changes EXCEPT ![i].status = st]
    BY <2>2 DEF Mark
  <2>3. CASE \E st \in Status : Mark(i, st) BY <1>1, <2>2, <2>3, Marked
  <2> QED BY <2>1, <2>3
<1>3. HistoryTyped' BY <1>2 DEF HistoryTyped
<1>4. ChangesKept' BY <1>2 DEF ChangesKept
<1>5. ChangesApart' BY <1>2 DEF ChangesApart
<1> QED BY <1>2, <1>3, <1>4, <1>5

\* A request has one change at most.
LEMMA OneChangeEach ==
  ASSUME HistoryTyped, ChangesApart, NEW T, IsFiniteSet(T),
         \A i \in DOMAIN changes : changes[i].mut \in T
  PROVE  Len(changes) <= Cardinality(T)
<1> DEFINE S == 1 .. Len(changes)
           f == [i \in S |-> changes[i].mut]
<1>1. Len(changes) \in Nat /\ DOMAIN changes = S BY DEF HistoryTyped
<1>2. f \in Injection(S, T)
  BY <1>1 DEF Injection, IsInjective, ChangesApart
<1>3. Cardinality(S) <= Cardinality(T) BY <1>2, FS_Injection
<1>4. \A n \in Nat : Cardinality(1 .. n) = n
  <2> TAKE n \in Nat
  <2>1. 1 \in Int /\ n \in Int OBVIOUS
  <2>2. Cardinality(1 .. n) = IF 1 > n THEN 0 ELSE n - 1 + 1 BY <2>1, FS_Interval
  <2> QED BY <2>2
<1>5. Cardinality(S) = Len(changes) BY <1>1, <1>4
<1> QED BY <1>3, <1>5

LEMMA UpTo ==
  ASSUME NEW n \in Nat PROVE IsFiniteSet(1 .. n) /\ Cardinality(1 .. n) = n
<1>1. 1 \in Int /\ n \in Int OBVIOUS
<1>2. IsFiniteSet(1 .. n) /\ Cardinality(1 .. n) = IF 1 > n THEN 0 ELSE n - 1 + 1
  BY <1>1, FS_Interval
<1> QED BY <1>2

\* Every change has its directory in transactions/, and there is room for one
\* more while a request has none.
LEMMA RoomInHistory ==
  ASSUME HistoryTyped, ChangesApart
  PROVE  /\ Len(changes) \in Nat /\ DOMAIN changes = 1 .. Len(changes)
         /\ Len(changes) <= MaxRequests /\ DOMAIN changes \subseteq 1 .. MaxRequests
<1>1. Len(changes) \in Nat /\ DOMAIN changes = 1 .. Len(changes) BY DEF HistoryTyped
<1>2. \A i \in DOMAIN changes : changes[i].mut \in 1 .. MaxRequests
  BY ChangeAt DEF ChangeSet
<1>3. IsFiniteSet(1 .. MaxRequests) /\ Cardinality(1 .. MaxRequests) = MaxRequests
  BY Bounds, UpTo
<1>4. Len(changes) <= MaxRequests BY <1>2, <1>3, OneChangeEach
<1> QED BY <1>1, <1>4, Bounds

LEMMA RoomForChange ==
  ASSUME CountersTyped, HistoryTyped, ChangesApart, NEW r \in owed, OwedTyped, Prior(r) = {}
  PROVE  Len(changes) + 1 \in 1 .. MaxRequests
<1> DEFINE T == (1 .. requests) \ {r.mut}
<1>1. Len(changes) \in Nat /\ requests \in Nat /\ requests <= MaxRequests
  BY Bounds DEF HistoryTyped, CountersTyped
<1>2. \A i \in DOMAIN changes : changes[i].mut \in T
  BY <1>1, ChangeAt DEF ChangesApart, Prior
<1>3. r.mut \in 1 .. requests BY DEF OwedTyped, Asked
<1>4. IsFiniteSet(T) /\ Cardinality(T) = requests - 1
  BY <1>1, <1>3, UpTo, FS_RemoveElement
<1>5. Len(changes) <= requests - 1
  <2> HIDE DEF T
  <2> QED BY <1>2, <1>4, OneChangeEach
<1> QED BY <1>1, <1>5, Bounds

-----------------------------------------------------------------------------
(* The steps of plugin changes *)

\* What is known of the operation at a stage.
LEMMA Operation ==
  ASSUME IInv, NEW stage, NEW j \in At(stage)
  PROVE  /\ job = {j} /\ j.at = stage /\ j.req \in owed /\ j \in Job(j.req)
         /\ Asked(j.req) /\ j.req.op \in Op /\ j.n \in 0 .. 4
         /\ stage \in {"fetch", "backup", "add", "manage", "validate", "undo"} =>
              j.req.op = "apply" /\ ApplyOK(j)
         /\ stage \in {"guard", "restore", "check", "unguard"} =>
              j.req.op = "rollback" /\ RollbackOK(j)
         /\ stage \in {"store", "index"} => j.req.op \in {"create", "restore"} /\ SnapshotOK(j)
         /\ stage \in {"open", "swap", "place", "unswap"} =>
              j.req.op = "restore" /\ SnapshotOK(j)
         /\ stage = "write" => j.req.op = "write"
         /\ j.req.op = "restore" => SwapOK(j)
<1>1. j \in job /\ j.at = stage BY DEF At
<1>2. job = {j} /\ j.req \in owed /\ j \in Job(j.req) BY <1>1, JobFacts DEF IInv, Typed
<1>3. Asked(j.req) /\ j.req.op \in Op BY <1>2 DEF IInv, Typed, OwedTyped, Asked
<1>4. j.n \in 0 .. 4 BY <1>2, Names4 DEF Job
<1>5. JobOK(j) BY <1>1 DEF IInv
<1> QED BY <1>1, <1>2, <1>3, <1>4, <1>5, StageFacts DEF JobOK

\* A step of an update or of a rollback.
LEMMA PluginKeeps ==
  ASSUME IInv, NEW k, job' = {k}, k.req \in owed, k \in Job(k.req),
         k.req.op \in {"apply", "rollback"},
         k.req.op = "apply" => ApplyOK(k)', k.req.op = "rollback" => RollbackOK(k)',
         UNCHANGED <<queue, edits, snapshots>>, Fault \/ UNCHANGED faults,
         DiskTyped', HistoryTyped', ChangesKept', ChangesApart',
         DOMAIN changes \subseteq DOMAIN changes'
  PROVE  IInv'
<1>1. /\ CountersTyped /\ OwedTyped /\ SnapshotsTyped /\ RowsStored
      /\ requests' = requests /\ owed' = owed /\ edits' = edits /\ rows' = rows
  BY DEF IInv, Typed, queue, snapshots
<1>2. CountersTyped' BY <1>1, FaultCounts
<1>3. OwedTyped' BY <1>1, OwedStays
<1>4. SnapshotsTyped' /\ RowsStored' BY <1>1, SnapshotsStay
<1>5. JobOK(k)' BY DEF JobOK
<1>6. JobTyped' /\ (\A j \in job : JobOK(j))' BY <1>1, <1>5, JobBecomes
<1> QED BY <1>2, <1>3, <1>4, <1>6 DEF IInv, Typed

\* One that leaves the history alone.
LEMMA PluginMoves ==
  ASSUME IInv, NEW k, job' = {k}, k.req \in owed, k \in Job(k.req),
         k.req.op \in {"apply", "rollback"},
         k.req.op = "apply" => ApplyOK(k)', k.req.op = "rollback" => RollbackOK(k)',
         UNCHANGED <<queue, edits, snapshots, plugins>>, Fault \/ UNCHANGED faults, DiskTyped'
  PROVE  IInv'
<1>1. /\ CountersTyped /\ HistoryTyped /\ ChangesKept /\ ChangesApart
      /\ requests' = requests /\ UNCHANGED <<changes, kept, guard, artifacts>>
  BY DEF IInv, Typed, queue, plugins
<1>2. requests \in Nat BY <1>1, Bounds DEF CountersTyped
<1>3. HistoryTyped' /\ ChangesKept' /\ ChangesApart' BY <1>1, <1>2, HistoryStays
<1> QED BY <1>1, <1>3, PluginKeeps

\* An operation that has ended.
LEMMA EndedOK ==
  ASSUME NEW k, k.at \in {"done", "failed"}
  PROVE  ApplyOK(k)' /\ RollbackOK(k)'
BY DEF ApplyOK, RollbackOK

LEMMA DiskStays ==
  ASSUME IInv, UNCHANGED disk PROVE DiskTyped /\ DiskTyped'
BY DEF IInv, Typed, DiskTyped

LEMMA StartApplyKeeps ==
  ASSUME IInv, NEW r \in owed, r.op = "apply", StartApply(r), UNCHANGED snapshots
  PROVE  IInv'
<1>1. PICK stage \in Stages[r.op] \cup {"done", "failed"} :
        /\ stage = IF LockHash(disk) = r.expect THEN "fetch" ELSE "failed"
        /\ job' = {Running(r, stage)}
  BY DEF StartApply, Stages
<1>2. PICK k : k = Running(r, stage) /\ AtStage(k, r, stage) /\ k.n = 0 /\ Fresh(k) BY Begun
<1>3. job' = {k} /\ k \in Job(r) /\ k.req = r /\ k.at = stage BY <1>1, <1>2 DEF AtStage
<1>4. UNCHANGED <<queue, edits, faults, plugins, disk>> BY DEF StartApply, profile
<1>5. ApplyOK(k)'
  BY <1>1, <1>3, <1>4 DEF ApplyOK, StartApply, Prior, plugins
<1>6. DiskTyped' BY <1>4, DiskStays
<1> QED BY <1>3, <1>4, <1>5, <1>6, PluginMoves

LEMMA RepeatApplyKeeps ==
  ASSUME IInv, NEW r \in owed, r.op = "apply", RepeatApply(r), UNCHANGED snapshots
  PROVE  IInv'
<1>1. PICK i \in Prior(r) : \E stage \in {"done", "failed"} :
         /\ MarkApplied(i) \/ UNCHANGED changes
         /\ job' = {Running(r, stage)}
  BY DEF RepeatApply
<1>2. PICK stage \in {"done", "failed"} : job' = {Running(r, stage)} BY <1>1
<1>3. stage \in Stages[r.op] \cup {"done", "failed"} OBVIOUS
<1>4. PICK k : k = Running(r, stage) /\ AtStage(k, r, stage) /\ k.n = 0 /\ Fresh(k)
  BY <1>3, Begun
<1>5. job' = {k} /\ k \in Job(r) /\ k.req = r /\ k.at \in {"done", "failed"}
  BY <1>2, <1>4 DEF AtStage
<1>6. UNCHANGED <<queue, edits, faults, kept, guard, artifacts, disk, requests>>
  BY DEF RepeatApply, profile, queue
<1>7. HistoryTyped /\ ChangesKept /\ ChangesApart /\ DiskTyped /\ DiskTyped' /\ requests \in Nat
  BY <1>6, DiskStays, Bounds DEF IInv, Typed, CountersTyped
<1>8. HistoryTyped' /\ ChangesKept' /\ ChangesApart' /\ DOMAIN changes' = DOMAIN changes
  <2>1. i \in DOMAIN changes BY DEF Prior
  <2>2. CASE MarkApplied(i) BY <1>6, <1>7, <2>1, <2>2, MarkedKeeps
  <2>3. CASE UNCHANGED changes BY <1>6, <1>7, <2>3, HistoryStays
  <2> QED BY <1>1, <2>2, <2>3
<1>9. ApplyOK(k)' /\ RollbackOK(k)' BY <1>5, EndedOK
<1> QED BY <1>5, <1>6, <1>7, <1>8, <1>9, PluginKeeps

\* An operation goes to another stage, or to the next file.
LEMMA GoesOn ==
  ASSUME IInv, NEW s, NEW j \in At(s), NEW stage \in Stages[j.req.op] \cup {"done", "failed"},
         Goes(j, stage)
  PROVE  \E k : /\ job' = {k} /\ k.req = j.req /\ k.req \in owed /\ k \in Job(k.req)
                /\ k.at = stage /\ k.n = 0 /\ Carries(k, j)
<1>1. j.req \in owed /\ j \in Job(j.req) BY Operation
<1>2. PICK k : k = [j EXCEPT !.at = stage, !.n = 0] /\ AtStage(k, j.req, stage) /\ k.n = 0
               /\ Carries(k, j)
  BY <1>1, Moved
<1>3. job' = {k} BY <1>2 DEF Goes
<1> QED BY <1>1, <1>2, <1>3 DEF AtStage

LEMMA CountsOn ==
  ASSUME IInv, NEW s, NEW j \in At(s), j.n < Len(Order), NextFile(j)
  PROVE  \E k : /\ job' = {k} /\ k.req = j.req /\ k.req \in owed /\ k \in Job(k.req)
                /\ k.at = s /\ k.n = j.n + 1 /\ Carries(k, j)
<1>1. j.req \in owed /\ j \in Job(j.req) /\ j.at = s BY Operation
<1>2. PICK k : k = [j EXCEPT !.n = @ + 1] /\ AtStage(k, j.req, j.at) /\ k.n = j.n + 1
               /\ Carries(k, j)
  BY <1>1, Counted
<1>3. job' = {k} BY <1>2 DEF NextFile
<1> QED BY <1>1, <1>2, <1>3 DEF AtStage

LEMMA History ==
  ASSUME IInv, UNCHANGED queue
  PROVE  /\ CountersTyped /\ OwedTyped /\ HistoryTyped /\ ChangesKept /\ ChangesApart
         /\ requests \in Nat /\ requests' = requests /\ owed' = owed
BY Bounds DEF IInv, Typed, CountersTyped, queue

LEMMA FetchArtifactKeeps ==
  ASSUME IInv, FetchArtifact, UNCHANGED snapshots PROVE IInv'
<1>1. PICK j \in At("fetch") :
        LET x == <<j.req.plugin, j.req.to>> IN
        \/ Throws(j) /\ UNCHANGED artifacts
        \/ Goes(j, "backup") /\ artifacts' = [artifacts EXCEPT ![x] = "whole"]
  BY DEF FetchArtifact
<1>2. UNCHANGED <<queue, edits, faults, changes, kept, guard, disk>> BY DEF FetchArtifact, profile
<1>3. /\ Asked(j.req) /\ j.req.op = "apply" /\ ApplyOK(j) /\ j.at = "fetch"
      /\ {"backup"} \subseteq Stages[j.req.op]
  BY Operation DEF Stages
<1>4. PICK stage \in {"failed", "backup"} : Goes(j, stage) BY <1>1 DEF Throws
<1>5. stage \in Stages[j.req.op] \cup {"done", "failed"} BY <1>3, <1>4
<1>6. PICK k : /\ job' = {k} /\ k.req = j.req /\ k.req \in owed /\ k \in Job(k.req)
               /\ k.at = stage /\ k.n = 0 /\ Carries(k, j)
  BY <1>4, <1>5, GoesOn
<1>7. DiskTyped /\ DiskTyped' BY <1>2, DiskStays
<1>8. HistoryTyped' /\ ChangesKept' /\ ChangesApart'
  <2>1. HistoryTyped /\ ChangesKept /\ ChangesApart /\ requests' = requests BY <1>2, History
  <2>2. j.req.to \in Version /\ j.req.plugin \in Plugins BY <1>3 DEF Asked
  <2>3. artifacts' \in [Plugins \X Version -> {"absent", "torn", "whole"}]
    BY <1>1, <2>1, <2>2 DEF HistoryTyped
  <2>4. HistoryTyped' BY <1>2, <2>1, <2>3 DEF HistoryTyped
  <2>5. ChangesKept' BY <1>2, <2>1 DEF ChangesKept
  <2>6. ChangesApart' BY <1>2, <2>1 DEF ChangesApart
  <2> QED BY <2>4, <2>5, <2>6
<1>9. ApplyOK(k)'
  <2>1. CASE stage = "failed" BY <1>6, <2>1, EndedOK
  <2>2. CASE stage = "backup"
    <3>1. Prior(j.req) = {} /\ LockHash(disk) = j.req.expect BY <1>3 DEF ApplyOK
    <3>2. Same(kept'[Current' + 1], disk', k.n) BY <1>6 DEF Same
    <3> QED BY <1>2, <1>6, <2>2, <3>1, <3>2 DEF ApplyOK, Prior
  <2> QED BY <2>1, <2>2
<1> QED BY <1>2, <1>3, <1>6, <1>7, <1>8, <1>9, PluginKeeps

\* A backup takes one file more from the disk.
LEMMA SavingFacts ==
  ASSUME DiskTyped, NEW old \in FileMap, NEW j, j.n \in 0 .. 3, j.n = 0 \/ Same(old, disk, j.n)
  PROVE  Saving(old, j) \in FileMap /\ Same(Saving(old, j), disk, j.n + 1)
<1> DEFINE new == Saving(old, j)
<1>1. {} \in Slot BY DEF Slot
<1>2. new \in FileMap BY <1>1 DEF DiskTyped, FileMap, Saving
<1>3. /\ Order[j.n + 1] \in SavedFile
      /\ \A f \in SavedFile : new[f] = IF f = Order[j.n + 1] THEN disk[f]
                                       ELSE IF j.n = 0 THEN {} ELSE old[f]
  <2>1. j.n + 1 \in 1 .. 4 OBVIOUS
  <2> QED BY <2>1, OrderFacts DEF Saving
<1>4. CASE j.n = 0
  <2>1. Same(new, disk, 0) BY DEF Same
  <2>2. new[Order[j.n + 1]] = disk[Order[j.n + 1]] BY <1>3
  <2>3. 0 \in 0 .. 3 /\ j.n + 1 = 0 + 1 /\ new[Order[0 + 1]] = disk[Order[0 + 1]]
    BY <1>4, <2>2
  <2>4. \A f \in SavedFile : f # Order[0 + 1] => new[f] = new[f] /\ disk[f] = disk[f] OBVIOUS
  <2>5. Same(new, disk, 0 + 1)
    <3> HIDE DEF new
    <3> QED BY <2>1, <2>3, <2>4, OneMoreSame
  <2> QED BY <1>2, <2>3, <2>5
<1>5. CASE j.n # 0
  <2>1. Same(old, disk, j.n) BY <1>5
  <2>2. /\ new[Order[j.n + 1]] = disk[Order[j.n + 1]]
        /\ \A f \in SavedFile : f # Order[j.n + 1] => new[f] = old[f] /\ disk[f] = disk[f]
    BY <1>3, <1>5
  <2>3. Same(new, disk, j.n + 1)
    <3> HIDE DEF new
    <3> QED BY <2>1, <2>2, OneMoreSame
  <2> QED BY <1>2, <2>3
<1> QED BY <1>4, <1>5

LEMMA BackupNextKeeps ==
  ASSUME IInv, BackupNext, UNCHANGED snapshots PROVE IInv'
<1>1. PICK j \in At("backup") :
        /\ j.n < Len(Order) /\ NextFile(j)
        /\ kept' = [kept EXCEPT ![Len(changes) + 1] = Saving(@, j)]
  BY DEF BackupNext
<1>2. UNCHANGED <<queue, edits, faults, changes, guard, artifacts, disk>> BY DEF BackupNext, profile
<1>3. /\ Asked(j.req) /\ j.req.op = "apply" /\ ApplyOK(j) /\ j.at = "backup" /\ j.n \in 0 .. 3
      /\ j.req \in owed
  BY <1>1, Operation, Names4
<1>4. PICK k : /\ job' = {k} /\ k.req = j.req /\ k.req \in owed /\ k \in Job(k.req)
               /\ k.at = "backup" /\ k.n = j.n + 1 /\ Carries(k, j)
  BY <1>1, CountsOn
<1>5. DiskTyped /\ DiskTyped' BY <1>2, DiskStays
<1>6. /\ CountersTyped /\ OwedTyped /\ HistoryTyped /\ ChangesKept /\ ChangesApart
      /\ requests' = requests
  BY <1>2, History
<1>7. Prior(j.req) = {} /\ LockHash(disk) = j.req.expect /\ Same(kept[Current + 1], disk, j.n)
  BY <1>3 DEF ApplyOK
<1>8. Len(changes) + 1 \in 1 .. MaxRequests BY <1>3, <1>6, <1>7, RoomForChange
<1>9. PICK new : new = Saving(kept[Len(changes) + 1], j) OBVIOUS
<1>10. new \in FileMap /\ Same(new, disk, j.n + 1)
  <2>1. kept[Len(changes) + 1] \in FileMap BY <1>6, <1>8 DEF HistoryTyped
  <2> QED BY <1>3, <1>5, <1>7, <1>9, <2>1, SavingFacts DEF Current
<1>11. /\ kept' \in [1 .. MaxRequests -> FileMap] /\ kept'[Len(changes) + 1] = new
       /\ \A i \in DOMAIN changes : kept'[i] = kept[i]
  <2>1. kept' = [kept EXCEPT ![Len(changes) + 1] = new] BY <1>1, <1>9
  <2>2. \A i \in DOMAIN changes : i \in 1 .. MaxRequests /\ i # Len(changes) + 1
    BY <1>6, RoomInHistory
  <2> QED BY <1>6, <1>8, <1>10, <2>1, <2>2 DEF HistoryTyped
<1>12. HistoryTyped' BY <1>2, <1>6, <1>11 DEF HistoryTyped
<1>13. ChangesKept' BY <1>2, <1>6, <1>11 DEF ChangesKept
<1>14. ChangesApart' BY <1>2, <1>6 DEF ChangesApart
<1>15. ApplyOK(k)'
  <2>1. Same(kept'[Current' + 1], disk', k.n) BY <1>2, <1>4, <1>10, <1>11 DEF Current
  <2> QED BY <1>2, <1>4, <1>7, <2>1 DEF ApplyOK, Prior
<1> QED BY <1>2, <1>3, <1>4, <1>5, <1>12, <1>13, <1>14, <1>15, PluginKeeps

LEMMA RecordChangeKeeps ==
  ASSUME IInv, RecordChange, UNCHANGED snapshots PROVE IInv'
<1>1. PICK j \in At("backup") :
        /\ j.n = Len(Order) /\ Goes(j, "add")
        /\ changes' = Append(changes, Change(j.req))
  BY DEF RecordChange
<1>2. UNCHANGED <<queue, edits, faults, kept, guard, artifacts, disk>> BY DEF RecordChange, profile
<1>3. /\ Asked(j.req) /\ j.req.op = "apply" /\ ApplyOK(j) /\ j.at = "backup" /\ j.n = 4
      /\ j.req \in owed /\ "add" \in Stages[j.req.op]
  BY <1>1, Operation, Names4 DEF Stages
<1>4. PICK k : /\ job' = {k} /\ k.req = j.req /\ k.req \in owed /\ k \in Job(k.req)
               /\ k.at = "add" /\ k.n = 0 /\ Carries(k, j)
  BY <1>1, <1>3, GoesOn
<1>5. DiskTyped /\ DiskTyped' BY <1>2, DiskStays
<1>6. /\ CountersTyped /\ OwedTyped /\ HistoryTyped /\ ChangesKept /\ ChangesApart
      /\ requests' = requests /\ requests \in Nat
  BY <1>2, History
<1>7. Prior(j.req) = {} /\ LockHash(disk) = j.req.expect /\ Same(kept[Current + 1], disk, 4)
  BY <1>3 DEF ApplyOK
<1>8. Len(changes) + 1 \in 1 .. MaxRequests BY <1>3, <1>6, <1>7, RoomForChange
<1>9. PICK c : c = Change(j.req) OBVIOUS
<1>10. /\ c \in ChangeSet /\ c.mut = j.req.mut /\ c.plugin = j.req.plugin /\ c.to = j.req.to
       /\ c.before = LockHash(disk) /\ c.mut \in 1 .. requests
  <2>1. LockHash(disk) \in [DependencyFile -> Slot] BY <1>5, Readings
  <2>2. j.req.mut \in 1 .. requests /\ j.req.mut \in 1 .. MaxRequests
        /\ j.req.plugin \in Plugins /\ j.req.to \in Version \ {0}
    BY <1>3, <1>6, Bounds DEF Asked, CountersTyped
  <2> QED BY <1>7, <1>9, <2>1, <2>2 DEF Change, ChangeSet, Status
<1>11. /\ changes' \in Seq(ChangeSet) /\ Len(changes') = Len(changes) + 1
       /\ DOMAIN changes' = DOMAIN changes \cup {Len(changes) + 1}
       /\ \A i \in DOMAIN changes : changes'[i] = changes[i]
       /\ changes'[Len(changes) + 1] = c
       /\ Len(changes) \in Nat
  <2>1. changes \in Seq(ChangeSet) BY <1>6 DEF HistoryTyped
  <2> QED BY <1>1, <1>9, <1>10, <2>1
<1>12. HistoryTyped' BY <1>2, <1>6, <1>11 DEF HistoryTyped
<1>13. kept[Len(changes) + 1] \in FileMap
       /\ \A f \in SavedFile : kept[Len(changes) + 1][f] = disk[f]
  BY <1>6, <1>7, <1>8, AllSame DEF Current, HistoryTyped
<1>14. ChangesKept'
  <2>1. LockHash(kept[Len(changes) + 1]) = LockHash(disk) BY <1>13 DEF LockHash, SavedFile
  <2> QED BY <1>2, <1>6, <1>10, <1>11, <2>1 DEF ChangesKept
<1>15. ChangesApart'
  <2>1. \A i \in DOMAIN changes : changes[i].mut # c.mut BY <1>7, <1>10 DEF Prior
  <2>2. \A i \in DOMAIN changes' : changes'[i].mut <= requests'
    BY <1>6, <1>10, <1>11 DEF ChangesApart
  <2>3. ASSUME NEW i \in DOMAIN changes', NEW n \in DOMAIN changes',
               changes'[i].mut = changes'[n].mut
        PROVE  i = n
    BY <1>6, <1>11, <2>1, <2>3 DEF ChangesApart
  <2> QED BY <2>2, <2>3 DEF ChangesApart
<1>16. ApplyOK(k)'
  <2>1. kept'[Current'] = Saved(disk)'
    BY <1>2, <1>11, <1>13 DEF Current, Saved, FileMap
  <2>2. /\ changes' # <<>> /\ changes'[Current'].plugin = k.req.plugin
        /\ changes'[Current'].to = k.req.to
    BY <1>4, <1>10, <1>11 DEF Current
  <2> QED BY <1>4, <2>1, <2>2 DEF ApplyOK
<1> QED BY <1>2, <1>3, <1>4, <1>5, <1>11, <1>12, <1>14, <1>15, <1>16, PluginKeeps

LEMMA Overwriting ==
  ASSUME DiskTyped, NEW files, NEW slot \in Slot, Overwrite(files, slot)
  PROVE  DiskTyped' /\ \A f \in SavedFile \cup {"modules"} :
                          disk'[f] = IF f \in files THEN slot ELSE disk[f]
BY DEF DiskTyped, Overwrite

LEMMA AddPluginKeeps ==
  ASSUME IInv, AddPlugin, UNCHANGED snapshots PROVE IInv'
<1>1. PICK j \in At("add") : \E files : \E stage \in {"manage", "undo"} :
        /\ Overwrite(files, With(disk["manifest"], j.req)) /\ Goes(j, stage)
        /\ Fault \/ UNCHANGED faults
  BY DEF AddPlugin
<1>2. PICK files : \E stage \in {"manage", "undo"} :
        /\ Overwrite(files, With(disk["manifest"], j.req)) /\ Goes(j, stage)
        /\ Fault \/ UNCHANGED faults
  BY <1>1
<1>3. PICK stage \in {"manage", "undo"} :
        /\ Overwrite(files, With(disk["manifest"], j.req)) /\ Goes(j, stage)
        /\ Fault \/ UNCHANGED faults
  BY <1>2
<1>4. UNCHANGED <<queue, edits, plugins, changes, kept>> BY DEF AddPlugin, plugins
<1>5. Asked(j.req) /\ j.req.op = "apply" /\ ApplyOK(j) /\ j.at = "add" BY Operation
<1>6. stage \in Stages[j.req.op] \cup {"done", "failed"} BY <1>5 DEF Stages
<1>7. PICK k : /\ job' = {k} /\ k.req = j.req /\ k.req \in owed /\ k \in Job(k.req)
               /\ k.at = stage /\ k.n = 0 /\ Carries(k, j)
  BY <1>3, <1>6, GoesOn
<1>8. DiskTyped'
  <2>1. DiskTyped BY DEF IInv, Typed
  <2>2. disk["manifest"] \in Slot BY <2>1, Names4 DEF DiskTyped
  <2>3. j.req.to \in Version BY <1>5 DEF Asked
  <2>4. With(disk["manifest"], j.req) \in Slot BY <2>2, <2>3, WithFacts
  <2> QED BY <1>3, <2>1, <2>4, Overwriting
<1>9. ApplyOK(k)'
  <2>1. Same(disk', kept'[Current'], k.n) BY <1>7 DEF Same
  <2> QED BY <1>4, <1>5, <1>7, <2>1 DEF ApplyOK, Current
<1> QED BY <1>3, <1>4, <1>5, <1>7, <1>8, <1>9, PluginMoves

LEMMA WriteManagedKeeps ==
  ASSUME IInv, WriteManaged, UNCHANGED snapshots PROVE IInv'
<1>1. PICK j \in At("manage") :
        Overwrite({"managed"}, With(disk["managed"], j.req)) /\ Goes(j, "validate")
  BY DEF WriteManaged
<1>2. UNCHANGED <<queue, edits, faults, plugins, changes, kept>> BY DEF WriteManaged, plugins
<1>3. Asked(j.req) /\ j.req.op = "apply" /\ ApplyOK(j) /\ j.at = "manage" BY Operation
<1>4. "validate" \in Stages[j.req.op] \cup {"done", "failed"} BY <1>3 DEF Stages
<1>5. PICK k : /\ job' = {k} /\ k.req = j.req /\ k.req \in owed /\ k \in Job(k.req)
               /\ k.at = "validate" /\ k.n = 0 /\ Carries(k, j)
  BY <1>1, <1>4, GoesOn
<1>6. DiskTyped BY DEF IInv, Typed
<1>7. disk["managed"] \in Slot BY <1>6, Names4 DEF DiskTyped
<1>8. j.req.to \in Version /\ j.req.plugin \in Plugins BY <1>3 DEF Asked
<1>9. /\ With(disk["managed"], j.req) \in Slot
      /\ Names(With(disk["managed"], j.req), j.req.plugin) = j.req.to
  BY <1>7, <1>8, WithFacts
<1>10. DiskTyped' /\ disk'["managed"] = With(disk["managed"], j.req)
  BY <1>1, <1>6, <1>9, Overwriting, Names4
<1>11. ApplyOK(k)'
  <2>1. Names(disk'["managed"], k.req.plugin) = k.req.to BY <1>5, <1>9, <1>10
  <2> QED BY <1>2, <1>3, <1>5, <2>1 DEF ApplyOK, Current
<1> QED BY <1>2, <1>3, <1>5, <1>10, <1>11, PluginMoves

\* The change an update has recorded.
LEMMA CurrentChange ==
  ASSUME IInv, NEW j, ApplyOK(j), j.at \in {"add", "manage", "validate", "undo"}
  PROVE  Current \in DOMAIN changes /\ Current \in 1 .. MaxRequests
         /\ kept[Current] \in FileMap
<1>1. HistoryTyped /\ ChangesApart BY DEF IInv, Typed
<1>2. Len(changes) \in Nat /\ DOMAIN changes = 1 .. Len(changes)
      /\ DOMAIN changes \subseteq 1 .. MaxRequests
  BY <1>1, RoomInHistory
<1>3. changes # <<>> /\ changes \in Seq(ChangeSet) BY <1>1 DEF ApplyOK, HistoryTyped
<1>4. Len(changes) # 0 BY <1>3
<1>5. Current \in DOMAIN changes BY <1>2, <1>4 DEF Current
<1> QED BY <1>1, <1>2, <1>5 DEF HistoryTyped

LEMMA ValidateApplyKeeps ==
  ASSUME IInv, ValidateApply, UNCHANGED snapshots PROVE IInv'
<1>1. PICK j \in At("validate") : \E stage \in {"done", "undo"} :
        /\ Goes(j, stage)
        /\ MarkApplied(Current) \/ UNCHANGED changes
  BY DEF ValidateApply, Succeeds
<1>2. PICK stage \in {"done", "undo"} :
        /\ Goes(j, stage)
        /\ MarkApplied(Current) \/ UNCHANGED changes
  BY <1>1
<1>3. UNCHANGED <<queue, edits, faults, kept, guard, artifacts, disk>>
  BY DEF ValidateApply, profile
<1>4. Asked(j.req) /\ j.req.op = "apply" /\ ApplyOK(j) /\ j.at = "validate" BY Operation
<1>5. stage \in Stages[j.req.op] \cup {"done", "failed"} BY <1>4 DEF Stages
<1>6. PICK k : /\ job' = {k} /\ k.req = j.req /\ k.req \in owed /\ k \in Job(k.req)
               /\ k.at = stage /\ k.n = 0 /\ Carries(k, j)
  BY <1>2, <1>5, GoesOn
<1>7. DiskTyped /\ DiskTyped' BY <1>3, DiskStays
<1>8. /\ HistoryTyped /\ ChangesKept /\ ChangesApart /\ requests' = requests /\ requests \in Nat
  BY <1>3, History
<1>9. Current \in DOMAIN changes BY <1>4, CurrentChange
<1>10. /\ HistoryTyped' /\ ChangesKept' /\ ChangesApart' /\ DOMAIN changes' = DOMAIN changes
       /\ Len(changes') = Len(changes)
       /\ \A n \in DOMAIN changes :
            changes'[n].plugin = changes[n].plugin /\ changes'[n].to = changes[n].to
  <2>1. CASE MarkApplied(Current) BY <1>3, <1>7, <1>8, <1>9, <2>1, MarkedKeeps
  <2>2. CASE UNCHANGED changes BY <1>3, <1>8, <2>2, HistoryStays
  <2> QED BY <1>2, <2>1, <2>2
<1>11. ApplyOK(k)'
  <2>1. Same(disk', kept'[Current'], k.n) BY <1>6 DEF Same
  <2>2. changes' # <<>> BY <1>9, <1>10
  <2>3. Current' = Current BY <1>10 DEF Current
  <2>4. changes'[Current'].plugin = k.req.plugin /\ changes'[Current'].to = k.req.to
    BY <1>4, <1>6, <1>9, <1>10, <2>3 DEF ApplyOK
  <2> QED BY <1>6, <2>1, <2>2, <2>4 DEF ApplyOK
<1> QED BY <1>3, <1>4, <1>6, <1>7, <1>10, <1>11, PluginKeeps

\* One more file is put back from a backup.
LEMMA PuttingBack ==
  ASSUME DiskTyped, NEW from \in FileMap, NEW j, j.n \in 0 .. 3, PutBack(from, j)
  PROVE  DiskTyped' /\ (Same(disk, from, j.n) => Same(disk', from, j.n + 1))
<1> DEFINE f == Order[j.n + 1]
<1>1. f \in SavedFile
  <2>1. j.n + 1 \in 1 .. 4 OBVIOUS
  <2> QED BY <2>1, OrderFacts
<1>2. from[f] \in Slot BY <1>1 DEF FileMap
<1>3. disk' = [disk EXCEPT ![f] = from[f]] BY DEF PutBack
<1>4. DiskTyped' /\ disk'[f] = from[f]
      /\ \A g \in SavedFile \cup {"modules"} : g # f => disk'[g] = disk[g]
  <2> HIDE DEF f
  <2> QED BY <1>1, <1>2, <1>3, Replacing
<1>5. ASSUME Same(disk, from, j.n) PROVE Same(disk', from, j.n + 1)
  <2>1. \A g \in SavedFile : g # Order[j.n + 1] => disk'[g] = disk[g] /\ from[g] = from[g]
    BY <1>4
  <2>2. disk'[Order[j.n + 1]] = from[Order[j.n + 1]] BY <1>4
  <2> QED BY <1>5, <2>1, <2>2, OneMoreSame
<1> QED BY <1>4, <1>5

LEMMA Installing ==
  ASSUME DiskTyped, Installed
  PROVE  DiskTyped' /\ disk'["modules"] = disk'["lock"]
         /\ \A f \in SavedFile : disk'[f] = disk[f]
<1>1. disk["lock"] \in Slot BY Names4 DEF DiskTyped
<1> QED BY <1>1, Names4 DEF DiskTyped, Installed

LEMMA UndoNextKeeps ==
  ASSUME IInv, UndoNext, UNCHANGED snapshots PROVE IInv'
<1>1. PICK j \in At("undo") :
        /\ j.n < Len(Order)
        /\ \/ PutBack(kept[Current], j) /\ NextFile(j) /\ UNCHANGED <<changes, faults>>
           \/ Fault /\ Mark(Current, "rollback-failed") /\ Throws(j) /\ UNCHANGED disk
  BY DEF UndoNext
<1>2. UNCHANGED <<queue, edits, kept, guard, artifacts>> BY DEF UndoNext
<1>3. /\ Asked(j.req) /\ j.req.op = "apply" /\ ApplyOK(j) /\ j.at = "undo" /\ j.n \in 0 .. 3
  BY <1>1, Operation, Names4
<1>4. /\ HistoryTyped /\ ChangesKept /\ ChangesApart /\ requests' = requests /\ requests \in Nat
      /\ DiskTyped
  BY <1>2, History DEF IInv, Typed
<1>5. Current \in DOMAIN changes /\ kept[Current] \in FileMap BY <1>3, CurrentChange
<1>6. CASE PutBack(kept[Current], j) /\ NextFile(j) /\ UNCHANGED <<changes, faults>>
  <2>1. PICK k : /\ job' = {k} /\ k.req = j.req /\ k.req \in owed /\ k \in Job(k.req)
                 /\ k.at = "undo" /\ k.n = j.n + 1 /\ Carries(k, j)
    BY <1>1, <1>6, CountsOn
  <2>2. PICK from : from = kept[Current] OBVIOUS
  <2>3. Same(disk, from, j.n) BY <1>3, <2>2 DEF ApplyOK
  <2>4. DiskTyped' /\ Same(disk', from, j.n + 1)
    BY <1>3, <1>4, <1>5, <1>6, <2>2, <2>3, PuttingBack
  <2>5. ApplyOK(k)'
    <3>1. Same(disk', kept'[Current'], k.n) BY <1>2, <1>6, <2>1, <2>2, <2>4 DEF Current
    <3> QED BY <1>3, <1>6, <2>1, <3>1 DEF ApplyOK, Current
  <2>6. UNCHANGED plugins BY <1>2, <1>6 DEF plugins
  <2> QED BY <1>2, <1>3, <1>6, <2>1, <2>4, <2>5, <2>6, PluginMoves
<1>7. CASE Fault /\ Mark(Current, "rollback-failed") /\ Throws(j) /\ UNCHANGED disk
  <2>1. PICK k : /\ job' = {k} /\ k.req = j.req /\ k.req \in owed /\ k \in Job(k.req)
                 /\ k.at = "failed" /\ k.n = 0 /\ Carries(k, j)
    BY <1>7, GoesOn DEF Throws
  <2>2. "rollback-failed" \in Status BY DEF Status
  <2>3. HistoryTyped' /\ ChangesKept' /\ ChangesApart' /\ DOMAIN changes' = DOMAIN changes
    BY <1>2, <1>4, <1>5, <1>7, <2>2, MarkedKeeps
  <2>4. DiskTyped' BY <1>7, DiskStays
  <2>5. ApplyOK(k)' BY <2>1, EndedOK
  <2> QED BY <1>2, <1>3, <1>7, <2>1, <2>3, <2>4, <2>5, PluginKeeps
<1> QED BY <1>1, <1>6, <1>7

LEMMA UndoInstallKeeps ==
  ASSUME IInv, UndoInstall, UNCHANGED snapshots PROVE IInv'
<1>1. PICK j \in At("undo") : \E st \in {"failed-rolled-back", "rollback-failed"} :
        /\ Throws(j) /\ Mark(Current, st)
        /\ Installed \/ UNCHANGED disk
        /\ Fault \/ UNCHANGED faults
  BY DEF UndoInstall
<1>2. PICK st \in {"failed-rolled-back", "rollback-failed"} :
        /\ Throws(j) /\ Mark(Current, st)
        /\ Installed \/ UNCHANGED disk
        /\ Fault \/ UNCHANGED faults
  BY <1>1
<1>3. UNCHANGED <<queue, edits, kept, guard, artifacts>> BY DEF UndoInstall
<1>4. Asked(j.req) /\ j.req.op = "apply" /\ ApplyOK(j) /\ j.at = "undo" BY Operation
<1>5. /\ HistoryTyped /\ ChangesKept /\ ChangesApart /\ requests' = requests
      /\ DiskTyped
  BY <1>3, History DEF IInv, Typed
<1>6. Current \in DOMAIN changes BY <1>4, CurrentChange
<1>7. PICK k : /\ job' = {k} /\ k.req = j.req /\ k.req \in owed /\ k \in Job(k.req)
               /\ k.at = "failed" /\ k.n = 0 /\ Carries(k, j)
  BY <1>2, GoesOn DEF Throws
<1>8. st \in Status BY DEF Status
<1>9. HistoryTyped' /\ ChangesKept' /\ ChangesApart' /\ DOMAIN changes' = DOMAIN changes
  BY <1>2, <1>3, <1>5, <1>6, <1>8, MarkedKeeps
<1>10. DiskTyped' BY <1>2, <1>5, Installing, DiskStays
<1>11. ApplyOK(k)' BY <1>7, EndedOK
<1> QED BY <1>2, <1>3, <1>4, <1>7, <1>9, <1>10, <1>11, PluginKeeps

\* The change a rollback is asked for.
LEMMA Target ==
  ASSUME IInv, NEW r, Asked(r), r.op = "rollback"
  PROVE  r.target \in DOMAIN changes /\ kept[r.target] \in FileMap
<1>1. HistoryTyped /\ ChangesApart BY DEF IInv, Typed
<1>2. r.target \in DOMAIN changes BY DEF Asked
<1> QED BY <1>1, <1>2, RoomInHistory DEF HistoryTyped

LEMMA StartRollbackKeeps ==
  ASSUME IInv, NEW r \in owed, r.op = "rollback", StartRollback(r), UNCHANGED snapshots
  PROVE  IInv'
<1>1. PICK stage \in {"done", "guard", "failed"} : job' = {Running(r, stage)}
  BY DEF StartRollback
<1>2. stage \in Stages[r.op] \cup {"done", "failed"} BY DEF Stages
<1>3. PICK k : k = Running(r, stage) /\ AtStage(k, r, stage) /\ k.n = 0 /\ Fresh(k)
  BY <1>2, Begun
<1>4. job' = {k} /\ k \in Job(r) /\ k.req = r /\ k.at = stage BY <1>1, <1>3 DEF AtStage
<1>5. UNCHANGED <<queue, edits, faults, plugins, disk>> BY DEF StartRollback, profile
<1>6. RollbackOK(k)' BY <1>4 DEF RollbackOK
<1>7. DiskTyped' BY <1>5, DiskStays
<1> QED BY <1>4, <1>5, <1>6, <1>7, PluginMoves

LEMMA GuardNextKeeps ==
  ASSUME IInv, GuardNext, UNCHANGED snapshots PROVE IInv'
<1>1. PICK j \in At("guard") :
        /\ j.n < Len(Order) /\ guard' = Saving(guard, j)
        /\ Goes(j, "restore") \/ NextFile(j)
  BY DEF GuardNext
<1>2. UNCHANGED <<queue, edits, faults, changes, kept, artifacts, disk>> BY DEF GuardNext, profile
<1>3. Asked(j.req) /\ j.req.op = "rollback" /\ j.at = "guard" BY Operation
<1>4. "restore" \in Stages[j.req.op] \cup {"done", "failed"} BY <1>3 DEF Stages
<1>5. \E k : /\ job' = {k} /\ k.req = j.req /\ k.req \in owed /\ k \in Job(k.req)
             /\ k.at = "guard" \/ (k.at = "restore" /\ k.n = 0)
  <2>1. CASE Goes(j, "restore") BY <1>4, <2>1, GoesOn
  <2>2. CASE NextFile(j) BY <1>1, <2>2, CountsOn
  <2> QED BY <1>1, <2>1, <2>2
<1>6. PICK k : /\ job' = {k} /\ k.req = j.req /\ k.req \in owed /\ k \in Job(k.req)
               /\ k.at = "guard" \/ (k.at = "restore" /\ k.n = 0)
  BY <1>5
<1>7. DiskTyped /\ DiskTyped' BY <1>2, DiskStays
<1>8. /\ HistoryTyped /\ ChangesKept /\ ChangesApart /\ requests' = requests
  BY <1>2, History
<1>9. guard' \in FileMap
  <2>1. guard \in FileMap /\ {} \in Slot BY <1>8 DEF HistoryTyped, Slot
  <2> QED BY <1>1, <1>7, <2>1 DEF Saving, FileMap, DiskTyped
<1>10. HistoryTyped' BY <1>2, <1>8, <1>9 DEF HistoryTyped
<1>11. ChangesKept' BY <1>2, <1>8 DEF ChangesKept
<1>12. ChangesApart' BY <1>2, <1>8 DEF ChangesApart
<1>13. RollbackOK(k)'
  <2>1. CASE k.at = "guard" BY <2>1 DEF RollbackOK
  <2>2. CASE k.at = "restore" /\ k.n = 0
    <3>1. Same(disk', kept'[k.req.target], k.n) BY <2>2 DEF Same
    <3> QED BY <2>2, <3>1 DEF RollbackOK
  <2> QED BY <1>6, <2>1, <2>2
<1> QED BY <1>2, <1>3, <1>6, <1>7, <1>10, <1>11, <1>12, <1>13, PluginKeeps

LEMMA RestoreNextKeeps ==
  ASSUME IInv, RestoreNext, UNCHANGED snapshots PROVE IInv'
<1>1. PICK j \in At("restore") :
        /\ j.n < Len(Order)
        /\ \/ PutBack(kept[j.req.target], j) /\ NextFile(j) /\ UNCHANGED faults
           \/ Fault /\ Goes(j, "unguard") /\ UNCHANGED disk
  BY DEF RestoreNext
<1>2. UNCHANGED <<queue, edits, plugins, kept>> BY DEF RestoreNext, plugins
<1>3. /\ Asked(j.req) /\ j.req.op = "rollback" /\ RollbackOK(j) /\ j.at = "restore"
      /\ j.n \in 0 .. 3
  BY <1>1, Operation, Names4
<1>4. CASE PutBack(kept[j.req.target], j) /\ NextFile(j) /\ UNCHANGED faults
  <2>1. PICK k : /\ job' = {k} /\ k.req = j.req /\ k.req \in owed /\ k \in Job(k.req)
                 /\ k.at = "restore" /\ k.n = j.n + 1 /\ Carries(k, j)
    BY <1>1, <1>4, CountsOn
  <2>2. PICK from : from = kept[j.req.target] OBVIOUS
  <2>3. from \in FileMap /\ Same(disk, from, j.n) BY <1>3, <2>2, Target DEF RollbackOK
  <2>4. DiskTyped BY DEF IInv, Typed
  <2>5. DiskTyped' /\ Same(disk', from, j.n + 1)
    BY <1>3, <1>4, <2>2, <2>3, <2>4, PuttingBack
  <2>6. RollbackOK(k)'
    <3>1. Same(disk', kept'[k.req.target], k.n) BY <1>2, <2>1, <2>2, <2>5
    <3> QED BY <2>1, <3>1 DEF RollbackOK
  <2> QED BY <1>2, <1>3, <1>4, <2>1, <2>5, <2>6, PluginMoves
<1>5. CASE Fault /\ Goes(j, "unguard") /\ UNCHANGED disk
  <2>1. "unguard" \in Stages[j.req.op] \cup {"done", "failed"} BY <1>3 DEF Stages
  <2>2. PICK k : /\ job' = {k} /\ k.req = j.req /\ k.req \in owed /\ k \in Job(k.req)
                 /\ k.at = "unguard" /\ k.n = 0 /\ Carries(k, j)
    BY <1>5, <2>1, GoesOn
  <2>3. DiskTyped' BY <1>5, DiskStays
  <2>4. RollbackOK(k)' BY <2>2 DEF RollbackOK
  <2> QED BY <1>2, <1>3, <1>5, <2>2, <2>3, <2>4, PluginMoves
<1> QED BY <1>1, <1>4, <1>5

LEMMA RestoreInstallKeeps ==
  ASSUME IInv, RestoreInstall, UNCHANGED snapshots PROVE IInv'
<1>1. PICK j \in At("restore") :
        /\ j.n = Len(Order)
        /\ \/ Installed /\ Goes(j, "check") /\ UNCHANGED faults
           \/ (Fault \/ UNCHANGED faults) /\ Goes(j, "unguard") /\ UNCHANGED disk
  BY DEF RestoreInstall
<1>2. UNCHANGED <<queue, edits, plugins, kept>> BY DEF RestoreInstall, plugins
<1>3. Asked(j.req) /\ j.req.op = "rollback" /\ RollbackOK(j) /\ j.at = "restore" /\ j.n = 4
  BY <1>1, Operation, Names4
<1>4. {"check", "unguard"} \subseteq Stages[j.req.op] \cup {"done", "failed"} BY <1>3 DEF Stages
<1>5. DiskTyped BY DEF IInv, Typed
<1>6. CASE Installed /\ Goes(j, "check") /\ UNCHANGED faults
  <2>1. PICK k : /\ job' = {k} /\ k.req = j.req /\ k.req \in owed /\ k \in Job(k.req)
                 /\ k.at = "check" /\ k.n = 0 /\ Carries(k, j)
    BY <1>4, <1>6, GoesOn
  <2>2. /\ DiskTyped' /\ disk'["modules"] = disk'["lock"]
        /\ \A f \in SavedFile : disk'[f] = disk[f]
    BY <1>5, <1>6, Installing
  <2>3. \A n \in 1 .. 4 : disk[Order[n]] = kept[j.req.target][Order[n]]
    BY <1>3 DEF RollbackOK, Same
  <2>4. \A n \in 1 .. Len(Order) : disk'[Order[n]] = kept'[k.req.target][Order[n]]
    BY <1>2, <2>1, <2>2, <2>3, OrderFacts, Names4
  <2>5. RollbackOK(k)' BY <2>1, <2>2, <2>4 DEF RollbackOK, Same
  <2> QED BY <1>2, <1>3, <1>6, <2>1, <2>2, <2>5, PluginMoves
<1>7. CASE (Fault \/ UNCHANGED faults) /\ Goes(j, "unguard") /\ UNCHANGED disk
  <2>1. PICK k : /\ job' = {k} /\ k.req = j.req /\ k.req \in owed /\ k \in Job(k.req)
                 /\ k.at = "unguard" /\ k.n = 0 /\ Carries(k, j)
    BY <1>4, <1>7, GoesOn
  <2>2. DiskTyped' BY <1>7, DiskStays
  <2>3. RollbackOK(k)' BY <2>1 DEF RollbackOK
  <2> QED BY <1>2, <1>3, <1>7, <2>1, <2>2, <2>3, PluginMoves
<1> QED BY <1>1, <1>6, <1>7

LEMMA CheckRollbackKeeps ==
  ASSUME IInv, CheckRollback, UNCHANGED snapshots PROVE IInv'
<1>1. PICK j \in At("check") : \E stage \in {"done", "unguard"} :
        /\ Goes(j, stage)
        /\ Mark(j.req.target, "rolled-back") \/ UNCHANGED changes
  BY DEF CheckRollback, Succeeds
<1>2. PICK stage \in {"done", "unguard"} :
        /\ Goes(j, stage)
        /\ Mark(j.req.target, "rolled-back") \/ UNCHANGED changes
  BY <1>1
<1>3. UNCHANGED <<queue, edits, faults, kept, guard, artifacts, disk>>
  BY DEF CheckRollback, profile
<1>4. Asked(j.req) /\ j.req.op = "rollback" BY Operation
<1>5. stage \in Stages[j.req.op] \cup {"done", "failed"} BY <1>4 DEF Stages
<1>6. PICK k : /\ job' = {k} /\ k.req = j.req /\ k.req \in owed /\ k \in Job(k.req)
               /\ k.at = stage /\ k.n = 0 /\ Carries(k, j)
  BY <1>2, <1>5, GoesOn
<1>7. DiskTyped /\ DiskTyped' BY <1>3, DiskStays
<1>8. /\ HistoryTyped /\ ChangesKept /\ ChangesApart /\ requests' = requests /\ requests \in Nat
  BY <1>3, History
<1>9. PICK i \in DOMAIN changes : i = j.req.target BY <1>4, Target
<1>10. HistoryTyped' /\ ChangesKept' /\ ChangesApart' /\ DOMAIN changes' = DOMAIN changes
  <2>1. CASE Mark(j.req.target, "rolled-back")
    <3>1. \E st \in Status : Mark(i, st) BY <1>9, <2>1 DEF Status
    <3> QED BY <1>3, <1>7, <1>8, <3>1, MarkedKeeps
  <2>2. CASE UNCHANGED changes BY <1>3, <1>8, <2>2, HistoryStays
  <2> QED BY <1>2, <2>1, <2>2
<1>11. RollbackOK(k)' BY <1>6 DEF RollbackOK
<1> QED BY <1>3, <1>4, <1>6, <1>7, <1>10, <1>11, PluginKeeps

LEMMA UnguardNextKeeps ==
  ASSUME IInv, UnguardNext, UNCHANGED snapshots PROVE IInv'
<1>1. PICK j \in At("unguard") :
        /\ j.n < Len(Order)
        /\ \/ PutBack(guard, j) /\ NextFile(j) /\ UNCHANGED faults
           \/ Fault /\ Throws(j) /\ UNCHANGED disk
  BY DEF UnguardNext
<1>2. UNCHANGED <<queue, edits, plugins>> BY DEF UnguardNext
<1>3. Asked(j.req) /\ j.req.op = "rollback" /\ j.n \in 0 .. 3
  BY <1>1, Operation, Names4
<1>4. PICK k : /\ job' = {k} /\ k.req = j.req /\ k.req \in owed /\ k \in Job(k.req)
               /\ k.at \in {"unguard", "failed"}
  <2>1. CASE NextFile(j) BY <1>1, <2>1, CountsOn
  <2>2. CASE Throws(j) BY <2>2, GoesOn DEF Throws
  <2> QED BY <1>1, <2>1, <2>2
<1>5. DiskTyped'
  <2>1. CASE PutBack(guard, j)
    <3>1. PICK from : from = guard OBVIOUS
    <3>2. from \in FileMap BY <3>1 DEF IInv, Typed, HistoryTyped
    <3>3. DiskTyped /\ PutBack(from, j) BY <2>1, <3>1 DEF IInv, Typed
    <3> QED BY <1>3, <3>2, <3>3, PuttingBack
  <2>2. CASE UNCHANGED disk BY <2>2, DiskStays
  <2> QED BY <1>1, <2>1, <2>2
<1>6. RollbackOK(k)' BY <1>4 DEF RollbackOK
<1> QED BY <1>1, <1>2, <1>3, <1>4, <1>5, <1>6, PluginMoves

LEMMA UnguardInstallKeeps ==
  ASSUME IInv, UnguardInstall, UNCHANGED snapshots PROVE IInv'
<1>1. PICK j \in At("unguard") :
        /\ Throws(j)
        /\ Installed \/ UNCHANGED disk
        /\ Mark(j.req.target, "rollback-failed") \/ UNCHANGED changes
        /\ Fault \/ UNCHANGED faults
  BY DEF UnguardInstall
<1>2. UNCHANGED <<queue, edits, kept, guard, artifacts>> BY DEF UnguardInstall
<1>3. Asked(j.req) /\ j.req.op = "rollback" BY Operation
<1>4. PICK k : /\ job' = {k} /\ k.req = j.req /\ k.req \in owed /\ k \in Job(k.req)
               /\ k.at = "failed" /\ k.n = 0 /\ Carries(k, j)
  BY <1>1, GoesOn DEF Throws
<1>5. /\ HistoryTyped /\ ChangesKept /\ ChangesApart /\ requests' = requests /\ requests \in Nat
      /\ DiskTyped
  BY <1>2, History DEF IInv, Typed
<1>6. DiskTyped' BY <1>1, <1>5, Installing, DiskStays
<1>7. PICK i \in DOMAIN changes : i = j.req.target BY <1>3, Target
<1>8. HistoryTyped' /\ ChangesKept' /\ ChangesApart' /\ DOMAIN changes' = DOMAIN changes
  <2>1. CASE Mark(j.req.target, "rollback-failed")
    <3>1. \E st \in Status : Mark(i, st) BY <1>7, <2>1 DEF Status
    <3> QED BY <1>2, <1>5, <3>1, MarkedKeeps
  <2>2. CASE UNCHANGED changes BY <1>2, <1>5, <2>2, HistoryStays
  <2> QED BY <1>1, <2>1, <2>2
<1>9. RollbackOK(k)' BY <1>4 DEF RollbackOK
<1> QED BY <1>1, <1>2, <1>3, <1>4, <1>6, <1>8, <1>9, PluginKeeps

LEMMA PluginStepKeeps ==
  ASSUME IInv, PluginStep, UNCHANGED snapshots PROVE IInv'
BY FetchArtifactKeeps, BackupNextKeeps, RecordChangeKeeps, AddPluginKeeps, WriteManagedKeeps,
   ValidateApplyKeeps, UndoNextKeeps, UndoInstallKeeps, GuardNextKeeps, RestoreNextKeeps,
   RestoreInstallKeeps, CheckRollbackKeeps, UnguardNextKeeps, UnguardInstallKeeps DEF PluginStep

-----------------------------------------------------------------------------
(* The steps of snapshots and file writes *)

\* A step of a snapshot, a restoration or a file write.
LEMMA SnapshotKeeps ==
  ASSUME IInv, NEW k, job' = {k}, k.req \in owed, k \in Job(k.req),
         k.req.op \in {"create", "restore", "write"},
         k.req.op # "write" => SnapshotOK(k)',
         k.req.op = "restore" => SwapOK(k)' /\ Ended(k)',
         UNCHANGED <<queue, plugins>>, CountersTyped',
         DiskTyped', SnapshotsTyped', RowsStored', DOMAIN rows \subseteq DOMAIN rows'
  PROVE  IInv'
<1>1. /\ CountersTyped /\ OwedTyped /\ HistoryTyped /\ ChangesKept /\ ChangesApart
      /\ requests' = requests /\ owed' = owed /\ requests \in Nat
  BY History
<1>2. changes' = changes /\ UNCHANGED <<changes, kept, guard, artifacts>> BY DEF plugins
<1>3. OwedTyped' BY <1>1, <1>2, OwedStays
<1>4. HistoryTyped' /\ ChangesKept' /\ ChangesApart' BY <1>1, <1>2, HistoryStays
<1>5. JobOK(k)' BY DEF JobOK
<1>6. JobTyped' /\ (\A j \in job : JobOK(j))' BY <1>1, <1>5, JobBecomes
<1> QED BY <1>3, <1>4, <1>6 DEF IInv, Typed

\* One that writes no snapshot.
LEMMA SnapshotMoves ==
  ASSUME IInv, NEW k, job' = {k}, k.req \in owed, k \in Job(k.req),
         k.req.op \in {"create", "restore", "write"},
         k.req.op # "write" => SnapshotOK(k)',
         k.req.op = "restore" => SwapOK(k)' /\ Ended(k)',
         UNCHANGED <<queue, plugins, snapshots>>, edits' = edits, Fault \/ UNCHANGED faults,
         DiskTyped'
  PROVE  IInv'
<1>1. SnapshotsTyped' /\ RowsStored' BY SnapshotsStay DEF IInv, Typed
<1>2. rows' = rows BY DEF snapshots
<1>3. CountersTyped' BY FaultCounts, History
<1> QED BY <1>1, <1>2, <1>3, SnapshotKeeps

\* What is read for a snapshot when its operation begins.
LEMMA Collecting ==
  ASSUME NEW r, "store" \in Stages[r.op], NEW got \in Archive
  PROVE  \E k : /\ k = [Running(r, "store") EXCEPT !.got = got] /\ AtStage(k, r, "store")
                /\ k.got = got /\ k.base = Nothing /\ k.aside = Nothing /\ k.placed = {}
<1> DEFINE k == [Running(r, "store") EXCEPT !.got = got]
<1>1. 0 \in 0 .. Len(Order) BY Names4
<1>2. k \in Job(r) BY <1>1, NothingTyped DEF Job, Running
<1>3. /\ k.req = r /\ k.at = "store" /\ k.got = got /\ k.base = Nothing /\ k.aside = Nothing
      /\ k.placed = {}
  BY DEF Running
<1> QED BY <1>2, <1>3 DEF AtStage

LEMMA StartCreateKeeps ==
  ASSUME IInv, NEW r \in owed, r.op = "create", StartCreate(r), UNCHANGED plugins
  PROVE  IInv'
<1>1. UNCHANGED <<queue, edits, faults, snapshots, disk>> BY DEF StartCreate, profile
<1>2. DiskTyped /\ DiskTyped' BY <1>1, DiskStays
<1>3. CASE job' = {Running(r, "done")}
  <2>1. "done" \in Stages[r.op] \cup {"done", "failed"} OBVIOUS
  <2>2. PICK k : k = Running(r, "done") /\ AtStage(k, r, "done") /\ k.n = 0 /\ Fresh(k)
    BY <2>1, Begun
  <2>3. job' = {k} /\ k \in Job(r) /\ k.req = r /\ k.at = "done" BY <1>3, <2>2 DEF AtStage
  <2>4. SnapshotOK(k)' BY <2>3 DEF SnapshotOK
  <2> QED BY <1>1, <1>2, <2>3, <2>4, SnapshotMoves
<1>4. CASE job' = {[Running(r, "store") EXCEPT !.got = Collected(r.type)]}
  <2>1. "store" \in Stages[r.op] BY DEF Stages
  <2>2. r.type \in DOMAIN Scope BY DEF IInv, Typed, OwedTyped, Asked
  <2>3. PICK got : got = Collected(r.type) OBVIOUS
  <2>4. got \in Archive /\ Holds(got, r.type, disk) BY <1>2, <2>2, <2>3, Readings
  <2>5. PICK k : /\ k = [Running(r, "store") EXCEPT !.got = got] /\ AtStage(k, r, "store")
                 /\ k.got = got /\ k.base = Nothing /\ k.aside = Nothing /\ k.placed = {}
    BY <2>1, <2>4, Collecting
  <2>6. job' = {k} /\ k \in Job(r) /\ k.req = r /\ k.at = "store"
    BY <1>4, <2>3, <2>5 DEF AtStage
  <2>7. Holds(k.got, TypeOf(k.req)', disk') BY <1>1, <2>4, <2>5, <2>6 DEF TypeOf
  <2>8. SnapshotOK(k)' BY <2>6, <2>7 DEF SnapshotOK
  <2> QED BY <1>1, <1>2, <2>6, <2>8, SnapshotMoves
<1> QED BY <1>3, <1>4 DEF StartCreate

LEMMA RowFacts ==
  ASSUME IInv, NEW r, Asked(r), r.op = "restore"
  PROVE  /\ r.target \in DOMAIN rows /\ rows[r.target].type \in DOMAIN Scope
         /\ rows[r.target].files \in Archive /\ rows[r.target].files \in archives
<1>1. r.target \in DOMAIN rows BY DEF Asked
<1>2. rows[r.target] \in RowSet BY <1>1 DEF IInv, Typed, SnapshotsTyped
<1>3. rows[r.target].files \in archives BY <1>1 DEF IInv, RowsStored
<1> QED BY <1>1, <1>2, <1>3 DEF RowSet

LEMMA StartRestoreKeeps ==
  ASSUME IInv, NEW r \in owed, r.op = "restore", StartRestore(r), UNCHANGED plugins
  PROVE  IInv'
<1>1. UNCHANGED <<queue, edits, faults, snapshots, rows, disk>>
  BY DEF StartRestore, profile, snapshots
<1>2. DiskTyped /\ DiskTyped' BY <1>1, DiskStays
<1>3. Asked(r) /\ rows[r.target].type \in DOMAIN Scope BY RowFacts DEF IInv, Typed, OwedTyped
<1>4. ASSUME NEW stage \in {"failed", "open"}, job' = {Running(r, stage)},
             stage = "open" => Taken(Protection(r))
      PROVE  IInv'
  <2>1. stage \in Stages[r.op] \cup {"done", "failed"} BY DEF Stages
  <2>2. PICK k : k = Running(r, stage) /\ AtStage(k, r, stage) /\ k.n = 0 /\ Fresh(k)
    BY <2>1, Begun
  <2>3. /\ job' = {k} /\ k \in Job(r) /\ k.req = r /\ k.at = stage /\ k.base = Nothing
        /\ k.aside = Nothing /\ k.placed = {} /\ ~k.own
    BY <1>4, <2>2 DEF AtStage, Fresh
  <2>4. SnapshotOK(k)'
    <3>1. CASE stage = "open"
      <4>1. PICK i \in DOMAIN rows : rows[i].mut = Protection(r) BY <1>4, <3>1 DEF Taken
      <4>2. Guarded(k, disk)' BY <1>1, <2>3, <4>1 DEF Guarded
      <4> QED BY <2>3, <3>1, <4>2 DEF SnapshotOK
    <3>2. CASE stage = "failed" BY <2>3, <3>2 DEF SnapshotOK
    <3> QED BY <3>1, <3>2
  <2>5. SwapOK(k)' /\ Ended(k)' BY <2>3 DEF SwapOK, Ended
  <2> QED BY <1>1, <1>2, <2>3, <2>4, <2>5, SnapshotMoves
<1>5. CASE job' = {[Running(r, "store") EXCEPT !.got = Collected(rows[r.target].type)]}
  <2>1. "store" \in Stages[r.op] BY DEF Stages
  <2>2. PICK got : got = Collected(rows[r.target].type) OBVIOUS
  <2>3. got \in Archive /\ Holds(got, rows[r.target].type, disk) BY <1>2, <1>3, <2>2, Readings
  <2>4. PICK k : /\ k = [Running(r, "store") EXCEPT !.got = got] /\ AtStage(k, r, "store")
                 /\ k.got = got /\ k.base = Nothing /\ k.aside = Nothing /\ k.placed = {}
    BY <2>1, <2>3, Collecting
  <2>5. job' = {k} /\ k \in Job(r) /\ k.req = r /\ k.at = "store"
    BY <1>5, <2>2, <2>4 DEF AtStage
  <2>6. Holds(k.got, TypeOf(k.req)', disk') BY <1>1, <2>3, <2>4, <2>5 DEF TypeOf
  <2>7. SnapshotOK(k)' BY <2>5, <2>6 DEF SnapshotOK
  <2>8. SwapOK(k)' /\ Ended(k)' BY <2>4, <2>5 DEF SwapOK, Ended
  <2> QED BY <1>1, <1>2, <2>5, <2>7, <2>8, SnapshotMoves
<1> QED BY <1>4, <1>5 DEF StartRestore

LEMMA StoreArchiveKeeps ==
  ASSUME IInv, StoreArchive, UNCHANGED plugins PROVE IInv'
<1>1. PICK j \in At("store") : archives' = archives \cup {j.got} /\ Goes(j, "index")
  BY DEF StoreArchive
<1>2. UNCHANGED <<queue, edits, faults, rows, disk>> BY DEF StoreArchive, profile
<1>3. /\ Asked(j.req) /\ j.req.op \in {"create", "restore"} /\ SnapshotOK(j) /\ j.at = "store"
      /\ j \in Job(j.req) /\ (j.req.op = "restore" => SwapOK(j))
  BY Operation
<1>4. "index" \in Stages[j.req.op] \cup {"done", "failed"} BY <1>3 DEF Stages
<1>5. PICK k : /\ job' = {k} /\ k.req = j.req /\ k.req \in owed /\ k \in Job(k.req)
               /\ k.at = "index" /\ k.n = 0 /\ Carries(k, j)
  BY <1>1, <1>4, GoesOn
<1>6. DiskTyped' /\ CountersTyped' BY <1>2, DiskStays, FaultCounts, History
<1>7. SnapshotsTyped'
  <2>1. j.got \in FileMap BY <1>3 DEF Job, Archive
  <2> QED BY <1>1, <1>2, <2>1 DEF IInv, Typed, SnapshotsTyped
<1>8. RowsStored' BY <1>1, <1>2 DEF IInv, RowsStored
<1>9. SnapshotOK(k)'
  <2>1. k.quiet => Holds(k.got, TypeOf(k.req)', disk')
    BY <1>2, <1>3, <1>5 DEF SnapshotOK, Carries, TypeOf
  <2>2. k.got \in archives' BY <1>1, <1>5 DEF Carries
  <2> QED BY <1>5, <2>1, <2>2 DEF SnapshotOK
<1>10. k.req.op = "restore" => SwapOK(k)' /\ Ended(k)'
  BY <1>3, <1>5 DEF SwapOK, Ended, Carries
<1> QED BY <1>2, <1>3, <1>5, <1>6, <1>7, <1>8, <1>9, <1>10, SnapshotKeeps

LEMMA IndexSnapshotKeeps ==
  ASSUME IInv, IndexSnapshot, UNCHANGED plugins PROVE IInv'
<1>1. PICK j \in At("index") :
        /\ rows' = Append(rows, [mut |-> Mutation(j.req), type |-> TypeOf(j.req), files |-> j.got])
        /\ job' = {[j EXCEPT !.at = IF j.req.op = "restore" THEN "open" ELSE "done", !.own = TRUE]}
  BY DEF IndexSnapshot
<1>2. UNCHANGED <<queue, edits, faults, archives, disk>> BY DEF IndexSnapshot, profile
<1>3. /\ Asked(j.req) /\ j.req.op \in {"create", "restore"} /\ SnapshotOK(j) /\ j.at = "index"
      /\ j \in Job(j.req) /\ j.req \in owed /\ (j.req.op = "restore" => SwapOK(j))
  BY Operation
<1>4. PICK stage : stage = IF j.req.op = "restore" THEN "open" ELSE "done" OBVIOUS
<1>5. stage \in Stages[j.req.op] \cup {"done", "failed"} BY <1>3, <1>4 DEF Stages
<1>6. PICK k : k = [j EXCEPT !.at = stage, !.own = TRUE] OBVIOUS
<1>7. /\ job' = {k} /\ k.req = j.req /\ k \in Job(k.req) /\ k.at = stage
      /\ k.got = j.got /\ k.base = j.base /\ k.aside = j.aside /\ k.placed = j.placed
      /\ k.quiet = j.quiet
  <2>1. job' = {k} BY <1>1, <1>4, <1>6
  <2>2. k \in Job(j.req) BY <1>3, <1>5, <1>6 DEF Job
  <2>3. /\ k.req = j.req /\ k.at = stage /\ k.got = j.got /\ k.base = j.base
        /\ k.aside = j.aside /\ k.placed = j.placed /\ k.quiet = j.quiet
    BY <1>3, <1>6 DEF Job
  <2> QED BY <2>1, <2>2, <2>3
<1>8. PICK row : row = [mut |-> Mutation(j.req), type |-> TypeOf(j.req), files |-> j.got]
  OBVIOUS
<1>9. /\ row \in RowSet /\ row.mut = Mutation(j.req) /\ row.type = TypeOf(j.req)
      /\ row.files = j.got
  <2>1. TypeOf(j.req) \in DOMAIN Scope
    BY <1>3, RowFacts DEF Asked, TypeOf
  <2>2. j.req.mut \in Nat BY <1>3, Bounds DEF Asked, IInv, Typed, CountersTyped
  <2>3. Mutation(j.req) \in Nat \X {"manual", "pre-restore"}
    BY <2>2 DEF Mutation, Manual, Protection
  <2>4. j.got \in Archive BY <1>3 DEF Job
  <2> QED BY <1>8, <2>1, <2>3, <2>4 DEF RowSet
<1>10. /\ rows' \in Seq(RowSet) /\ Len(rows) \in Nat
       /\ DOMAIN rows' = DOMAIN rows \cup {Len(rows) + 1}
       /\ \A i \in DOMAIN rows : rows'[i] = rows[i]
       /\ rows'[Len(rows) + 1] = row
  <2>1. rows \in Seq(RowSet) BY DEF IInv, Typed, SnapshotsTyped
  <2> QED BY <1>1, <1>8, <1>9, <2>1
<1>11. DiskTyped' /\ CountersTyped' BY <1>2, DiskStays, FaultCounts, History
<1>12. SnapshotsTyped' BY <1>2, <1>10 DEF IInv, Typed, SnapshotsTyped
<1>13. RowsStored'
  <2>1. j.got \in archives BY <1>3 DEF SnapshotOK
  <2> QED BY <1>2, <1>9, <1>10, <2>1 DEF IInv, RowsStored
<1>14. SnapshotOK(k)'
  <2>1. CASE j.req.op = "restore"
    <3>1. row.mut = Protection(k.req) BY <1>7, <1>9, <2>1 DEF Mutation
    <3>2. k.quiet => Holds(row.files, row.type, disk')
      BY <1>2, <1>3, <1>7, <1>9 DEF SnapshotOK
    <3>3. Guarded(k, disk)' BY <1>10, <3>1, <3>2 DEF Guarded
    <3> QED BY <1>4, <1>7, <2>1, <3>3 DEF SnapshotOK
  <2>2. CASE j.req.op # "restore" BY <1>4, <1>7, <2>2 DEF SnapshotOK
  <2> QED BY <2>1, <2>2
<1>15. k.req.op = "restore" => SwapOK(k)' /\ Ended(k)'
  BY <1>3, <1>4, <1>7 DEF SwapOK, Ended
<1> QED BY <1>2, <1>3, <1>7, <1>10, <1>11, <1>12, <1>13, <1>14, <1>15, SnapshotKeeps

LEMMA OpenArchiveKeeps ==
  ASSUME IInv, OpenArchive, UNCHANGED plugins PROVE IInv'
<1>1. PICK j \in At("open") :
        job' = {[j EXCEPT !.at = "swap", !.n = 0, !.got = rows[j.req.target].files,
                          !.base = Saved(disk)]}
  <2>1. PICK j \in At("open") :
          IF rows[j.req.target].files \in archives
          THEN job' = {[j EXCEPT !.at = "swap", !.n = 0, !.got = rows[j.req.target].files,
                                 !.base = Saved(disk)]}
          ELSE Throws(j)
    BY DEF OpenArchive
  <2>2. Asked(j.req) /\ j.req.op = "restore" BY Operation
  <2>3. rows[j.req.target].files \in archives BY <2>2, RowFacts
  <2> QED BY <2>1, <2>3
<1>2. UNCHANGED <<queue, edits, faults, snapshots, rows, disk>>
  BY DEF OpenArchive, profile, snapshots
<1>3. /\ Asked(j.req) /\ j.req.op = "restore" /\ SnapshotOK(j) /\ j.at = "open"
      /\ j \in Job(j.req) /\ j.req \in owed /\ SwapOK(j)
  BY Operation
<1>4. DiskTyped /\ DiskTyped' BY <1>2, DiskStays
<1>5. PICK got, base : got = rows[j.req.target].files /\ base = Saved(disk) OBVIOUS
<1>6. /\ got \in Archive /\ base \in FileMap /\ \A f \in SavedFile : base[f] = disk[f]
  BY <1>3, <1>4, <1>5, RowFacts, Readings
<1>7. PICK k : k = [j EXCEPT !.at = "swap", !.n = 0, !.got = got, !.base = base] OBVIOUS
<1>8. /\ job' = {k} /\ k.req = j.req /\ k \in Job(k.req) /\ k.at = "swap" /\ k.base = base
      /\ k.placed = {} /\ k.aside = Nothing /\ k.own = j.own /\ k.quiet = j.quiet
  <2>1. job' = {k} BY <1>1, <1>5, <1>7
  <2>2. 0 \in 0 .. Len(Order) /\ "swap" \in Stages[j.req.op] BY <1>3, Names4 DEF Stages
  <2>3. k \in Job(j.req) BY <1>3, <1>6, <1>7, <2>2 DEF Job
  <2>4. /\ k.req = j.req /\ k.at = "swap" /\ k.base = base /\ k.placed = j.placed
        /\ k.aside = j.aside /\ k.own = j.own /\ k.quiet = j.quiet
    BY <1>3, <1>7 DEF Job
  <2>5. j.placed = {} /\ j.aside = Nothing BY <1>3 DEF SwapOK
  <2> QED BY <2>1, <2>3, <2>4, <2>5
<1>9. SnapshotOK(k)'
  <2>1. PICK i \in DOMAIN rows :
          /\ rows[i].mut = Protection(j.req)
          /\ j.own /\ j.quiet => Holds(rows[i].files, rows[i].type, disk)
    BY <1>3 DEF SnapshotOK, Guarded
  <2>2. rows[i].type \in DOMAIN Scope
    <3>1. rows[i] \in RowSet BY <2>1 DEF IInv, Typed, SnapshotsTyped
    <3> QED BY <3>1 DEF RowSet
  <2>3. \A f \in Scope[rows[i].type] : base[f] = disk[f] BY <1>6, <2>2, Names4
  <2>4. j.own /\ j.quiet => Holds(rows[i].files, rows[i].type, base) BY <2>1, <2>3 DEF Holds
  <2>5. Guarded(k, k.base)' BY <1>2, <1>8, <2>1, <2>4 DEF Guarded
  <2> QED BY <1>8, <2>5 DEF SnapshotOK
<1>10. SwapOK(k)' /\ Ended(k)'
  <2>1. \A f \in SavedFile : k.aside[f] = {} BY <1>8, NothingTyped
  <2>2. \A f \in SavedFile : disk'[f] = Replaced(k, f) BY <1>2, <1>6, <1>8 DEF Replaced
  <2> QED BY <1>8, <2>1, <2>2 DEF SwapOK, Ended
<1> QED BY <1>2, <1>3, <1>4, <1>8, <1>9, <1>10, SnapshotMoves

\* The entry a restoration is at, and the last one it has put in place.
LEMMA EntryFacts ==
  ASSUME NEW j, Entries(j) # {}
  PROVE  /\ Entry(j) \in SavedFile /\ Entry(j) \in Scope.fleet
         /\ j.got[Entry(j)] # {} /\ Entry(j) \notin j.placed
<1>1. Entries(j) \subseteq {"manifest", "lock", "cordis"} BY Names4 DEF Entries
<1>2. Entry(j) \in Entries(j) BY <1>1 DEF Entry, First
<1> QED BY <1>2, Names4 DEF Entries

LEMMA LastFacts ==
  ASSUME NEW placed \in SUBSET Scope.fleet, placed # {}
  PROVE  Last(placed) \in placed /\ Last(placed) \in SavedFile
BY Names4 DEF Last

LEMMA SameEntries ==
  ASSUME NEW j, NEW k, k.got = j.got, k.placed = j.placed
  PROVE  Entries(k) = Entries(j) /\ Entry(k) = Entry(j)
BY DEF Entries, Entry

LEMMA EntryFailsKeeps ==
  ASSUME IInv, EntryFails, UNCHANGED plugins PROVE IInv'
<1>1. PICK j \in At("swap") : Goes(j, "unswap") /\ (Fault \/ UNCHANGED faults)
  BY DEF EntryFails
<1>2. UNCHANGED <<queue, edits, snapshots, disk>> BY DEF EntryFails, profile
<1>3. Asked(j.req) /\ j.req.op = "restore" /\ j.at = "swap" /\ SwapOK(j) BY Operation
<1>4. "unswap" \in Stages[j.req.op] \cup {"done", "failed"} BY <1>3 DEF Stages
<1>5. PICK k : /\ job' = {k} /\ k.req = j.req /\ k.req \in owed /\ k \in Job(k.req)
               /\ k.at = "unswap" /\ k.n = 0 /\ Carries(k, j)
  BY <1>1, <1>4, GoesOn
<1>6. DiskTyped' BY <1>2, DiskStays
<1>7. SnapshotOK(k)' BY <1>5 DEF SnapshotOK
<1>8. SwapOK(k)' /\ Ended(k)'
  <2>1. \A f \in k.placed : k.got[f] # {} /\ (k.quiet => k.aside[f] = k.base[f])
    BY <1>3, <1>5 DEF SwapOK, Carries
  <2>2. k.quiet => \A f \in SavedFile : disk'[f] = Replaced(k, f)
    BY <1>2, <1>3, <1>5 DEF SwapOK, Carries, Replaced
  <2> QED BY <1>5, <2>1, <2>2 DEF SwapOK, Ended
<1> QED BY <1>1, <1>2, <1>3, <1>5, <1>6, <1>7, <1>8, SnapshotMoves

LEMMA SetAsideKeeps ==
  ASSUME IInv, SetAside, UNCHANGED plugins PROVE IInv'
<1>1. PICK j \in At("swap") :
        /\ Entries(j) # {}
        /\ job' = {[j EXCEPT !.at = "place", !.aside[Entry(j)] = disk[Entry(j)]]}
        /\ disk' = [disk EXCEPT ![Entry(j)] = {}]
  BY DEF SetAside
<1>2. UNCHANGED <<queue, edits, faults, snapshots, rows>> BY DEF SetAside, snapshots
<1>3. /\ Asked(j.req) /\ j.req.op = "restore" /\ j.at = "swap" /\ SwapOK(j) /\ SnapshotOK(j)
      /\ j \in Job(j.req) /\ j.req \in owed
  BY Operation
<1>4. PICK e : e = Entry(j) OBVIOUS
<1>5. e \in SavedFile /\ e \notin j.placed BY <1>1, <1>4, EntryFacts
<1>6. DiskTyped BY DEF IInv, Typed
<1>7. /\ DiskTyped' /\ disk'[e] = {} /\ disk[e] \in Slot
      /\ \A f \in SavedFile \cup {"modules"} : f # e => disk'[f] = disk[f]
  <2>1. {} \in Slot /\ disk' = [disk EXCEPT ![e] = {}] BY <1>1, <1>4 DEF Slot
  <2>2. disk[e] \in Slot BY <1>5, <1>6 DEF DiskTyped
  <2> QED BY <1>5, <1>6, <2>1, <2>2, Replacing
<1>8. PICK aside : aside = [j.aside EXCEPT ![e] = disk[e]] OBVIOUS
<1>9. /\ aside \in FileMap /\ aside[e] = disk[e]
      /\ \A f \in SavedFile : f # e => aside[f] = j.aside[f]
  <2>1. j.aside \in FileMap BY <1>3 DEF Job
  <2> QED BY <1>5, <1>7, <1>8, <2>1 DEF FileMap
<1>10. PICK k : k = [j EXCEPT !.at = "place", !.aside = aside] OBVIOUS
<1>11. /\ job' = {k} /\ k.req = j.req /\ k \in Job(k.req) /\ k.at = "place" /\ k.aside = aside
       /\ k.got = j.got /\ k.base = j.base /\ k.placed = j.placed /\ k.own = j.own
       /\ k.quiet = j.quiet
  <2>1. job' = {k} BY <1>1, <1>3, <1>4, <1>8, <1>10 DEF Job
  <2>2. "place" \in Stages[j.req.op] BY <1>3 DEF Stages
  <2>3. k \in Job(j.req) BY <1>3, <1>9, <1>10, <2>2 DEF Job
  <2>4. /\ k.req = j.req /\ k.at = "place" /\ k.aside = aside /\ k.got = j.got
        /\ k.base = j.base /\ k.placed = j.placed /\ k.own = j.own /\ k.quiet = j.quiet
    BY <1>3, <1>10 DEF Job
  <2> QED BY <2>1, <2>3, <2>4
<1>12. SnapshotOK(k)'
  <2>1. Guarded(k, k.base)' BY <1>2, <1>3, <1>11 DEF SnapshotOK, Guarded
  <2> QED BY <1>11, <2>1 DEF SnapshotOK
<1>13. SwapOK(k)' /\ Ended(k)'
  <2>1. Entries(k) = Entries(j) /\ Entry(k) = e BY <1>4, <1>11, SameEntries
  <2>2. \A f \in k.placed : k.got[f] # {} /\ (k.quiet => k.aside[f] = k.base[f])
    <3>1. k.placed \subseteq SavedFile BY <1>11, Names4 DEF Job
    <3> QED BY <1>3, <1>5, <1>9, <1>11, <3>1 DEF SwapOK
  <2>3. k.quiet => k.aside[e] = k.base[e]
    BY <1>3, <1>5, <1>9, <1>11 DEF SwapOK, Replaced
  <2>4. k.quiet => \A f \in SavedFile \ {e} : disk'[f] = Replaced(k, f)
    BY <1>3, <1>7, <1>11 DEF SwapOK, Replaced
  <2>5. \A f \in SavedFile \ k.placed : f # e => k.aside[f] = {}
    BY <1>3, <1>9, <1>11 DEF SwapOK
  <2> QED BY <1>1, <1>7, <1>11, <2>1, <2>2, <2>3, <2>4, <2>5 DEF SwapOK, Ended
<1> QED BY <1>2, <1>3, <1>7, <1>11, <1>12, <1>13, SnapshotMoves

LEMMA PlaceKeeps ==
  ASSUME IInv, Place, UNCHANGED plugins PROVE IInv'
<1>1. PICK stage \in {"place", "swap"} : \E j \in At(stage) :
        /\ stage = "swap" => Entries(j) # {} /\ ~Existed(j, Entry(j))
        /\ disk' = [disk EXCEPT ![Entry(j)] = j.got[Entry(j)]]
        /\ job' = {[j EXCEPT !.at = "swap", !.placed = @ \cup {Entry(j)}]}
  BY DEF Place
<1>2. PICK j \in At(stage) :
        /\ stage = "swap" => Entries(j) # {} /\ ~Existed(j, Entry(j))
        /\ disk' = [disk EXCEPT ![Entry(j)] = j.got[Entry(j)]]
        /\ job' = {[j EXCEPT !.at = "swap", !.placed = @ \cup {Entry(j)}]}
  BY <1>1
<1>3. UNCHANGED <<queue, edits, faults, snapshots, rows>> BY DEF Place, snapshots
<1>4. /\ Asked(j.req) /\ j.req.op = "restore" /\ j.at = stage /\ SwapOK(j) /\ SnapshotOK(j)
      /\ j \in Job(j.req) /\ j.req \in owed
  BY Operation
<1>5. Entries(j) # {} BY <1>2, <1>4 DEF SwapOK
<1>6. PICK e : e = Entry(j) OBVIOUS
<1>7. e \in SavedFile /\ e \in Scope.fleet /\ e \notin j.placed /\ j.got[e] # {}
  BY <1>5, <1>6, EntryFacts
<1>8. j.got \in FileMap /\ j.got[e] \in Slot BY <1>4, <1>7 DEF Job, Archive, FileMap
<1>9. /\ DiskTyped' /\ disk'[e] = j.got[e]
      /\ \A f \in SavedFile \cup {"modules"} : f # e => disk'[f] = disk[f]
  <2>1. PICK s : s = j.got[e] OBVIOUS
  <2>2. disk' = [disk EXCEPT ![e] = s] BY <1>2, <1>6, <2>1
  <2>3. DiskTyped BY DEF IInv, Typed
  <2> QED BY <1>7, <1>8, <2>1, <2>2, <2>3, Replacing
<1>10. PICK k : k = [j EXCEPT !.at = "swap", !.placed = @ \cup {e}] OBVIOUS
<1>11. /\ job' = {k} /\ k.req = j.req /\ k \in Job(k.req) /\ k.at = "swap" /\ k.aside = j.aside
       /\ k.got = j.got /\ k.base = j.base /\ k.placed = j.placed \cup {e} /\ k.own = j.own
       /\ k.quiet = j.quiet
  <2>1. job' = {k} BY <1>2, <1>6, <1>10
  <2>2. "swap" \in Stages[j.req.op] BY <1>4 DEF Stages
  <2>3. k \in Job(j.req) BY <1>4, <1>7, <1>10, <2>2 DEF Job
  <2>4. /\ k.req = j.req /\ k.at = "swap" /\ k.aside = j.aside /\ k.got = j.got
        /\ k.base = j.base /\ k.placed = j.placed \cup {e} /\ k.own = j.own /\ k.quiet = j.quiet
    BY <1>4, <1>10 DEF Job
  <2> QED BY <2>1, <2>3, <2>4
<1>12. SnapshotOK(k)'
  <2>1. Guarded(k, k.base)' BY <1>3, <1>4, <1>11 DEF SnapshotOK, Guarded
  <2> QED BY <1>11, <2>1 DEF SnapshotOK
<1>13. /\ j.quiet => j.aside[e] = j.base[e]
       /\ \A f \in SavedFile : f # e /\ f \notin j.placed => j.aside[f] = {}
  <2>1. CASE stage = "place" BY <1>4, <1>6, <2>1 DEF SwapOK
  <2>2. CASE stage = "swap"
    <3>1. j.base[e] = {} BY <1>2, <1>6, <2>2 DEF Existed
    <3> QED BY <1>4, <1>7, <2>2, <3>1 DEF SwapOK
  <2> QED BY <2>1, <2>2
<1>14. j.quiet => \A f \in SavedFile : f # e => disk[f] = Replaced(j, f)
  BY <1>4, <1>6 DEF SwapOK
<1>15. SwapOK(k)' /\ Ended(k)'
  <2>1. \A f \in k.placed : k.got[f] # {} /\ (k.quiet => k.aside[f] = k.base[f])
    BY <1>4, <1>7, <1>11, <1>13 DEF SwapOK
  <2>2. \A f \in SavedFile \ k.placed : k.aside[f] = {} BY <1>11, <1>13
  <2>3. k.quiet => \A f \in SavedFile : disk'[f] = Replaced(k, f)
    BY <1>9, <1>11, <1>14 DEF Replaced
  <2> QED BY <1>11, <2>1, <2>2, <2>3 DEF SwapOK, Ended
<1> QED BY <1>3, <1>4, <1>9, <1>11, <1>12, <1>15, SnapshotMoves

LEMMA PlaceFailsKeeps ==
  ASSUME IInv, PlaceFails, UNCHANGED plugins PROVE IInv'
<1>1. PICK j \in At("place") :
        /\ Fault
        /\ \/ Goes(j, "unswap") /\ disk' = [disk EXCEPT ![Entry(j)] = j.aside[Entry(j)]]
           \/ UNCHANGED disk /\ job' = {[j EXCEPT !.at = "unswap", !.quiet = FALSE]}
  BY DEF PlaceFails
<1>2. UNCHANGED <<queue, edits, snapshots>> BY DEF PlaceFails
<1>3. /\ Asked(j.req) /\ j.req.op = "restore" /\ j.at = "place" /\ SwapOK(j)
      /\ j \in Job(j.req) /\ j.req \in owed /\ "unswap" \in Stages[j.req.op]
  BY Operation DEF Stages
<1>4. CASE Goes(j, "unswap") /\ disk' = [disk EXCEPT ![Entry(j)] = j.aside[Entry(j)]]
  <2>1. PICK k : /\ job' = {k} /\ k.req = j.req /\ k.req \in owed /\ k \in Job(k.req)
                 /\ k.at = "unswap" /\ k.n = 0 /\ Carries(k, j)
    BY <1>3, <1>4, GoesOn
  <2>2. PICK e, s : e = Entry(j) /\ s = j.aside[e] OBVIOUS
  <2>3. e \in SavedFile /\ e \notin j.placed BY <1>3, <2>2, EntryFacts DEF SwapOK
  <2>4. s \in Slot BY <1>3, <2>2, <2>3 DEF Job, FileMap
  <2>5. /\ DiskTyped' /\ disk'[e] = s
        /\ \A f \in SavedFile \cup {"modules"} : f # e => disk'[f] = disk[f]
    <3>1. disk' = [disk EXCEPT ![e] = s] /\ DiskTyped BY <1>4, <2>2 DEF IInv, Typed
    <3> QED BY <2>3, <2>4, <3>1, Replacing
  <2>6. SnapshotOK(k)' BY <2>1 DEF SnapshotOK
  <2>7. \A f \in k.placed : k.got[f] # {} /\ (k.quiet => k.aside[f] = k.base[f])
    BY <1>3, <2>1 DEF SwapOK, Carries
  <2>8. k.quiet => disk'[e] = k.base[e]
    BY <1>3, <2>1, <2>2, <2>5 DEF SwapOK, Carries
  <2>9. k.quiet => \A f \in SavedFile : f # e => disk[f] = Replaced(j, f)
    BY <1>3, <2>1, <2>2 DEF SwapOK, Carries
  <2>10. k.quiet => \A f \in SavedFile : disk'[f] = Replaced(k, f)
    BY <2>1, <2>3, <2>5, <2>8, <2>9 DEF Carries, Replaced
  <2>11. SwapOK(k)' /\ Ended(k)' BY <2>1, <2>7, <2>10 DEF SwapOK, Ended
  <2> QED BY <1>1, <1>2, <1>3, <2>1, <2>5, <2>6, <2>11, SnapshotMoves
<1>5. CASE UNCHANGED disk /\ job' = {[j EXCEPT !.at = "unswap", !.quiet = FALSE]}
  <2>1. PICK k : k = [j EXCEPT !.at = "unswap", !.quiet = FALSE] OBVIOUS
  <2>2. /\ job' = {k} /\ k.req = j.req /\ k \in Job(k.req) /\ k.at = "unswap"
        /\ k.got = j.got /\ k.placed = j.placed /\ ~k.quiet
    BY <1>3, <1>5, <2>1 DEF Job
  <2>3. DiskTyped' BY <1>5, DiskStays
  <2>4. SnapshotOK(k)' BY <2>2 DEF SnapshotOK
  <2>5. SwapOK(k)' /\ Ended(k)' BY <1>3, <2>2 DEF SwapOK, Ended
  <2> QED BY <1>1, <1>2, <1>3, <2>2, <2>3, <2>4, <2>5, SnapshotMoves
<1> QED BY <1>1, <1>4, <1>5

LEMMA UnswapKeeps ==
  ASSUME IInv, Unswap, UNCHANGED plugins PROVE IInv'
<1>1. PICK j \in At("unswap") :
        \/ j.placed = {} /\ Throws(j) /\ UNCHANGED <<disk, faults>>
        \/ /\ j.placed # {}
           /\ \/ /\ job' = {[j EXCEPT !.placed = @ \ {Last(j.placed)}]}
                 /\ disk' = [disk EXCEPT ![Last(j.placed)] = j.aside[Last(j.placed)]]
                 /\ UNCHANGED faults
              \/ /\ job' = {[j EXCEPT !.placed = @ \ {Last(j.placed)}, !.quiet = FALSE]}
                 /\ Fault /\ disk' = [disk EXCEPT ![Last(j.placed)] = {}]
  BY DEF Unswap
<1>2. UNCHANGED <<queue, edits, snapshots>> BY DEF Unswap
<1>3. /\ Asked(j.req) /\ j.req.op = "restore" /\ j.at = "unswap" /\ SwapOK(j)
      /\ j \in Job(j.req) /\ j.req \in owed
  BY Operation
<1>4. CASE j.placed = {} /\ Throws(j) /\ UNCHANGED <<disk, faults>>
  <2>1. PICK k : /\ job' = {k} /\ k.req = j.req /\ k.req \in owed /\ k \in Job(k.req)
                 /\ k.at = "failed" /\ k.n = 0 /\ Carries(k, j)
    BY <1>4, GoesOn DEF Throws
  <2>2. DiskTyped' BY <1>4, DiskStays
  <2>3. SnapshotOK(k)' /\ SwapOK(k)' BY <2>1 DEF SnapshotOK, SwapOK
  <2>4. Ended(k)'
    <3>1. k.quiet => \A f \in SavedFile : disk'[f] = k.base[f]
      BY <1>3, <1>4, <2>1 DEF SwapOK, Carries, Replaced
    <3> QED BY <3>1 DEF Ended
  <2> QED BY <1>2, <1>3, <1>4, <2>1, <2>2, <2>3, <2>4, SnapshotMoves
<1>5. ASSUME j.placed # {} PROVE Last(j.placed) \in j.placed /\ Last(j.placed) \in SavedFile
  BY <1>3, <1>5, LastFacts DEF Job
<1>6. ASSUME j.placed # {}, NEW s \in Slot, NEW quiet \in BOOLEAN,
             job' = {[j EXCEPT !.placed = @ \ {Last(j.placed)}, !.quiet = quiet]},
             disk' = [disk EXCEPT ![Last(j.placed)] = s], Fault \/ UNCHANGED faults,
             quiet => j.quiet /\ s = j.aside[Last(j.placed)]
      PROVE  IInv'
  <2>1. PICK e : e = Last(j.placed) OBVIOUS
  <2>2. e \in j.placed /\ e \in SavedFile BY <1>5, <1>6, <2>1
  <2>3. PICK k : k = [j EXCEPT !.placed = @ \ {e}, !.quiet = quiet] OBVIOUS
  <2>4. /\ job' = {k} /\ k.req = j.req /\ k \in Job(k.req) /\ k.at = "unswap"
        /\ k.got = j.got /\ k.base = j.base /\ k.aside = j.aside
        /\ k.placed = j.placed \ {e} /\ k.quiet = quiet
    <3>1. job' = {k} BY <1>6, <2>1, <2>3
    <3>2. k \in Job(j.req) BY <1>3, <2>3 DEF Job
    <3>3. /\ k.req = j.req /\ k.at = "unswap" /\ k.got = j.got /\ k.base = j.base
          /\ k.aside = j.aside /\ k.placed = j.placed \ {e} /\ k.quiet = quiet
      BY <1>3, <2>3 DEF Job
    <3> QED BY <3>1, <3>2, <3>3
  <2>5. /\ DiskTyped' /\ disk'[e] = s
        /\ \A f \in SavedFile \cup {"modules"} : f # e => disk'[f] = disk[f]
    <3>1. disk' = [disk EXCEPT ![e] = s] /\ DiskTyped BY <1>6, <2>1 DEF IInv, Typed
    <3> QED BY <2>2, <3>1, Replacing
  <2>6. SnapshotOK(k)' BY <2>4 DEF SnapshotOK
  <2>7. \A f \in k.placed : k.got[f] # {} /\ (k.quiet => k.aside[f] = k.base[f])
    BY <1>3, <1>6, <2>4 DEF SwapOK
  <2>8. quiet => disk'[e] = k.base[e] BY <1>3, <1>6, <2>1, <2>2, <2>4, <2>5 DEF SwapOK
  <2>9. quiet => \A f \in SavedFile : disk[f] = Replaced(j, f) BY <1>3, <1>6 DEF SwapOK
  <2>10. k.quiet => \A f \in SavedFile : disk'[f] = Replaced(k, f)
    BY <2>4, <2>5, <2>8, <2>9 DEF Replaced
  <2>11. SwapOK(k)' /\ Ended(k)' BY <2>4, <2>7, <2>10 DEF SwapOK, Ended
  <2> QED BY <1>2, <1>3, <1>6, <2>4, <2>5, <2>6, <2>11, SnapshotMoves
<1>7. ASSUME j.placed # {}, UNCHANGED faults,
             job' = {[j EXCEPT !.placed = @ \ {Last(j.placed)}]},
             disk' = [disk EXCEPT ![Last(j.placed)] = j.aside[Last(j.placed)]]
      PROVE  IInv'
  <2>1. PICK quiet : quiet = j.quiet OBVIOUS
  <2>2. quiet \in BOOLEAN BY <1>3, <2>1 DEF Job
  <2>3. [j EXCEPT !.placed = @ \ {Last(j.placed)}, !.quiet = quiet]
        = [j EXCEPT !.placed = @ \ {Last(j.placed)}]
    BY <1>3, <2>1 DEF Job
  <2>4. PICK s : s = j.aside[Last(j.placed)] OBVIOUS
  <2>5. s \in Slot BY <1>3, <1>5, <1>7, <2>4 DEF Job, FileMap
  <2>6. job' = {[j EXCEPT !.placed = @ \ {Last(j.placed)}, !.quiet = quiet]} BY <1>7, <2>3
  <2> QED BY <1>6, <1>7, <2>1, <2>2, <2>4, <2>5, <2>6
<1>8. ASSUME j.placed # {}, Fault,
             job' = {[j EXCEPT !.placed = @ \ {Last(j.placed)}, !.quiet = FALSE]},
             disk' = [disk EXCEPT ![Last(j.placed)] = {}]
      PROVE  IInv'
  <2>1. {} \in Slot BY DEF Slot
  <2> QED BY <1>6, <1>8, <2>1
<1> QED BY <1>1, <1>4, <1>7, <1>8

LEMMA DropAsideKeeps ==
  ASSUME IInv, DropAside, UNCHANGED plugins PROVE IInv'
<1>1. PICK j \in At("swap") : \E stage \in {"done", "failed"} :
        /\ Entries(j) = {} /\ Goes(j, stage)
        /\ Fault \/ UNCHANGED faults
  BY DEF DropAside, Succeeds, Throws
<1>2. PICK stage \in {"done", "failed"} :
        /\ Entries(j) = {} /\ Goes(j, stage)
        /\ Fault \/ UNCHANGED faults
  BY <1>1
<1>3. UNCHANGED <<queue, edits, snapshots, disk>> BY DEF DropAside, profile
<1>4. /\ Asked(j.req) /\ j.req.op = "restore" /\ j.at = "swap" /\ SwapOK(j)
      /\ j \in Job(j.req)
  BY Operation
<1>5. stage \in Stages[j.req.op] \cup {"done", "failed"} OBVIOUS
<1>6. PICK k : /\ job' = {k} /\ k.req = j.req /\ k.req \in owed /\ k \in Job(k.req)
               /\ k.at = stage /\ k.n = 0 /\ Carries(k, j)
  BY <1>2, <1>5, GoesOn
<1>7. DiskTyped' BY <1>3, DiskStays
<1>8. SnapshotOK(k)' /\ SwapOK(k)' BY <1>6 DEF SnapshotOK, SwapOK
<1>9. Ended(k)'
  <2>1. k.quiet => \A f \in SavedFile : disk'[f] = Replaced(j, f)
    BY <1>3, <1>4, <1>6 DEF SwapOK, Carries
  <2>2. ASSUME NEW f \in SavedFile
        PROVE  Replaced(j, f) = IF j.got[f] # {} THEN j.got[f] ELSE j.base[f]
    <3>1. CASE f \in j.placed BY <1>4, <3>1 DEF SwapOK, Replaced
    <3>2. CASE f \notin j.placed
      <4>1. j.got["managed"] = {} BY <1>4 DEF Job, Archive
      <4>2. j.got[f] = {} BY <1>2, <2>2, <3>2, <4>1, Names4 DEF Entries
      <4> QED BY <3>2, <4>2 DEF Replaced
    <3> QED BY <3>1, <3>2
  <2> QED BY <1>6, <2>1, <2>2 DEF Ended, Carries
<1> QED BY <1>2, <1>3, <1>4, <1>6, <1>7, <1>8, <1>9, SnapshotMoves

LEMMA StartWriteKeeps ==
  ASSUME IInv, NEW r \in owed, r.op = "write", StartWrite(r), UNCHANGED plugins
  PROVE  IInv'
<1>1. PICK stage \in {"write", "failed"} : job' = {Running(r, stage)} BY DEF StartWrite
<1>2. stage \in Stages[r.op] \cup {"done", "failed"} BY DEF Stages
<1>3. PICK k : k = Running(r, stage) /\ AtStage(k, r, stage) /\ k.n = 0 /\ Fresh(k)
  BY <1>2, Begun
<1>4. job' = {k} /\ k \in Job(r) /\ k.req = r BY <1>1, <1>3 DEF AtStage
<1>5. UNCHANGED <<queue, edits, faults, snapshots, disk>> BY DEF StartWrite, profile
<1>6. DiskTyped' BY <1>5, DiskStays
<1> QED BY <1>4, <1>5, <1>6, SnapshotMoves

LEMMA WriteFileKeeps ==
  ASSUME IInv, WriteFile, UNCHANGED plugins PROVE IInv'
<1>1. PICK j \in At("write") :
        \/ disk' = [disk EXCEPT !["cordis"] = Composition(j.req.to)] /\ Succeeds(j) /\ UNCHANGED faults
        \/ Fault /\ Throws(j) /\ UNCHANGED disk
  BY DEF WriteFile
<1>2. UNCHANGED <<queue, edits, snapshots>> BY DEF WriteFile
<1>3. Asked(j.req) /\ j.req.op = "write" BY Operation
<1>4. PICK stage \in {"done", "failed"} : Goes(j, stage) BY <1>1 DEF Succeeds, Throws
<1>5. stage \in Stages[j.req.op] \cup {"done", "failed"} OBVIOUS
<1>6. PICK k : /\ job' = {k} /\ k.req = j.req /\ k.req \in owed /\ k \in Job(k.req)
               /\ k.at = stage /\ k.n = 0 /\ Carries(k, j)
  BY <1>4, <1>5, GoesOn
<1>7. DiskTyped'
  <2>1. CASE disk' = [disk EXCEPT !["cordis"] = Composition(j.req.to)]
    <3>1. Composition(j.req.to) \in Slot BY <1>3, CompositionTyped DEF Asked
    <3>2. DiskTyped /\ "cordis" \in SavedFile BY Names4 DEF IInv, Typed
    <3> QED BY <2>1, <3>1, <3>2, Replacing
  <2>2. CASE UNCHANGED disk BY <2>2, DiskStays
  <2> QED BY <1>1, <2>1, <2>2
<1> QED BY <1>1, <1>2, <1>3, <1>6, <1>7, SnapshotMoves

LEMMA SnapshotStepKeeps ==
  ASSUME IInv, SnapshotStep, UNCHANGED plugins PROVE IInv'
BY StoreArchiveKeeps, IndexSnapshotKeeps, OpenArchiveKeeps, EntryFailsKeeps, SetAsideKeeps,
   PlaceKeeps, PlaceFailsKeeps, UnswapKeeps, DropAsideKeeps, WriteFileKeeps DEF SnapshotStep

-----------------------------------------------------------------------------
(* The queue, the process and its surroundings *)

LEMMA DispatchKeeps ==
  ASSUME IInv, NEW r, Dispatch(r) PROVE IInv'
<1>1. r \in owed BY DEF Dispatch
<1> QED BY <1>1, StartApplyKeeps, RepeatApplyKeeps, StartRollbackKeeps, StartCreateKeeps,
           StartRestoreKeeps, StartWriteKeeps DEF Dispatch

\* Nothing runs any more, and no request is added.
LEMMA EndKeeps ==
  ASSUME IInv, job' = {}, owed' \subseteq owed, requests' = requests, UNCHANGED profile,
         Fault \/ UNCHANGED faults, UNCHANGED <<changes, kept, guard, snapshots>>,
         artifacts' \in [Plugins \X Version -> {"absent", "torn", "whole"}]
  PROVE  IInv'
<1>1. /\ CountersTyped /\ OwedTyped /\ HistoryTyped /\ ChangesKept /\ ChangesApart
      /\ SnapshotsTyped /\ RowsStored
  BY DEF IInv, Typed
<1>2. edits' = edits /\ disk' = disk /\ rows' = rows BY DEF profile, snapshots
<1>3. CountersTyped' BY <1>1, <1>2, FaultCounts
<1>4. OwedTyped' BY <1>1, <1>2, OwedStays
<1>5. SnapshotsTyped' /\ RowsStored' BY <1>1, SnapshotsStay
<1>6. HistoryTyped' BY <1>1 DEF HistoryTyped
<1>7. ChangesKept' BY <1>1 DEF ChangesKept
<1>8. ChangesApart' BY <1>1 DEF ChangesApart
<1>9. DiskTyped' BY <1>2, DiskStays
<1>10. JobTyped' /\ \A j \in job' : JobOK(j)' BY DEF JobTyped
<1> QED BY <1>3, <1>4, <1>5, <1>6, <1>7, <1>8, <1>9, <1>10 DEF IInv, Typed

LEMMA ReplyKeeps ==
  ASSUME IInv, Reply, UNCHANGED <<plugins, snapshots>> PROVE IInv'
<1>1. job' = {} /\ owed' \subseteq owed /\ UNCHANGED <<profile, requests, faults>> BY DEF Reply
<1>2. UNCHANGED <<changes, kept, guard, artifacts>> BY DEF plugins
<1>3. artifacts \in [Plugins \X Version -> {"absent", "torn", "whole"}]
  BY DEF IInv, Typed, HistoryTyped
<1> QED BY <1>1, <1>2, <1>3, EndKeeps

LEMMA CrashKeeps ==
  ASSUME IInv, Crash PROVE IInv'
<1>1. /\ Fault /\ job' = {} /\ owed' \subseteq owed
      /\ UNCHANGED <<profile, requests, changes, kept, guard, snapshots>>
  BY DEF Crash
<1>2. artifacts \in [Plugins \X Version -> {"absent", "torn", "whole"}]
  BY DEF IInv, Typed, HistoryTyped
<1>3. artifacts' \in [Plugins \X Version -> {"absent", "torn", "whole"}]
  BY <1>2 DEF Crash
<1> QED BY <1>1, <1>3, EndKeeps

LEMMA EditKeeps ==
  ASSUME IInv, Edit, UNCHANGED <<plugins, snapshots>> PROVE IInv'
<1>1. /\ edits < MaxEdits /\ edits' = edits + 1 /\ UNCHANGED <<queue, faults>>
      /\ job' = {[j EXCEPT !.quiet = FALSE] : j \in job}
  BY DEF Edit
<1>2. PICK j \in job : j.req.op \in {"create", "restore", "write"} BY DEF Edit
<1>3. PICK v \in {0, 1} : disk' = [disk EXCEPT !["cordis"] = Composition(v)] BY DEF Edit
<1>4. job = {j} /\ j.req \in owed /\ j \in Job(j.req) BY JobFacts DEF IInv, Typed
<1>5. PICK k : k = [j EXCEPT !.quiet = FALSE] OBVIOUS
<1>6. /\ job' = {k} /\ k.req = j.req /\ k.req \in owed /\ k \in Job(k.req) /\ k.at = j.at
      /\ k.got = j.got /\ k.base = j.base /\ k.aside = j.aside /\ k.placed = j.placed
      /\ ~k.quiet
  <2>1. job' = {k} BY <1>1, <1>4, <1>5
  <2>2. k \in Job(j.req) BY <1>4, <1>5 DEF Job
  <2>3. /\ k.req = j.req /\ k.at = j.at /\ k.got = j.got /\ k.base = j.base
        /\ k.aside = j.aside /\ k.placed = j.placed /\ ~k.quiet
    BY <1>4, <1>5 DEF Job
  <2> QED BY <1>4, <2>1, <2>2, <2>3
<1>7. DiskTyped'
  <2>1. Composition(v) \in Slot BY CompositionTyped, Bounds
  <2>2. DiskTyped /\ "cordis" \in SavedFile BY Names4 DEF IInv, Typed
  <2> QED BY <1>3, <2>1, <2>2, Replacing
<1>8. CountersTyped'
  <2>1. requests' = requests /\ faults' = faults BY <1>1 DEF queue
  <2> QED BY <1>1, <2>1, Bounds DEF IInv, Typed, CountersTyped
<1>9. SnapshotsTyped' /\ RowsStored' /\ rows' = rows /\ archives' = archives
  BY SnapshotsStay DEF IInv, Typed, snapshots
<1>10. JobOK(j) BY DEF IInv
<1>11. k.req.op # "write" => SnapshotOK(k)'
  <2>1. SUFFICES ASSUME j.req.op \in {"create", "restore"} PROVE SnapshotOK(k)'
    BY <1>2, <1>6
  <2>2. SnapshotOK(j) BY <1>10, <2>1 DEF JobOK
  <2>3. j.at = "open" /\ j.req.op = "restore" => Guarded(k, disk)'
    BY <1>6, <1>9, <2>2 DEF SnapshotOK, Guarded
  <2>4. j.at \in {"swap", "place"} /\ j.req.op = "restore" => Guarded(k, k.base)'
    BY <1>6, <1>9, <2>2 DEF SnapshotOK, Guarded
  <2> QED BY <1>6, <1>9, <2>2, <2>3, <2>4 DEF SnapshotOK
<1>12. k.req.op = "restore" => SwapOK(k)' /\ Ended(k)'
  <2>1. SUFFICES ASSUME j.req.op = "restore" PROVE SwapOK(k)' /\ Ended(k)' BY <1>6
  <2>2. SwapOK(j) BY <1>10, <2>1 DEF JobOK
  <2>3. Entries(k) = Entries(j) /\ Entry(k) = Entry(j) BY <1>6, SameEntries
  <2> QED BY <1>6, <2>2, <2>3 DEF SwapOK, Ended
<1> QED BY <1>1, <1>2, <1>6, <1>7, <1>8, <1>9, <1>11, <1>12, SnapshotKeeps

\* A request that reaches the inbox.
LEMMA SubmitKeeps ==
  ASSUME IInv, NEW r, Submit(r), UNCHANGED <<plugins, snapshots>>,
         NEW q, q = [r EXCEPT !.mut = requests + 1],
         requests < MaxRequests => Asked(q)'
  PROVE  IInv'
<1>1. /\ requests < MaxRequests /\ requests' = requests + 1 /\ owed' = owed \cup {q}
      /\ UNCHANGED <<profile, job, faults>>
  BY DEF Submit
<1>2. UNCHANGED <<disk, edits, changes, kept, guard, artifacts, rows, archives>>
  BY <1>1 DEF profile, plugins, snapshots
<1>3. /\ CountersTyped /\ OwedTyped /\ HistoryTyped /\ ChangesKept /\ ChangesApart
      /\ SnapshotsTyped /\ RowsStored /\ JobTyped
  BY DEF IInv, Typed
<1>4. CountersTyped' /\ requests' \in Nat /\ requests \in Nat /\ requests <= requests'
  BY <1>1, <1>2, <1>3, Bounds DEF CountersTyped
<1>5. OwedTyped'
  <2>1. \A x \in owed : Asked(x)'
    BY <1>2, <1>3, <1>4, AskedStays DEF OwedTyped
  <2> QED BY <1>1, <2>1 DEF OwedTyped
<1>6. SnapshotsTyped' /\ RowsStored' BY <1>3, SnapshotsStay
<1>7. HistoryTyped' /\ ChangesKept' /\ ChangesApart' BY <1>2, <1>3, <1>4, HistoryStays
<1>8. DiskTyped' BY <1>2, DiskStays
<1>9. JobTyped' BY <1>1, <1>3 DEF JobTyped
<1>10. ASSUME NEW j \in job' PROVE JobOK(j)'
  <2>1. JobOK(j) BY <1>1 DEF IInv
  <2>2. j.req.op = "apply" => ApplyOK(j)'
    BY <1>2, <2>1 DEF JobOK, ApplyOK, Prior, Current
  <2>3. j.req.op = "rollback" => RollbackOK(j)' BY <1>2, <2>1 DEF JobOK, RollbackOK
  <2>4. j.req.op \in {"create", "restore"} => SnapshotOK(j)'
    BY <1>2, <2>1 DEF JobOK, SnapshotOK, Guarded, TypeOf
  <2>5. j.req.op = "restore" => SwapOK(j)' /\ Ended(j)'
    BY <1>2, <2>1 DEF JobOK, SwapOK, Ended
  <2> QED BY <2>2, <2>3, <2>4, <2>5 DEF JobOK
<1> QED BY <1>4, <1>5, <1>6, <1>7, <1>8, <1>9, <1>10 DEF IInv, Typed

LEMMA AskKeeps ==
  ASSUME IInv, Ask PROVE IInv'
<1>1. UNCHANGED <<plugins, snapshots>> BY DEF Ask
<1>2. UNCHANGED <<changes, rows>> BY <1>1 DEF plugins, snapshots
<1>3. requests \in Nat /\ Version \subseteq Nat BY Bounds DEF IInv, Typed, CountersTyped, Version
<1>4. CASE AskApply
  <2>1. PICK p \in Plugins, v \in Version \ {0, 1} :
          Submit([Blank EXCEPT !.op = "apply", !.plugin = p, !.to = v, !.expect = LockHash(disk)])
    BY <1>4 DEF AskApply
  <2>2. PICK r : r = [Blank EXCEPT !.op = "apply", !.plugin = p, !.to = v,
                                   !.expect = LockHash(disk)]
    OBVIOUS
  <2>3. PICK q : q = [r EXCEPT !.mut = requests + 1] OBVIOUS
  <2>4. /\ DOMAIN q = Fields /\ q.mut = requests + 1 /\ q.op = "apply" /\ q.plugin = p
        /\ q.to = v
    BY <2>2, <2>3 DEF Blank, Fields
  <2>5. requests' = requests + 1 BY <2>1, <2>2 DEF Submit
  <2>6. Asked(q)' BY <1>3, <2>1, <2>4, <2>5 DEF Asked, Op
  <2> QED BY <1>1, <2>1, <2>2, <2>3, <2>6, SubmitKeeps
<1>5. CASE AskRollback
  <2>1. PICK i \in DOMAIN changes :
          Submit([Blank EXCEPT !.op = "rollback", !.target = i, !.expect = LockHash(disk)])
    BY <1>5 DEF AskRollback
  <2>2. PICK r : r = [Blank EXCEPT !.op = "rollback", !.target = i, !.expect = LockHash(disk)]
    OBVIOUS
  <2>3. PICK q : q = [r EXCEPT !.mut = requests + 1] OBVIOUS
  <2>4. DOMAIN q = Fields /\ q.mut = requests + 1 /\ q.op = "rollback" /\ q.target = i
    BY <2>2, <2>3 DEF Blank, Fields
  <2>5. requests' = requests + 1 BY <2>1, <2>2 DEF Submit
  <2>6. Asked(q)' BY <1>2, <1>3, <2>1, <2>4, <2>5 DEF Asked, Op
  <2> QED BY <1>1, <2>1, <2>2, <2>3, <2>6, SubmitKeeps
<1>6. CASE AskCreate
  <2>1. PICK t \in SnapshotTypes : Submit([Blank EXCEPT !.type = t]) BY <1>6 DEF AskCreate
  <2>2. PICK r : r = [Blank EXCEPT !.type = t] OBVIOUS
  <2>3. PICK q : q = [r EXCEPT !.mut = requests + 1] OBVIOUS
  <2>4. DOMAIN q = Fields /\ q.mut = requests + 1 /\ q.op = "create" /\ q.type = t
    BY <2>2, <2>3 DEF Blank, Fields
  <2>5. requests' = requests + 1 BY <2>1, <2>2 DEF Submit
  <2>6. t \in DOMAIN Scope BY ProfileAssumption, Names4 DEF ProfileAssumption
  <2>7. Asked(q)' BY <1>3, <2>4, <2>5, <2>6 DEF Asked, Op
  <2> QED BY <1>1, <2>1, <2>2, <2>3, <2>7, SubmitKeeps
<1>7. CASE AskRestore
  <2>1. PICK i \in DOMAIN rows : \E e :
          Submit([Blank EXCEPT !.op = "restore", !.target = i, !.expect = e])
    BY <1>7 DEF AskRestore
  <2>2. PICK e : Submit([Blank EXCEPT !.op = "restore", !.target = i, !.expect = e]) BY <2>1
  <2>3. PICK r : r = [Blank EXCEPT !.op = "restore", !.target = i, !.expect = e] OBVIOUS
  <2>4. PICK q : q = [r EXCEPT !.mut = requests + 1] OBVIOUS
  <2>5. DOMAIN q = Fields /\ q.mut = requests + 1 /\ q.op = "restore" /\ q.target = i
    BY <2>3, <2>4 DEF Blank, Fields
  <2>6. requests' = requests + 1 BY <2>2, <2>3 DEF Submit
  <2>7. Asked(q)' BY <1>2, <1>3, <2>1, <2>5, <2>6 DEF Asked, Op
  <2> QED BY <1>1, <2>2, <2>3, <2>4, <2>7, SubmitKeeps
<1>8. CASE AskWrite
  <2>1. PICK v \in {0, 1} :
          Submit([Blank EXCEPT !.op = "write", !.to = v,
                               !.expect = [Nothing EXCEPT !["cordis"] = disk["cordis"]]])
    BY <1>8 DEF AskWrite
  <2>2. PICK r : r = [Blank EXCEPT !.op = "write", !.to = v,
                                   !.expect = [Nothing EXCEPT !["cordis"] = disk["cordis"]]]
    OBVIOUS
  <2>3. PICK q : q = [r EXCEPT !.mut = requests + 1] OBVIOUS
  <2>4. DOMAIN q = Fields /\ q.mut = requests + 1 /\ q.op = "write" /\ q.to = v
    BY <2>2, <2>3 DEF Blank, Fields
  <2>5. requests' = requests + 1 BY <2>1, <2>2 DEF Submit
  <2>6. Asked(q)' BY <1>3, <2>4, <2>5, Bounds DEF Asked, Op
  <2> QED BY <1>1, <2>1, <2>2, <2>3, <2>6, SubmitKeeps
<1> QED BY <1>4, <1>5, <1>6, <1>7, <1>8 DEF Ask

LEMMA StutterKeeps ==
  ASSUME IInv, UNCHANGED vars PROVE IInv'
<1>1. UNCHANGED <<disk, owed, job, requests, faults, edits, changes, kept, guard, artifacts,
                  archives, rows>>
  BY DEF vars, profile, queue, plugins, snapshots
<1>2. Typed'
  BY <1>1 DEF IInv, Typed, DiskTyped, CountersTyped, OwedTyped, Asked, JobTyped, HistoryTyped,
              SnapshotsTyped
<1>3. ChangesKept' /\ ChangesApart' /\ RowsStored'
  BY <1>1 DEF IInv, ChangesKept, ChangesApart, RowsStored
<1>4. ASSUME NEW j \in job' PROVE JobOK(j)'
  <2>1. JobOK(j) BY <1>1 DEF IInv
  <2>2. j.req.op = "apply" => ApplyOK(j)'
    BY <1>1, <2>1 DEF JobOK, ApplyOK, Prior, Current
  <2>3. j.req.op = "rollback" => RollbackOK(j)' BY <1>1, <2>1 DEF JobOK, RollbackOK
  <2>4. j.req.op \in {"create", "restore"} => SnapshotOK(j)'
    BY <1>1, <2>1 DEF JobOK, SnapshotOK, Guarded, TypeOf
  <2>5. j.req.op = "restore" => SwapOK(j)' /\ Ended(j)'
    BY <1>1, <2>1 DEF JobOK, SwapOK, Ended
  <2> QED BY <2>2, <2>3, <2>4, <2>5 DEF JobOK
<1> QED BY <1>2, <1>3, <1>4 DEF IInv

LEMMA InitHolds == Init => IInv
<1> SUFFICES ASSUME Init PROVE IInv OBVIOUS
<1> USE DEF Init, ProfileInit, PluginsInit, SnapshotsInit
<1>1. DiskTyped BY Bounds DEF DiskTyped, Slot, Content
<1>2. CountersTyped BY Bounds DEF CountersTyped
<1>3. OwedTyped /\ JobTyped BY DEF OwedTyped, JobTyped
<1>4. HistoryTyped BY NothingTyped DEF HistoryTyped
<1>5. SnapshotsTyped BY DEF SnapshotsTyped
<1>6. ChangesKept /\ ChangesApart /\ RowsStored BY DEF ChangesKept, ChangesApart, RowsStored
<1>7. \A j \in job : JobOK(j) OBVIOUS
<1> QED BY <1>1, <1>2, <1>3, <1>4, <1>5, <1>6, <1>7 DEF IInv, Typed

LEMMA StepKeeps == IInv /\ [Next]_vars => IInv'
<1> SUFFICES ASSUME IInv, [Next]_vars PROVE IInv' OBVIOUS
<1>1. CASE Ask BY <1>1, AskKeeps
<1>2. CASE Work
  <2>1. CASE \E r \in owed : Dispatch(r) BY <2>1, DispatchKeeps
  <2>2. CASE PluginStep /\ UNCHANGED snapshots BY <2>2, PluginStepKeeps
  <2>3. CASE SnapshotStep /\ UNCHANGED plugins BY <2>3, SnapshotStepKeeps
  <2>4. CASE Reply /\ UNCHANGED <<plugins, snapshots>> BY <2>4, ReplyKeeps
  <2> QED BY <1>2, <2>1, <2>2, <2>3, <2>4 DEF Work
<1>3. CASE Crash BY <1>3, CrashKeeps
<1>4. CASE Edit /\ UNCHANGED <<plugins, snapshots>> BY <1>4, EditKeeps
<1>5. CASE UNCHANGED vars BY <1>5, StutterKeeps
<1> QED BY <1>1, <1>2, <1>3, <1>4, <1>5 DEF Next

LEMMA Invariance == Spec => []IInv
BY InitHolds, StepKeeps, PTL DEF Spec

-----------------------------------------------------------------------------
(* The theorems *)

\* Whatever is asked, fails, stops or is edited, what the supervisor keeps on
\* disk and in memory has its type: one operation runs at a time, on a request
\* that is still owed, and the index names no archive that is not stored.
THEOREM TypesHold == Spec => []TypeOK
<1>1. ASSUME IInv PROVE TypeOK
  <2>1. Typed /\ RowsStored BY <1>1 DEF IInv
  <2>2. \A r \in owed : r.mut \in 1 .. requests /\ r.op \in Op
    BY <2>1 DEF Typed, OwedTyped, Asked
  <2>3. Cardinality(job) <= 1
    <3>1. Cardinality({}) = 0 BY FS_EmptySet
    <3>2. \A j \in job : Cardinality({j}) = 1 BY FS_Singleton
    <3>3. job = {} \/ \E j \in job : job = {j} BY <2>1 DEF Typed, JobTyped
    <3> QED BY <3>1, <3>2, <3>3
  <2>4. ASSUME NEW j \in job
        PROVE  j.req \in owed /\ j.n \in 0 .. Len(Order) /\ j.placed \subseteq SavedFile
    <3>1. j.req \in owed /\ j \in Job(j.req) BY <2>1, JobFacts DEF Typed
    <3> QED BY <3>1, Names4 DEF Job
  <2>5. \A i \in DOMAIN changes : changes[i].status \in Status
    BY <2>1, ChangeAt DEF Typed, ChangeSet
  <2>6. ASSUME NEW i \in DOMAIN rows
        PROVE  rows[i].files \in archives /\ rows[i].type \in DOMAIN Scope
    <3>1. rows[i] \in RowSet BY <2>1 DEF Typed, SnapshotsTyped
    <3> QED BY <2>1, <3>1 DEF RowSet, RowsStored
  <2> QED BY <2>1, <2>2, <2>3, <2>4, <2>5, <2>6
          DEF TypeOK, Typed, DiskTyped, CountersTyped, HistoryTyped, SnapshotsTyped, FileMap, Op
<1> QED BY <1>1, Invariance, PTL

\* An update is recorded after its backup is whole and before the first file
\* is touched: wherever the process stops, the change it has recorded can be
\* undone.
THEOREM ChangesCanBeUndone == Spec => []PointOfReturn
<1>1. ASSUME IInv PROVE PointOfReturn
  <2>1. \A i \in DOMAIN changes : LockHash(kept[i]) = changes[i].before
    BY <1>1 DEF IInv, ChangesKept
  <2>2. ASSUME NEW j \in At("add") PROVE kept[Current] = Saved(disk)
    BY <1>1, Operation DEF ApplyOK
  <2> QED BY <2>1, <2>2 DEF PointOfReturn
<1> QED BY <1>1, Invariance, PTL

\* Before a restoration moves the first file aside, the index has a protection
\* snapshot of its request, with what was on disk if this attempt took it.
THEOREM FilesAreProtectedFirst == Spec => []ProtectedFirst
<1>1. ASSUME IInv PROVE ProtectedFirst
  <2>1. ASSUME NEW stage \in {"swap", "place"}, NEW j \in At(stage)
        PROVE  \E i \in DOMAIN rows :
                 /\ rows[i].mut = Protection(j.req) /\ rows[i].files \in archives
                 /\ j.own /\ j.quiet => \A f \in Scope[rows[i].type] : rows[i].files[f] = j.base[f]
    <3>1. SnapshotOK(j) /\ j.at = stage /\ j.req.op = "restore" BY <1>1, Operation
    <3>2. Guarded(j, j.base) BY <3>1 DEF SnapshotOK
    <3>3. RowsStored BY <1>1 DEF IInv
    <3> QED BY <3>2, <3>3 DEF Guarded, Holds, RowsStored
  <2> QED BY <2>1 DEF ProtectedFirst
<1> QED BY <1>1, Invariance, PTL

\* A restoration that fails has moved back every file it had replaced, or has
\* replaced them all.
THEOREM RestorationsAreWhole == Spec => []AllOrNothing
<1>1. ASSUME IInv PROVE AllOrNothing
  <2>1. ASSUME NEW j \in At("failed"), j.req.op = "restore" PROVE Ended(j)
    <3>1. j \in job BY DEF At
    <3> QED BY <1>1, <2>1, <3>1 DEF IInv, JobOK
  <2> QED BY <2>1 DEF AllOrNothing, Ended, At
<1> QED BY <1>1, Invariance, PTL

-----------------------------------------------------------------------------
(* What the history says of a change *)

\* A step marks one change at most.
LEMMA OnlyMarked ==
  ASSUME HistoryTyped, DiskTyped, NEW i \in DOMAIN changes, NEW st \in Status,
         Mark(i, st) \/ (st = "applied" /\ MarkApplied(i)), NEW n, NEW s, Becomes(n, s)
  PROVE  n = i /\ s = st
<1>1. "applied" \in Status /\ {LockHash(disk)} \in SUBSET [DependencyFile -> Slot]
  BY Readings DEF Status
<1>2. \A m \in DOMAIN changes : changes'[m].status = IF m = i THEN st ELSE changes[m].status
  <2>1. CASE Mark(i, st) BY <1>1, <2>1, Marked DEF Mark
  <2>2. CASE st = "applied" /\ MarkApplied(i) BY <1>1, <2>2, Marked DEF MarkApplied
  <2> QED BY <2>1, <2>2
<1> QED BY <1>2 DEF Becomes

\* What a step that changes the status of a change has established.
Established(i, s) == /\ s = "applied" => InPlace(changes[i])
                     /\ s \in {"failed-rolled-back", "rolled-back"} => Unchanged(i)

LEMMA NothingBecomes ==
  ASSUME UNCHANGED changes, NEW i, NEW s, Becomes(i, s) PROVE FALSE
BY DEF Becomes

\* What has been put back is as it was before.
LEMMA PutBackIsUnchanged ==
  ASSUME NEW i, NEW files, Same(files, kept[i], 4),
         \A f \in SavedFile : disk'[f] = files[f], disk'["modules"] = disk'["lock"]
  PROVE  Unchanged(i)
BY AllSame DEF Unchanged

LEMMA RepeatApplyEstablishes ==
  ASSUME IInv, NEW r, RepeatApply(r), NEW i, NEW s, Becomes(i, s) PROVE Established(i, s)
<1>1. PICK n \in Prior(r) :
        \/ InPlace(changes[n]) /\ MarkApplied(n)
        \/ UNCHANGED changes
  BY DEF RepeatApply
<1>2. CASE InPlace(changes[n]) /\ MarkApplied(n)
  <2>1. n \in DOMAIN changes /\ "applied" \in Status BY DEF Prior, Status
  <2>2. HistoryTyped /\ DiskTyped BY DEF IInv, Typed
  <2>3. i = n /\ s = "applied" BY <1>2, <2>1, <2>2, OnlyMarked
  <2> QED BY <1>2, <2>3 DEF Established
<1>3. CASE UNCHANGED changes BY <1>3, NothingBecomes
<1> QED BY <1>1, <1>2, <1>3

LEMMA RecordChangeEstablishes ==
  ASSUME IInv, RecordChange, NEW i, NEW s, Becomes(i, s) PROVE FALSE
<1>1. PICK j \in At("backup") : changes' = Append(changes, Change(j.req)) BY DEF RecordChange
<1>2. changes \in Seq(ChangeSet) BY DEF IInv, Typed, HistoryTyped
<1>3. PICK c : c = Change(j.req) OBVIOUS
<1>4. changes' = Append(changes, c) BY <1>1, <1>3
<1>5. i \in DOMAIN changes => changes'[i] = changes[i] BY <1>2, <1>4
<1> QED BY <1>5 DEF Becomes

\* Healthy, recorded with the version asked for: that version is installed.
LEMMA ValidateApplyEstablishes ==
  ASSUME IInv, ValidateApply, NEW i, NEW s, Becomes(i, s) PROVE Established(i, s)
<1>1. PICK j \in At("validate") :
        \/ Healthy(disk, j.req.plugin) /\ MarkApplied(Current)
        \/ UNCHANGED changes
  BY DEF ValidateApply
<1>2. Asked(j.req) /\ j.req.op = "apply" /\ ApplyOK(j) /\ j.at = "validate" BY Operation
<1>3. CASE Healthy(disk, j.req.plugin) /\ MarkApplied(Current)
  <2>1. Current \in DOMAIN changes /\ "applied" \in Status BY <1>2, CurrentChange DEF Status
  <2>2. HistoryTyped /\ DiskTyped BY DEF IInv, Typed
  <2>3. PICK n \in DOMAIN changes : n = Current BY <2>1
  <2>4. i = n /\ s = "applied" BY <1>3, <2>1, <2>2, <2>3, OnlyMarked
  <2>5. /\ changes[n].plugin = j.req.plugin /\ changes[n].to = j.req.to
        /\ Names(disk["managed"], j.req.plugin) = j.req.to
    BY <1>2, <2>3 DEF ApplyOK
  <2>6. j.req.to # 0 BY <1>2 DEF Asked
  <2>7. Names(disk["managed"], j.req.plugin) \in {0, Names(disk["modules"], j.req.plugin)}
    BY <1>3 DEF Healthy
  <2>8. InPlace(changes[n]) BY <1>3, <2>5, <2>6, <2>7 DEF InPlace
  <2> QED BY <2>4, <2>8 DEF Established
<1>4. CASE UNCHANGED changes BY <1>4, NothingBecomes
<1> QED BY <1>1, <1>3, <1>4

LEMMA UndoNextEstablishes ==
  ASSUME IInv, UndoNext, NEW i, NEW s, Becomes(i, s) PROVE Established(i, s)
<1>1. PICK j \in At("undo") : Mark(Current, "rollback-failed") \/ UNCHANGED changes
  BY DEF UndoNext
<1>2. ApplyOK(j) /\ j.at = "undo" BY Operation
<1>3. Current \in DOMAIN changes /\ "rollback-failed" \in Status BY <1>2, CurrentChange DEF Status
<1>4. HistoryTyped /\ DiskTyped BY DEF IInv, Typed
<1>5. CASE Mark(Current, "rollback-failed")
  <2>1. s = "rollback-failed" BY <1>3, <1>4, <1>5, OnlyMarked
  <2> QED BY <2>1 DEF Established
<1>6. CASE UNCHANGED changes BY <1>6, NothingBecomes
<1> QED BY <1>1, <1>5, <1>6

\* Every saved file was put back before the packages were installed from them.
LEMMA UndoInstallEstablishes ==
  ASSUME IInv, UndoInstall, NEW i, NEW s, Becomes(i, s) PROVE Established(i, s)
<1>1. PICK j \in At("undo") :
        /\ j.n = Len(Order)
        /\ \/ Installed /\ Mark(Current, "failed-rolled-back")
           \/ Mark(Current, "rollback-failed")
  BY DEF UndoInstall
<1>2. ApplyOK(j) /\ j.at = "undo" /\ j.n = 4 BY <1>1, Operation, Names4
<1>3. Current \in DOMAIN changes /\ {"rollback-failed", "failed-rolled-back"} \subseteq Status
  BY <1>2, CurrentChange DEF Status
<1>4. HistoryTyped /\ DiskTyped BY DEF IInv, Typed
<1>5. CASE Installed /\ Mark(Current, "failed-rolled-back")
  <2>1. PICK n \in DOMAIN changes : n = Current BY <1>3
  <2>2. i = n /\ s = "failed-rolled-back" BY <1>3, <1>4, <1>5, <2>1, OnlyMarked
  <2>3. disk'["modules"] = disk'["lock"] /\ \A f \in SavedFile : disk'[f] = disk[f]
    BY <1>4, <1>5, Installing
  <2>4. Same(disk, kept[n], 4) BY <1>2, <2>1 DEF ApplyOK
  <2>5. Unchanged(n) BY <2>3, <2>4, PutBackIsUnchanged
  <2> QED BY <2>2, <2>5 DEF Established
<1>6. CASE Mark(Current, "rollback-failed")
  <2>1. s = "rollback-failed" BY <1>3, <1>4, <1>6, OnlyMarked
  <2> QED BY <2>1 DEF Established
<1> QED BY <1>1, <1>5, <1>6

LEMMA CheckRollbackEstablishes ==
  ASSUME IInv, CheckRollback, NEW i, NEW s, Becomes(i, s) PROVE Established(i, s)
<1>1. PICK j \in At("check") : Mark(j.req.target, "rolled-back") \/ UNCHANGED changes
  BY DEF CheckRollback
<1>2. RollbackOK(j) /\ j.at = "check" /\ Asked(j.req) /\ j.req.op = "rollback" BY Operation
<1>3. PICK n \in DOMAIN changes : n = j.req.target BY <1>2, Target
<1>4. HistoryTyped /\ DiskTyped /\ disk' = disk BY DEF IInv, Typed, CheckRollback, profile
<1>5. CASE Mark(j.req.target, "rolled-back")
  <2>1. i = n /\ s = "rolled-back"
    <3>1. "rolled-back" \in Status /\ Mark(n, "rolled-back") BY <1>3, <1>5 DEF Status
    <3> QED BY <1>4, <3>1, OnlyMarked
  <2>2. Same(disk, kept[n], 4) /\ disk'["modules"] = disk'["lock"]
    BY <1>2, <1>3, <1>4, Names4 DEF RollbackOK
  <2>3. \A f \in SavedFile : disk'[f] = disk[f] BY <1>4
  <2>4. Unchanged(n) BY <2>2, <2>3, PutBackIsUnchanged
  <2> QED BY <2>1, <2>4 DEF Established
<1>6. CASE UNCHANGED changes BY <1>6, NothingBecomes
<1> QED BY <1>1, <1>5, <1>6

LEMMA UnguardInstallEstablishes ==
  ASSUME IInv, UnguardInstall, NEW i, NEW s, Becomes(i, s) PROVE Established(i, s)
<1>1. PICK j \in At("unguard") : Mark(j.req.target, "rollback-failed") \/ UNCHANGED changes
  BY DEF UnguardInstall
<1>2. Asked(j.req) /\ j.req.op = "rollback" BY Operation
<1>3. PICK n \in DOMAIN changes : n = j.req.target BY <1>2, Target
<1>4. HistoryTyped /\ DiskTyped BY DEF IInv, Typed
<1>5. CASE Mark(j.req.target, "rollback-failed")
  <2>1. "rollback-failed" \in Status /\ Mark(n, "rollback-failed") BY <1>3, <1>5 DEF Status
  <2>2. s = "rollback-failed" BY <1>4, <2>1, OnlyMarked
  <2> QED BY <2>2 DEF Established
<1>6. CASE UNCHANGED changes BY <1>6, NothingBecomes
<1> QED BY <1>1, <1>5, <1>6

LEMMA PluginStepEstablishes ==
  ASSUME IInv, PluginStep, NEW i, NEW s, Becomes(i, s) PROVE Established(i, s)
<1>1. CASE RecordChange BY <1>1, RecordChangeEstablishes
<1>2. CASE ValidateApply BY <1>2, ValidateApplyEstablishes
<1>3. CASE UndoNext BY <1>3, UndoNextEstablishes
<1>4. CASE UndoInstall BY <1>4, UndoInstallEstablishes
<1>5. CASE CheckRollback BY <1>5, CheckRollbackEstablishes
<1>6. CASE UnguardInstall BY <1>6, UnguardInstallEstablishes
<1>7. CASE FetchArtifact \/ BackupNext \/ GuardNext
  BY <1>7, NothingBecomes DEF FetchArtifact, BackupNext, GuardNext
<1>8. CASE AddPlugin \/ WriteManaged \/ RestoreNext \/ RestoreInstall \/ UnguardNext
  <2>1. UNCHANGED plugins
    BY <1>8 DEF AddPlugin, WriteManaged, RestoreNext, RestoreInstall, UnguardNext
  <2> QED BY <2>1, NothingBecomes DEF plugins
<1> QED BY <1>1, <1>2, <1>3, <1>4, <1>5, <1>6, <1>7, <1>8 DEF PluginStep

LEMMA NextEstablishes ==
  ASSUME IInv, Next, NEW i, NEW s, Becomes(i, s) PROVE Established(i, s)
<1>1. CASE PluginStep BY <1>1, PluginStepEstablishes
<1>2. ASSUME NEW r, Dispatch(r) PROVE Established(i, s)
  <2>1. CASE RepeatApply(r) BY <2>1, RepeatApplyEstablishes
  <2>2. CASE StartApply(r) \/ StartRollback(r) \/ UNCHANGED plugins
    <3>1. UNCHANGED plugins BY <2>2 DEF StartApply, StartRollback
    <3> QED BY <3>1, NothingBecomes DEF plugins
  <2> QED BY <1>2, <2>1, <2>2 DEF Dispatch
<1>3. CASE Crash BY <1>3, NothingBecomes DEF Crash
<1>4. CASE UNCHANGED plugins BY <1>4, NothingBecomes DEF plugins
<1> QED BY <1>1, <1>2, <1>3, <1>4 DEF Next, Work, Ask

\* Whatever happened between, a change that becomes applied is installed and
\* healthy, and one that becomes rolled back has left the dependency files, the
\* record of managed plugins and the packages as its backup has them.
THEOREM TheHistoryIsTrue == Spec => HistoryIsTrue
<1>1. ASSUME IInv, Next
      PROVE  \A i \in 1 .. MaxRequests :
               /\ Becomes(i, "applied") => InPlace(changes[i])
               /\ Becomes(i, "failed-rolled-back") \/ Becomes(i, "rolled-back") => Unchanged(i)
  BY <1>1, NextEstablishes DEF Established
<1>2. IInv /\ [Next]_vars =>
        [\A i \in 1 .. MaxRequests :
           /\ Becomes(i, "applied") => InPlace(changes[i])
           /\ Becomes(i, "failed-rolled-back") \/ Becomes(i, "rolled-back") => Unchanged(i)]_vars
  BY <1>1
<1> QED BY <1>2, Invariance, PTL DEF Spec, HistoryIsTrue
=============================================================================
