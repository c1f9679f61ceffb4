----------------------------- MODULE RuntimeProofs -----------------------------
(***************************************************************************)
(* The safety properties of the two sides of a runtime: SessionLifecycle,  *)
(* what its Connector does with deleted sessions, and RuntimeStreams, what *)
(* the Hub shows of it; for any values of their constants.                 *)
(*                                                                         *)
(* The properties of the sessions speak of the disk, and a change writes   *)
(* there a map it took from memory; so the inductive invariant says the    *)
(* same of memory and of the map about to be saved, and adds what each     *)
(* step of a change may rely on because no other change runs (OneChange).  *)
(* The property of the streams speaks of a runtime at rest; its inductive  *)
(* invariant says of any other state why what the Hub shows will be right  *)
(* once the rows under way are taken (Brings, Asks), or who will repair it *)
(* (Repaired).                                                             *)
(***************************************************************************)
EXTENDS SessionLifecycle, RuntimeStreams, FiniteSetTheorems, TLAPS

Active(c) == task[c] # Idle
Gone(s) == files[s] # Files \/ s \notin attached
Erasing == {"purging", "purged"}
Bare(s) == files[s] = {} /\ s \notin attached \cup archived
Saving(c) == task[c].step \in {"rename", "publish"}

\* One change at a time, and only in the phase of the connector it belongs to.
OneChange ==
  \A c \in Tasks : Active(c) =>
    /\ \A d \in Tasks : d # c => ~ Active(d)
    /\ up = IF c = Startup THEN "starting" ELSE "serving"
    /\ c = Startup => task[c].op = "purge"

\* Memory knows of every erasure that has begun and of every one that ended.
MemoryKnows ==
  \A s \in Sessions :
    /\ Gone(s) => records[s].phase \in Erasing
    /\ records[s].phase = "purged" => Bare(s)

\* No record is stamped later than the last deletion.
StampsBounded ==
  /\ journal.last <= lastDeletedAt
  /\ \A s \in Sessions : /\ journal.records[s].deletedAt <= journal.last
                         /\ records[s].deletedAt <= lastDeletedAt

\* What a change has established when it gets to a step.
Established(c) ==
  LET s == Id(c) t == task[c] IN
  /\ t.op = "purge" => t.record.deletedAt <= lastDeletedAt
  /\ t.step = "archive" =>
       t.op \in {"archive", "trash"} /\ records[s].phase = "none"
  /\ t.step = "unarchive" =>
       t.op = "restore" /\ records[s].phase = "trash" /\ t.record = records[s]
  /\ t.step \in {"lease", "look"} =>
       /\ t.op = "purge" /\ t.record = records[s]
       /\ records[s].phase \in {"trash", "purging"}
  /\ t.step \in {"detach", "withdraw", "unlink"} =>
       /\ t.op = "purge"
       /\ records[s].phase = "purging" /\ journal.records[s].phase = "purging"
  /\ Saving(c) =>
       /\ t.op # "archive"
       /\ t.op = "trash" => t.plan[s].phase = "trash" /\ records[s].phase = "none"
       /\ t.op = "restore" => t.plan[s] = NoRecord /\ records[s].phase = "trash"
       /\ t.op = "purge" => t.plan[s].phase \in Erasing
       /\ t.plan = [records EXCEPT ![s] = t.plan[s]]
       /\ t.plan[s].phase = "purged" => Bare(s)
       /\ t.plan[s].deletedAt <= lastDeletedAt
  /\ t.step = "rename" /\ t.plan[s].phase = "trash" =>
       t.plan[s].deletedAt > journal.last
  /\ t.step = "publish" =>
       journal.records = t.plan /\ journal.last = lastDeletedAt

ChangesOK == \A c \in Tasks : Active(c) => Established(c)

\* While an erasure has the lease it is the only writer of the log.
Leased(c) == task[c].op = "purge" /\ task[c].step # "lease"
Leases ==
  /\ \A s \in Sessions : s \in running => "dsh" \in lock[s]
  /\ \A c \in Tasks : Active(c) /\ Leased(c) => lock[Id(c)] = {"lifecycle"}
  /\ \A s \in Sessions : "lifecycle" \in lock[s] =>
       \E c \in Tasks : Active(c) /\ Id(c) = s /\ Leased(c)

\* ready() works on what it loaded.
FreshStart ==
  up = "starting" /\ ~ (Active(Startup) /\ task[Startup].step = "publish")
    => journal.records = records

\* A deletion that was answered is known to memory.
TrashKnown == \A s \in trashed : records[s].phase # "none"

Inv ==
  /\ TypeOK /\ OneChange /\ MemoryKnows /\ StampsBounded /\ ChangesOK
  /\ Leases /\ FreshStart /\ TrashKnown
  /\ IntentComesFirst /\ PurgedIsErased /\ TrashSurvives

USE DEF Tasks, At, Id, Phase, Listed, Quiet, OnDisk, Active
-----------------------------------------------------------------------------
(* The three ways a change moves.                                          *)

\* A change begins at a step with the record and the map it has read.
LEMMA BeginTypes ==
  ASSUME TypeOK, NEW c \in Tasks, NEW s \in Sessions,
         NEW op \in {"archive", "trash", "restore", "purge"},
         NEW step \in Step, Begin(c, op, s, step)
  PROVE  task' \in [Tasks -> Task \cup {Idle}]
<1>1. [step |-> step, op |-> op, id |-> s, record |-> records[s], plan |-> records] \in Task
  BY DEF TypeOK, Task, Records
<1> QED BY <1>1 DEF Begin, TypeOK

\* A change goes on to another step.
LEMMA GotoTypes ==
  ASSUME TypeOK, NEW c \in Tasks, task[c] # Idle, NEW step \in Step, Goto(c, step)
  PROVE  task' \in [Tasks -> Task \cup {Idle}]
<1>1. task[c] \in Task
  BY DEF TypeOK
<1>2. [task[c] EXCEPT !.step = step] \in Task
  BY <1>1 DEF Task
<1>3. task' = [task EXCEPT ![c] = [task[c] EXCEPT !.step = step]]
  BY DEF Goto, TypeOK
<1> QED BY <1>2, <1>3 DEF TypeOK

\* A change is ready to save the records with a new one for its session.
LEMMA SaveTypes ==
  ASSUME TypeOK, NEW c \in Tasks, task[c] # Idle, NEW r \in Record, Save(c, r)
  PROVE  task' \in [Tasks -> Task \cup {Idle}]
<1>1. task[c] \in Task /\ [records EXCEPT ![Id(c)] = r] \in Records
  BY DEF TypeOK, Records, Task
<1> DEFINE new == [task[c] EXCEPT !.step = "rename", !.plan = [records EXCEPT ![Id(c)] = r]]
<1>2. new \in Task
  BY <1>1 DEF Task, Step
<1>3. task' = [task EXCEPT ![c] = new]
  BY DEF Save, TypeOK
<1> QED BY <1>2, <1>3 DEF TypeOK

\* A change ends.
LEMMA DoneTypes ==
  ASSUME TypeOK, NEW c \in Tasks, Done(c)
  PROVE  task' \in [Tasks -> Task \cup {Idle}]
BY DEF Done, TypeOK

-----------------------------------------------------------------------------
(* Type correctness.                                                       *)

\* Where no stamp exceeds it, the journal's last stamp is the one loaded.
LEMMA LoadedStamp ==
  ASSUME TypeOK, StampsBounded
  PROVE  LatestOnDisk = journal.last
<1> DEFINE S == {journal.last} \cup Stamps
<1>1. journal.last \in S /\ \A x \in S : journal.last >= x /\ x \in Int
  BY DEF TypeOK, StampsBounded, Stamps, Records, Record
<1>2. LatestOnDisk = CHOOSE x \in S : \A y \in S : x >= y
  BY DEF LatestOnDisk, Max
<1>3. LatestOnDisk \in S /\ \A y \in S : LatestOnDisk >= y
  <2> HIDE DEF S
  <2> QED BY <1>1, <1>2
<1> QED BY <1>1, <1>3

LEMMA TypesStep ==
  ASSUME TypeOK, StampsBounded, [Next]_vars
  PROVE  TypeOK'
<1> USE LifecycleAssumption
<1> USE DEF disk, memory, dsh, history
<1>1. ASSUME NEW c \in Callers, NEW s \in Sessions,
             \/ StartArchive(c, "archive", s) \/ StartArchive(c, "trash", s)
             \/ StartRestore(c, s) \/ StartPurge(c, s)
      PROVE  TypeOK'
  <2>1. \E op \in {"archive", "trash", "restore", "purge"}, step \in Step :
          Begin(c, op, s, step)
    BY <1>1 DEF StartArchive, StartRestore, StartPurge, Step
  <2>2. task' \in [Tasks -> Task \cup {Idle}]
    BY <2>1, BeginTypes
  <2>3. UNCHANGED <<disk, records, lastDeletedAt, up, dsh, history, faults>>
    BY <1>1 DEF StartArchive, StartRestore, StartPurge
  <2> QED BY <2>2, <2>3 DEF TypeOK
<1>2. ASSUME NEW c \in Callers, NEW s \in Sessions, Unarchive(c, s)
      PROVE  TypeOK'
  BY <1>2 DEF Unarchive, TypeOK
<1>3. ASSUME NEW c \in Tasks, Archive(c)
      PROVE  TypeOK'
  <2>1. task[c] \in Task
    BY <1>3 DEF Archive, TypeOK
  <2>2. task' \in [Tasks -> Task \cup {Idle}] /\ lastDeletedAt' \in 0 .. MaxTime
    <3>1. CASE task[c].op = "archive"
      <4>1. Done(c) /\ UNCHANGED lastDeletedAt
        BY <1>3, <3>1 DEF Archive
      <4> QED BY <4>1, DoneTypes DEF TypeOK
    <3>2. CASE task[c].op = "trash"
      <4>1. PICK at \in lastDeletedAt + 1 .. MaxTime :
              /\ lastDeletedAt' = at
              /\ Save(c, Entry("trash", Id(c) \in archived, at))
        BY <1>3, <3>2 DEF Archive
      <4>2. at \in 0 .. MaxTime
        BY <4>1 DEF TypeOK
      <4>3. Entry("trash", Id(c) \in archived, at) \in Record
        BY <4>2 DEF Entry, Record
      <4>4. task' \in [Tasks -> Task \cup {Idle}]
        <5> HIDE DEF Id
        <5> QED BY <1>3, <4>1, <4>3, SaveTypes DEF Archive
      <4> QED BY <4>1, <4>2, <4>4
    <3> QED BY <1>3, <3>1, <3>2 DEF Archive
  <2>3. archived' \subseteq Sessions /\ chosen' \subseteq Sessions
    BY <1>3, <2>1 DEF Archive, TypeOK, Task
  <2> QED BY <1>3, <2>2, <2>3 DEF Archive, TypeOK
<1>4. ASSUME NEW c \in Tasks, Restore(c)
      PROVE  TypeOK'
  <2>1. NoRecord \in Record
    BY DEF NoRecord, Entry, Record
  <2>2. task' \in [Tasks -> Task \cup {Idle}]
    BY <1>4, <2>1, SaveTypes DEF Restore
  <2> QED BY <1>4, <2>2 DEF Restore, RestoredMark, TypeOK
<1>5. ASSUME NEW c \in Tasks, Rename(c)
      PROVE  TypeOK'
  <2>1. task[c] \in Task
    BY <1>5 DEF Rename, TypeOK
  <2>2. task' \in [Tasks -> Task \cup {Idle}]
    BY <1>5, GotoTypes DEF Rename, Step
  <2>3. journal' \in [last : 0 .. MaxTime, records : Records]
    BY <1>5, <2>1 DEF Rename, TypeOK, Task
  <2> QED BY <1>5, <2>2, <2>3 DEF Rename, TypeOK
<1>6. ASSUME NEW c \in Tasks, Publish(c)
      PROVE  TypeOK'
  <2>1. task[c] \in Task
    BY <1>6 DEF Publish, TypeOK
  <2>2. Done(c) \/ Goto(c, "detach")
    BY <1>6 DEF Publish
  <2>3. task' \in [Tasks -> Task \cup {Idle}]
    BY <1>6, <2>2, GotoTypes, DoneTypes DEF Publish, Step
  <2>4. records' \in Records
    BY <1>6, <2>1 DEF Publish, Task
  <2>5. lock' \in {lock, Released(c)} /\ trashed' \in {trashed, trashed \cup {Id(c)}}
    BY <1>6 DEF Publish
  <2>6. Released(c) \in [Sessions -> SUBSET {"lifecycle", "dsh", "foreign"}]
    BY DEF Released, TypeOK
  <2> QED BY <1>6, <2>1, <2>3, <2>4, <2>5, <2>6 DEF Publish, TypeOK, Task
<1>7. ASSUME NEW c \in Tasks, AcquireWriteLease(c)
      PROVE  TypeOK'
  <2>1. task' \in [Tasks -> Task \cup {Idle}]
    BY <1>7, GotoTypes DEF AcquireWriteLease, Step
  <2> QED BY <1>7, <2>1 DEF AcquireWriteLease, TypeOK
<1>8. ASSUME NEW c \in Tasks, Intend(c)
      PROVE  TypeOK'
  <2>1. task[c] \in Task
    BY <1>8 DEF Intend, TypeOK
  <2>2. [task[c].record EXCEPT !.phase = "purging"] \in Record
    BY <2>1 DEF Task, Record
  <2>3. task' \in [Tasks -> Task \cup {Idle}]
    BY <1>8, <2>2, SaveTypes DEF Intend
  <2> QED BY <1>8, <2>3 DEF Intend, TypeOK
<1>9. ASSUME NEW c \in Tasks, Detach(c) \/ Withdraw(c)
      PROVE  TypeOK'
  <2>1. task' \in [Tasks -> Task \cup {Idle}]
    BY <1>9, GotoTypes DEF Detach, Withdraw, Step
  <2> QED BY <1>9, <2>1 DEF Detach, Withdraw, TypeOK
<1>10. ASSUME NEW c \in Tasks, NEW f \in Files, Unlink(c, f)
       PROVE  TypeOK'
  BY <1>10 DEF Unlink, TypeOK
<1>11. ASSUME NEW c \in Tasks, FinishErasure(c)
       PROVE  TypeOK'
  <2>1. task[c] \in Task
    BY <1>11 DEF FinishErasure, TypeOK
  <2>2. Entry("purged", FALSE, task[c].record.deletedAt) \in Record
    BY <2>1 DEF Entry, Task, Record
  <2>3. task' \in [Tasks -> Task \cup {Idle}]
    BY <1>11, <2>2, SaveTypes DEF FinishErasure
  <2> QED BY <1>11, <2>3 DEF FinishErasure, TypeOK
<1>12. ASSUME NEW c \in Tasks, Refuse(c) \/ Fail(c)
       PROVE  TypeOK'
  <2>1. task[c] # Idle /\ EndWithError(c) /\ faults' \in 0 .. MaxFaults
    BY <1>12 DEF Refuse, Fail, Fault, TypeOK
  <2>2. task[c] \in Task
    BY <2>1 DEF TypeOK
  <2>3. task' \in [Tasks -> Task \cup {Idle}]
    BY <2>1, DoneTypes DEF EndWithError
  <2>4. Released(c) \in [Sessions -> SUBSET {"lifecycle", "dsh", "foreign"}]
    BY DEF Released, TypeOK
  <2> QED BY <2>1, <2>2, <2>3, <2>4 DEF EndWithError, StoppedBy, TypeOK, Task
<1>13. ASSUME Load
       PROVE  TypeOK'
  BY <1>13, LoadedStamp DEF Load, TypeOK
<1>14. ASSUME RefuseStart \/ FailStart \/ Serve
       PROVE  TypeOK'
  BY <1>14 DEF RefuseStart, FailStart, Serve, Fault, TypeOK
<1>15. ASSUME Crash
       PROVE  TypeOK'
  <2>1. task' \in [Tasks -> Task \cup {Idle}]
    BY <1>15 DEF Crash
  <2>2. \A c \in Tasks : task[c] # Idle => task[c].id \in Sessions
    BY DEF TypeOK, Task
  <2>3. broken' \subseteq Sessions
    BY <1>15, <2>2 DEF Crash, TypeOK
  <2>4. lock' \in [Sessions -> SUBSET {"lifecycle", "dsh", "foreign"}]
    BY <1>15 DEF Crash, TypeOK
  <2> QED BY <1>15, <2>1, <2>3, <2>4 DEF Crash, Fault, TypeOK
<1>16. ASSUME NEW s \in Sessions, ResumePurge(s)
       PROVE  TypeOK'
  <2>1. task' \in [Tasks -> Task \cup {Idle}]
    BY <1>16, BeginTypes DEF ResumePurge, Step
  <2> QED BY <1>16, <2>1 DEF ResumePurge, TypeOK
<1>17. ASSUME NEW s \in Sessions,
              Reassert(s) \/ Open(s) \/ Work(s) \/ Rest(s) \/ ForeignWriter(s)
       PROVE  TypeOK'
  BY <1>17 DEF Reassert, Open, Work, Rest, ForeignWriter, TypeOK
<1>18. CASE UNCHANGED vars
  BY <1>18 DEF vars, TypeOK
<1> QED
  <2> HIDE DEF disk, memory, dsh, history
  <2> QED BY <1>1, <1>2, <1>3, <1>4, <1>5, <1>6, <1>7, <1>8, <1>9, <1>10, <1>11,
             <1>12, <1>13, <1>14, <1>15, <1>16, <1>17, <1>18, Zenon DEF Next

-----------------------------------------------------------------------------
(* Which actions write what.                                               *)

ByTask(c) ==
  \/ Archive(c) \/ Restore(c) \/ Rename(c) \/ Publish(c)
  \/ AcquireWriteLease(c) \/ Intend(c) \/ Detach(c) \/ Withdraw(c)
  \/ \E f \in Files : Unlink(c, f)
  \/ FinishErasure(c) \/ Refuse(c) \/ Fail(c)
ByCaller(c, s) ==
  \/ StartArchive(c, "archive", s) \/ StartArchive(c, "trash", s)
  \/ Unarchive(c, s) \/ StartRestore(c, s) \/ StartPurge(c, s)
ByReady ==
  \/ Load \/ RefuseStart \/ FailStart \/ Serve
  \/ \E s \in Sessions : ResumePurge(s) \/ Reassert(s)
ByDsh(s) == Open(s) \/ Work(s) \/ Rest(s) \/ ForeignWriter(s)

LEMMA NextSplit ==
  [Next]_vars <=>
    \/ \E c \in Callers, s \in Sessions : ByCaller(c, s)
    \/ \E c \in Tasks : ByTask(c)
    \/ ByReady \/ Crash
    \/ \E s \in Sessions : ByDsh(s)
    \/ UNCHANGED vars
BY Zenon DEF Next, ByCaller, ByTask, ByReady, ByDsh

LEMMA WhoWrites ==
  ASSUME [Next]_vars
  PROVE  /\ journal' = journal \/ \E c \in Tasks : Rename(c)
         /\ \/ files' = files /\ attached' = attached
            \/ \E c \in Tasks : \/ Detach(c) \/ FinishErasure(c)
                                \/ \E f \in Files : Unlink(c, f)
         /\ attached' \subseteq attached
         /\ \/ archived' \subseteq archived
            \/ \E c \in Tasks : Archive(c)
            \/ \E s \in Sessions : Reassert(s)
         /\ records' = records \/ Load \/ \E c \in Tasks : Publish(c)
         /\ lastDeletedAt' = lastDeletedAt \/ Load \/ \E c \in Tasks : Archive(c)
         /\ trashed' = trashed \/ \E c \in Tasks : Rename(c) \/ Publish(c)
<1> USE DEF disk, memory, dsh, history
<1>1. ASSUME NEW c \in Callers, NEW s \in Sessions, ByCaller(c, s)
      PROVE  /\ UNCHANGED <<journal, files, attached, records, lastDeletedAt, trashed>>
             /\ archived' \subseteq archived
  BY <1>1 DEF ByCaller, StartArchive, Unarchive, StartRestore, StartPurge
<1>2. ASSUME NEW c \in Tasks, ByTask(c)
      PROVE  /\ journal' = journal \/ Rename(c)
             /\ \/ files' = files /\ attached' = attached
                \/ Detach(c) \/ FinishErasure(c) \/ \E f \in Files : Unlink(c, f)
             /\ attached' \subseteq attached
             /\ archived' \subseteq archived \/ Archive(c)
             /\ records' = records \/ Publish(c)
             /\ lastDeletedAt' = lastDeletedAt \/ Archive(c)
             /\ trashed' = trashed \/ Rename(c) \/ Publish(c)
  BY <1>2 DEF ByTask, Restore, RestoredMark, Rename, Publish, AcquireWriteLease,
              Intend, Detach, Withdraw, Unlink, FinishErasure, Refuse, Fail,
              EndWithError, Archive
<1>3. CASE ByReady \/ Crash
  BY <1>3 DEF ByReady, Load, RefuseStart, FailStart, Serve, ResumePurge, Crash, Reassert
<1>4. ASSUME NEW s \in Sessions, ByDsh(s)
      PROVE  UNCHANGED <<disk, records, lastDeletedAt, trashed>>
  BY <1>4 DEF ByDsh, Open, Work, Rest, ForeignWriter
<1>5. CASE UNCHANGED vars
  BY <1>5 DEF vars
<1> HIDE DEF disk, memory, dsh, history
<1>6. CASE \E c \in Callers, s \in Sessions : ByCaller(c, s)
  BY <1>1, <1>6
<1>7. CASE \E c \in Tasks : ByTask(c)
  BY <1>2, <1>7
<1>8. CASE \E s \in Sessions : ByDsh(s)
  BY <1>4, <1>8 DEF disk
<1> QED BY <1>3, <1>5, <1>6, <1>7, <1>8, NextSplit

-----------------------------------------------------------------------------
(* The parts of the invariant that speak of the disk and of memory.        *)

\* A session is taken apart only by an erasure, whose intent is on disk.
LEMMA TakenApart ==
  ASSUME Inv, [Next]_vars, NEW s \in Sessions,
         files'[s] # files[s] \/ (s \in attached /\ s \notin attached')
  PROVE  \E c \in Tasks :
           /\ Active(c) /\ Id(c) = s /\ task[c].step \in {"detach", "unlink"}
           /\ records[s].phase = "purging" /\ OnDisk(s) = "purging"
           /\ task[c].op = "purge"
<1>1. PICK c \in Tasks : Detach(c) \/ FinishErasure(c) \/ \E f \in Files : Unlink(c, f)
  BY WhoWrites
<1>2. Active(c) /\ task[c].step \in {"detach", "unlink"} /\ Id(c) = s
  BY <1>1 DEF Detach, FinishErasure, Unlink, Inv, TypeOK
<1> QED BY <1>2 DEF Inv, ChangesOK, Established

\* A session that memory takes for purged, or that is purged on disk, stays bare.
LEMMA StaysBare ==
  ASSUME Inv, [Next]_vars, NEW s \in Sessions, Bare(s), records[s].phase \in Erasing,
         records[s].phase = "purged" \/ OnDisk(s) = "purged"
  PROVE  Bare(s)'
<1>1. files'[s] = files[s]
  BY TakenApart
<1>2. attached' \subseteq attached
  BY WhoWrites
<1>3. s \notin archived'
  <2>1. CASE archived' \subseteq archived
    BY <2>1 DEF Bare
  <2>2. ASSUME NEW c \in Tasks, Archive(c)
        PROVE  s \notin archived'
    <3>1. records[Id(c)].phase = "none"
      BY <2>2 DEF Archive, Inv, ChangesOK, Established
    <3> QED BY <2>2, <3>1 DEF Archive, Bare, Erasing
  <2>3. ASSUME NEW x \in Sessions, Reassert(x)
        PROVE  s \notin archived'
    BY <2>3 DEF Reassert, Unmarked, Bare, Erasing
  <2> QED BY <2>1, <2>2, <2>3, WhoWrites
<1> QED BY <1>1, <1>2, <1>3 DEF Bare

LEMMA SavedMap ==
  ASSUME Inv, NEW c \in Tasks, Active(c), Saving(c), NEW s \in Sessions
  PROVE  /\ Gone(s) => task[c].plan[s].phase \in Erasing
         /\ task[c].plan[s].phase = "purged" => Bare(s)
         /\ s # Id(c) => task[c].plan[s] = records[s]
         /\ task[c].plan[s].deletedAt <= lastDeletedAt
<1>1. Established(c) /\ task[c] \in Task
  BY DEF Inv, ChangesOK, TypeOK
<1>2. Id(c) \in Sessions /\ task[c].op \in {"trash", "restore", "purge"}
  BY <1>1 DEF Established, Task
<1>3. task[c].plan = [records EXCEPT ![Id(c)] = task[c].plan[Id(c)]]
  BY <1>1 DEF Established
<1>4. CASE s # Id(c)
  <2>1. task[c].plan[s] = records[s]
    BY <1>2, <1>3, <1>4 DEF Inv, TypeOK, Records
  <2> QED BY <1>4, <2>1 DEF Inv, MemoryKnows, StampsBounded
<1>5. CASE s = Id(c)
  <2>1. /\ task[c].plan[s].phase = "purged" => Bare(s)
        /\ task[c].plan[s].deletedAt <= lastDeletedAt
    BY <1>1, <1>5 DEF Established
  <2>2. Gone(s) => records[s].phase \in Erasing
    BY DEF Inv, MemoryKnows
  <2>3. Gone(s) => task[c].plan[s].phase \in Erasing
    BY <1>1, <1>2, <1>5, <2>2 DEF Established, Erasing
  <2> QED BY <1>5, <2>1, <2>3
<1> QED BY <1>4, <1>5

LEMMA IntentStep ==
  ASSUME Inv, [Next]_vars
  PROVE  IntentComesFirst'
<1> SUFFICES ASSUME NEW s \in Sessions, Gone(s)'
             PROVE  OnDisk(s)' \in Erasing
  BY DEF IntentComesFirst, Gone, Erasing
<1>1. Gone(s) \/ (records[s].phase = "purging" /\ OnDisk(s) = "purging")
  BY TakenApart DEF Gone
<1>2. Gone(s) => OnDisk(s) \in Erasing
  BY DEF Inv, IntentComesFirst, Gone, Erasing
<1>3. CASE journal' = journal
  BY <1>1, <1>2, <1>3 DEF Erasing
<1>4. ASSUME NEW c \in Tasks, Rename(c)
      PROVE  OnDisk(s)' \in Erasing
  <2>1. Gone(s)
    BY <1>4 DEF Rename, Gone
  <2>2. Active(c) /\ Saving(c)
    BY <1>4 DEF Rename, Saving
  <2>3. task[c].plan[s].phase \in Erasing
    BY <2>1, <2>2, SavedMap
  <2> QED BY <1>4, <2>3 DEF Rename
<1> QED BY <1>3, <1>4, WhoWrites

LEMMA PurgedStep ==
  ASSUME Inv, [Next]_vars
  PROVE  PurgedIsErased'
<1> SUFFICES ASSUME NEW s \in Sessions, OnDisk(s)' = "purged"
             PROVE  Bare(s)'
  BY DEF PurgedIsErased, Bare
<1>1. CASE journal' = journal
  <2>1. OnDisk(s) = "purged" /\ Bare(s)
    BY <1>1 DEF Inv, PurgedIsErased, Bare
  <2>2. Gone(s)
    BY <2>1, LifecycleAssumption DEF Bare, Gone
  <2>3. records[s].phase \in Erasing
    BY <2>2 DEF Inv, MemoryKnows
  <2> QED BY <2>1, <2>3, StaysBare
<1>2. ASSUME NEW c \in Tasks, Rename(c)
      PROVE  Bare(s)'
  <2>1. Active(c) /\ Saving(c)
    BY <1>2 DEF Rename, Saving
  <2>2. task[c].plan[s].phase = "purged"
    BY <1>2 DEF Rename
  <2> QED BY <1>2, <2>1, <2>2, SavedMap DEF Rename, Bare
<1> QED BY <1>1, <1>2, WhoWrites

LEMMA MemoryStep ==
  ASSUME Inv, [Next]_vars
  PROVE  MemoryKnows'
<1> SUFFICES ASSUME NEW s \in Sessions
             PROVE  /\ Gone(s)' => records'[s].phase \in Erasing
                    /\ records'[s].phase = "purged" => Bare(s)'
  BY DEF MemoryKnows
<1>1. CASE records' = records
  <2>1. Gone(s)' => records[s].phase \in Erasing
    BY TakenApart DEF Gone, Inv, MemoryKnows, Erasing
  <2>2. records[s].phase = "purged" => Bare(s)'
    BY StaysBare DEF Inv, MemoryKnows, Erasing
  <2> QED BY <1>1, <2>1, <2>2
<1>2. CASE records' = journal'.records
  <2>1. /\ Gone(s)' => OnDisk(s)' \in Erasing
        /\ OnDisk(s)' = "purged" => Bare(s)'
    BY IntentStep, PurgedStep DEF IntentComesFirst, PurgedIsErased, Gone, Erasing, Bare
  <2> QED BY <1>2, <2>1
<1>3. ASSUME NEW c \in Tasks, Publish(c)
      PROVE  records' = journal'.records
  BY <1>3 DEF Publish, disk, Inv, ChangesOK, Established
<1>4. Load => records' = journal'.records
  BY DEF Load, disk
<1> QED BY <1>1, <1>2, <1>3, <1>4, WhoWrites

LEMMA StampsStep ==
  ASSUME Inv, [Next]_vars
  PROVE  StampsBounded'
<1> DEFINE OnDiskBounded == \A s \in Sessions : journal.records[s].deletedAt <= journal.last
           InMemoryBounded == \A s \in Sessions : records[s].deletedAt <= lastDeletedAt
<1>1. OnDiskBounded /\ InMemoryBounded /\ journal.last <= lastDeletedAt
  BY DEF Inv, StampsBounded
<1>2. lastDeletedAt' >= lastDeletedAt \/ (Load /\ lastDeletedAt' = journal.last)
  <2>1. ASSUME NEW c \in Tasks, Archive(c)
        PROVE  lastDeletedAt' >= lastDeletedAt
    BY <2>1 DEF Archive, Inv, TypeOK
  <2>2. Load => lastDeletedAt' = journal.last
    BY LoadedStamp DEF Load, Inv
  <2> QED BY <2>1, <2>2, WhoWrites DEF Inv, TypeOK
<1>3. journal'.last <= lastDeletedAt'
  <2>1. CASE journal' = journal
    BY <1>1, <1>2, <2>1, TypesStep DEF Inv, TypeOK
  <2>2. ASSUME NEW c \in Tasks, Rename(c)
        PROVE  journal'.last <= lastDeletedAt'
    BY <2>2 DEF Rename, Inv, TypeOK
  <2> QED BY <2>1, <2>2, WhoWrites
<1>4. OnDiskBounded'
  <2>1. CASE journal' = journal
    BY <1>1, <2>1
  <2>2. ASSUME NEW c \in Tasks, Rename(c), NEW s \in Sessions
        PROVE  journal'.records[s].deletedAt <= journal'.last
    <3>1. Active(c) /\ Saving(c)
      BY <2>2 DEF Rename, Saving
    <3> QED BY <2>2, <3>1, SavedMap DEF Rename
  <2> QED BY <2>1, <2>2, WhoWrites
<1>5. InMemoryBounded'
  <2>1. CASE records' = records /\ ~ Load
    <3> SUFFICES ASSUME NEW s \in Sessions
                 PROVE  records[s].deletedAt <= lastDeletedAt'
      BY <2>1
    <3>1. records[s].deletedAt \in Int /\ lastDeletedAt \in Int /\ lastDeletedAt' \in Int
      BY TypesStep DEF Inv, TypeOK, Records, Record
    <3> QED BY <1>1, <1>2, <2>1, <3>1
  <2>2. CASE Load
    BY <1>2, <1>1, <2>2, LoadedStamp DEF Load, Inv
  <2>3. ASSUME NEW c \in Tasks, Publish(c), NEW s \in Sessions
        PROVE  records'[s].deletedAt <= lastDeletedAt'
    <3>1. Active(c) /\ Saving(c)
      BY <2>3 DEF Publish, Saving
    <3> QED BY <2>3, <3>1, SavedMap DEF Publish
  <2> QED BY <2>1, <2>2, <2>3, WhoWrites
<1> QED BY <1>3, <1>4, <1>5 DEF StampsBounded

\* An answered deletion is in the map a change saves, unless it restores it.
LEMMA TrashStep ==
  ASSUME Inv, [Next]_vars
  PROVE  TrashKnown' /\ TrashSurvives'
<1>1. \A s \in trashed : records[s].phase # "none" /\ OnDisk(s) # "none"
  BY DEF Inv, TrashKnown, TrashSurvives
<1>2. trashed \subseteq Sessions
  BY DEF Inv, TypeOK
<1>3. ASSUME NEW c \in Tasks, Rename(c)
      PROVE  TrashKnown' /\ TrashSurvives'
  <2>1. Active(c) /\ Saving(c) /\ Established(c) /\ task[c].op \in {"trash", "restore", "purge"}
    BY <1>3 DEF Rename, Saving, Inv, ChangesOK, Established, TypeOK, Task
  <2>2. records' = records /\ trashed' \subseteq trashed /\ journal'.records = task[c].plan
    BY <1>3 DEF Rename
  <2>3. ASSUME NEW s \in trashed'
        PROVE  task[c].plan[s].phase # "none"
    <3>1. CASE s # Id(c)
      BY <1>1, <1>2, <2>1, <2>2, <3>1, SavedMap
    <3>2. CASE s = Id(c)
      BY <1>3, <2>1, <3>2 DEF Rename, Established, Saving, Erasing
    <3> QED BY <3>1, <3>2
  <2> QED BY <1>1, <2>2, <2>3 DEF TrashKnown, TrashSurvives
<1>4. ASSUME NEW c \in Tasks, Publish(c)
      PROVE  TrashKnown' /\ TrashSurvives'
  <2>1. journal' = journal /\ records' = journal.records
    BY <1>4 DEF Publish, disk, Inv, ChangesOK, Established
  <2>2. \A s \in trashed' : s \in trashed \/ records'[s].phase = "trash"
    BY <1>4 DEF Publish
  <2> QED BY <1>1, <2>1, <2>2 DEF TrashKnown, TrashSurvives
<1>5. CASE trashed' = trashed /\ journal' = journal /\ (records' = records \/ Load)
  <2>1. records' \in {records, journal.records}
    BY <1>5 DEF Load
  <2> QED BY <1>1, <1>5, <2>1 DEF TrashKnown, TrashSurvives
<1> QED BY <1>3, <1>4, <1>5, WhoWrites

-----------------------------------------------------------------------------
(* One change at a time.                                                   *)

\* A step of a change concerns that change only.
LEMMA ChangeMoves ==
  ASSUME TypeOK, NEW c \in Tasks, ByTask(c)
  PROVE  /\ Active(c)
         /\ \A d \in Tasks : d # c => task'[d] = task[d]
         /\ \/ task'[c] = Idle
            \/ up' = up /\ Active(c)' /\ task'[c].op = task[c].op
               /\ Id(c)' = Id(c) /\ task'[c].record = task[c].record
<1> USE DEF memory
<1>1. Active(c)
  BY DEF ByTask, Archive, Restore, Rename, Publish, AcquireWriteLease, Intend,
         Detach, Withdraw, Unlink, FinishErasure, Refuse, Fail
<1>2. task[c] \in Task
  BY <1>1 DEF TypeOK
<1>3. \/ Done(c)
      \/ up' = up /\ task' = task
      \/ up' = up /\ \E step \in Step : Goto(c, step)
      \/ up' = up /\ \E r : Save(c, r)
  <2>1. CASE Archive(c) \/ Restore(c) \/ Rename(c) \/ Publish(c)
    BY <2>1 DEF Archive, Restore, Rename, Publish, Step
  <2>2. CASE AcquireWriteLease(c) \/ Intend(c) \/ Detach(c) \/ Withdraw(c)
    BY <2>2 DEF AcquireWriteLease, Intend, Detach, Withdraw, Step
  <2>3. CASE \E f \in Files : Unlink(c, f)
    BY <2>3 DEF Unlink
  <2>4. CASE FinishErasure(c) \/ Refuse(c) \/ Fail(c)
    BY <2>4 DEF FinishErasure, Refuse, Fail, EndWithError
  <2> QED BY <2>1, <2>2, <2>3, <2>4, Zenon DEF ByTask
<1>4. CASE Done(c)
  BY <1>1, <1>4 DEF Done, TypeOK
<1>5. CASE up' = up /\ task' = task
  BY <1>1, <1>5
<1>6. ASSUME up' = up, NEW step \in Step, Goto(c, step)
      PROVE  /\ \A d \in Tasks : d # c => task'[d] = task[d]
             /\ task'[c] = [task[c] EXCEPT !.step = step]
  BY <1>6 DEF Goto, TypeOK
<1>7. ASSUME up' = up, NEW r, Save(c, r)
      PROVE  /\ \A d \in Tasks : d # c => task'[d] = task[d]
             /\ task'[c] = [task[c] EXCEPT !.step = "rename",
                              !.plan = [records EXCEPT ![Id(c)] = r]]
  BY <1>7 DEF Save, TypeOK
<1>8. CASE up' = up /\ \E step \in Step : Goto(c, step)
  BY <1>1, <1>2, <1>6, <1>8 DEF Task, Step, Idle
<1>9. CASE up' = up /\ \E r : Save(c, r)
  BY <1>1, <1>2, <1>7, <1>9 DEF Task, Step, Idle
<1> QED BY <1>3, <1>4, <1>5, <1>8, <1>9

\* A new change finds nobody at work.
LEMMA ChangeBegins ==
  ASSUME Inv, NEW c \in Tasks, NEW op, NEW s \in Sessions, NEW step \in Step,
         Begin(c, op, s, step), \A d \in Tasks : ~ Active(d)
  PROVE  /\ Active(c)' /\ Id(c)' = s /\ task'[c].op = op /\ task'[c].step = step
         /\ task'[c].record = records[s]
         /\ \A d \in Tasks : d # c => ~ Active(d)'
<1>1. task' = [task EXCEPT ![c] = [step |-> step, op |-> op, id |-> s,
                                   record |-> records[s], plan |-> records]]
  BY DEF Begin
<1> QED BY <1>1 DEF Inv, TypeOK, Step, Idle

LEMMA OneChangeStep ==
  ASSUME Inv, [Next]_vars
  PROVE  OneChange'
<1> USE DEF disk, memory, dsh, history
<1>1. OneChange /\ TypeOK
  BY DEF Inv
<1>2. ASSUME NEW c \in Tasks, ByTask(c)
      PROVE  OneChange'
  BY <1>1, <1>2, ChangeMoves DEF OneChange
<1>3. ASSUME NEW c \in Callers, NEW s \in Sessions, ByCaller(c, s)
      PROVE  OneChange'
  <2>1. CASE Unarchive(c, s)
    BY <1>1, <2>1 DEF Unarchive, OneChange
  <2>2. CASE ~ Unarchive(c, s)
    <3>1. up = "serving" /\ up' = up /\ \A d \in Tasks : ~ Active(d)
      BY <1>3, <2>2 DEF ByCaller, StartArchive, StartRestore, StartPurge, MayStart
    <3>2. \E op \in {"archive", "trash", "restore", "purge"}, step \in Step :
            Begin(c, op, s, step)
      BY <1>3, <2>2 DEF ByCaller, StartArchive, StartRestore, StartPurge, Step
    <3>3. c # Startup
      BY LifecycleAssumption
    <3> QED BY <3>1, <3>2, <3>3, ChangeBegins DEF OneChange
  <2> QED BY <2>1, <2>2
<1>4. CASE ByReady \/ Crash
  <2>1. CASE Crash
    BY <2>1 DEF Crash, OneChange
  <2>2. CASE Load
    BY <1>1, <2>2 DEF Load, OneChange
  <2>3. Starting => \A d \in Tasks : ~ Active(d)
    BY <1>1 DEF Starting, OneChange
  <2>4. CASE RefuseStart \/ FailStart \/ Serve
    BY <2>3, <2>4 DEF RefuseStart, FailStart, Serve, OneChange
  <2>5. ASSUME NEW s \in Sessions, ResumePurge(s)
        PROVE  OneChange'
    BY <2>3, <2>5, ChangeBegins DEF ResumePurge, OneChange, Starting, Step
  <2>6. ASSUME NEW s \in Sessions, Reassert(s)
        PROVE  OneChange'
    BY <1>1, <2>6 DEF Reassert, OneChange
  <2> QED BY <1>4, <2>1, <2>2, <2>4, <2>5, <2>6 DEF ByReady
<1>5. ASSUME NEW s \in Sessions, ByDsh(s)
      PROVE  OneChange'
  BY <1>1, <1>5 DEF ByDsh, Open, Work, Rest, ForeignWriter, OneChange
<1>6. CASE UNCHANGED vars
  BY <1>1, <1>6 DEF vars, OneChange
<1> HIDE DEF disk, memory, dsh, history
<1> QED BY <1>2, <1>3, <1>4, <1>5, <1>6, NextSplit

-----------------------------------------------------------------------------
(* What a change has established when it gets to a step.                   *)

LEMMA GotoMoves ==
  ASSUME TypeOK, NEW c \in Tasks, Active(c), NEW step \in Step, Goto(c, step)
  PROVE  /\ task'[c].step = step /\ task'[c].op = task[c].op
         /\ task'[c].record = task[c].record
         /\ Id(c)' = Id(c) /\ task'[c].plan = task[c].plan
<1>1. task[c] \in Task
  BY DEF TypeOK
<1>2. task'[c] = [task[c] EXCEPT !.step = step]
  BY DEF Goto, TypeOK
<1> QED BY <1>1, <1>2 DEF Task

LEMMA SaveMoves ==
  ASSUME TypeOK, NEW c \in Tasks, Active(c), NEW r, Save(c, r)
  PROVE  /\ task'[c].step = "rename" /\ task'[c].op = task[c].op
         /\ task'[c].record = task[c].record
         /\ Id(c)' = Id(c) /\ task'[c].plan[Id(c)] = r
         /\ task'[c].plan = [records EXCEPT ![Id(c)] = task'[c].plan[Id(c)]]
<1>1. task[c] \in Task /\ Id(c) \in Sessions /\ records \in Records
  BY DEF TypeOK, Task
<1>2. task'[c] = [task[c] EXCEPT !.step = "rename", !.plan = [records EXCEPT ![Id(c)] = r]]
  BY DEF Save, TypeOK
<1>3. [records EXCEPT ![Id(c)] = r][Id(c)] = r
  BY <1>1 DEF Records
<1> QED BY <1>1, <1>2, <1>3 DEF Task

\* A change may save a record that suits its operation.
LEMMA SaveEstablishes ==
  ASSUME TypeOK, NEW c \in Tasks, Active(c), NEW r, Save(c, r),
         UNCHANGED <<records, journal>>,
         \/ /\ task[c].op = "trash" /\ r.phase = "trash"
            /\ records[Id(c)].phase = "none" /\ r.deletedAt > journal.last
         \/ task[c].op = "restore" /\ r = NoRecord /\ records[Id(c)].phase = "trash"
         \/ /\ task[c].op = "purge" /\ r.phase \in Erasing
            /\ task[c].record.deletedAt <= lastDeletedAt',
         r.phase = "purged" => Bare(Id(c))',
         r.deletedAt <= lastDeletedAt'
  PROVE  Established(c)'
<1>1. /\ task'[c].step = "rename" /\ task'[c].op = task[c].op
      /\ task'[c].record = task[c].record
      /\ task'[c].id = task[c].id /\ task'[c].plan[task[c].id] = r
      /\ task'[c].plan = [records EXCEPT ![task[c].id] = task'[c].plan[task[c].id]]
  BY SaveMoves
<1>2. NoRecord.phase = "none"
  BY DEF NoRecord, Entry
<1>3. task[c].op \in {"trash", "restore", "purge"}
  OBVIOUS
<1>4. task'[c].op = "purge" => task'[c].record.deletedAt <= lastDeletedAt'
  BY <1>1
<1>5. /\ task'[c].op # "archive"
      /\ task'[c].op = "trash" => r.phase = "trash" /\ records[Id(c)].phase = "none"
      /\ task'[c].op = "restore" => r = NoRecord /\ records[Id(c)].phase = "trash"
      /\ task'[c].op = "purge" => r.phase \in Erasing
  BY <1>1
<1>6. r.phase = "trash" => r.deletedAt > journal'.last
  BY <1>2 DEF Erasing
<1> QED BY <1>1, <1>4, <1>5, <1>6 DEF Established, Saving, Bare

LEMMA EstablishedStep ==
  ASSUME Inv, [Next]_vars, NEW c \in Tasks, ByTask(c), Active(c)'
  PROVE  Established(c)'
<1> USE DEF disk, dsh, history
<1>1. TypeOK /\ Active(c) /\ Established(c) /\ task[c] \in Task /\ Id(c) \in Sessions
  <2>1. Active(c)
    BY ChangeMoves DEF Inv
  <2> QED BY <2>1 DEF Inv, ChangesOK, TypeOK, Task
<1>2. CASE Archive(c)
  <2>1. task[c].op = "trash"
    BY <1>1, <1>2 DEF Archive, Done, TypeOK
  <2>2. PICK at \in lastDeletedAt + 1 .. MaxTime :
          /\ lastDeletedAt' = at
          /\ Save(c, Entry("trash", Id(c) \in archived, at))
    BY <1>2, <2>1 DEF Archive
  <2>3. at > journal.last
    BY <2>2 DEF Inv, StampsBounded, TypeOK
  <2>4. Entry("trash", Id(c) \in archived, at).deletedAt = at
        /\ Entry("trash", Id(c) \in archived, at).phase = "trash"
    BY DEF Entry
  <2>5. records' = records /\ journal' = journal /\ records[Id(c)].phase = "none"
    BY <1>1, <1>2 DEF Archive, Established
  <2> DEFINE r == Entry("trash", Id(c) \in archived, at)
  <2>6. lastDeletedAt' \in Int /\ r.deletedAt <= lastDeletedAt'
    BY <2>2, <2>4
  <2> HIDE DEF r
  <2> QED BY <1>1, <2>1, <2>2, <2>3, <2>4, <2>5, <2>6, SaveEstablishes DEF r
<1>3. CASE Restore(c)
  <2>1. NoRecord.phase = "none" /\ NoRecord.deletedAt = 0
    BY DEF NoRecord, Entry
  <2>2. UNCHANGED <<records, journal, lastDeletedAt>> /\ Save(c, NoRecord)
    BY <1>3 DEF Restore
  <2>3. task[c].op = "restore" /\ records[Id(c)].phase = "trash"
    BY <1>1, <1>3 DEF Restore, Established
  <2>4. NoRecord.deletedAt <= lastDeletedAt'
    BY <1>1, <2>1, <2>2, LifecycleAssumption DEF TypeOK
  <2> QED BY <1>1, <2>1, <2>2, <2>3, <2>4, SaveEstablishes
<1>4. CASE Rename(c)
  BY <1>1, <1>4, GotoMoves DEF Rename, Established, Saving, Step, Bare
<1>5. CASE Publish(c)
  <2>1. task[c].plan[Id(c)].phase = "purging" /\ Goto(c, "detach")
    BY <1>1, <1>5 DEF Publish, Done, TypeOK
  <2>2. records' = task[c].plan /\ journal' = journal /\ lastDeletedAt' = lastDeletedAt
        /\ journal.records = task[c].plan /\ task[c].op = "purge"
    BY <1>1, <1>5, <2>1 DEF Publish, Established, Saving, NoRecord, Entry, Task
  <2> QED BY <1>1, <2>1, <2>2, GotoMoves DEF Established, Saving, Step
<1>6. CASE AcquireWriteLease(c)
  BY <1>1, <1>6, GotoMoves DEF AcquireWriteLease, Established, Saving, Step
<1>7. CASE Intend(c)
  <2>1. task[c].record \in Record /\ task[c].op = "purge"
    BY <1>1, <1>7 DEF Intend, Established, Task
  <2>2. [task[c].record EXCEPT !.phase = "purging"].phase = "purging"
        /\ [task[c].record EXCEPT !.phase = "purging"].deletedAt = task[c].record.deletedAt
    BY <2>1 DEF Record
  <2>3. UNCHANGED <<records, journal, lastDeletedAt>>
        /\ Save(c, [task[c].record EXCEPT !.phase = "purging"])
    BY <1>7 DEF Intend
  <2>4. task[c].record.deletedAt <= lastDeletedAt
    BY <1>1, <2>1 DEF Established
  <2> QED BY <1>1, <2>1, <2>2, <2>3, <2>4, SaveEstablishes DEF Erasing
<1>8. CASE Detach(c) \/ Withdraw(c)
  BY <1>1, <1>8, GotoMoves DEF Detach, Withdraw, Established, Saving, Step
<1>9. ASSUME NEW f \in Files, Unlink(c, f)
      PROVE  Established(c)'
  BY <1>1, <1>9 DEF Unlink, memory, Established, Saving
<1>10. CASE FinishErasure(c)
  <2> DEFINE r == Entry("purged", FALSE, task[c].record.deletedAt)
  <2>1. r.phase = "purged" /\ r.deletedAt = task[c].record.deletedAt
    BY DEF Entry
  <2>2. UNCHANGED <<records, journal, lastDeletedAt>> /\ Save(c, r)
    BY <1>10 DEF FinishErasure
  <2>3. task[c].op = "purge" /\ task[c].record.deletedAt <= lastDeletedAt
    BY <1>1, <1>10 DEF FinishErasure, Established
  <2>4. Id(c)' = Id(c) /\ Bare(Id(c))'
    BY <1>1, <1>10, <2>2, SaveMoves DEF FinishErasure, Erased, Bare
  <2> HIDE DEF r
  <2> QED BY <1>1, <2>1, <2>2, <2>3, <2>4, SaveEstablishes DEF Erasing, Bare
<1>11. CASE Refuse(c) \/ Fail(c)
  BY <1>1, <1>11 DEF Refuse, Fail, EndWithError, Done, TypeOK
<1> QED BY <1>2, <1>3, <1>4, <1>5, <1>6, <1>7, <1>8, <1>9, <1>10, <1>11, Zenon DEF ByTask

LEMMA ChangesStep ==
  ASSUME Inv, [Next]_vars
  PROVE  ChangesOK'
<1> USE DEF disk, memory, dsh, history
<1>1. OneChange /\ ChangesOK /\ TypeOK
  BY DEF Inv
<1>2. ASSUME NEW c \in Tasks, ByTask(c)
      PROVE  ChangesOK'
  <2>1. \A d \in Tasks : d # c => ~ Active(d)'
    BY <1>1, <1>2, ChangeMoves DEF OneChange
  <2> QED BY <1>2, <2>1, EstablishedStep DEF ChangesOK
<1>3. ASSUME NEW c \in Tasks, NEW s \in Sessions, NEW step \in Step,
             NEW op \in {"archive", "trash", "restore", "purge"},
             Begin(c, op, s, step), \A d \in Tasks : ~ Active(d),
             UNCHANGED <<journal, records, lastDeletedAt>>,
             \/ step = "archive" /\ op \in {"archive", "trash"} /\ Phase(s) = "none"
             \/ step = "unarchive" /\ op = "restore" /\ Phase(s) = "trash"
             \/ step = "lease" /\ op = "purge" /\ Phase(s) \in {"trash", "purging"}
      PROVE  ChangesOK'
  <2>1. records[s].deletedAt <= lastDeletedAt
    BY DEF Inv, StampsBounded
  <2>2. Established(c)'
    BY <1>3, <2>1, ChangeBegins DEF Established, Saving
  <2> QED BY <1>3, <2>2, ChangeBegins DEF ChangesOK
<1>4. ASSUME NEW c \in Callers, NEW s \in Sessions, ByCaller(c, s)
      PROVE  ChangesOK'
  <2>1. CASE Unarchive(c, s)
    BY <2>1 DEF Unarchive, MayStart, ChangesOK
  <2>2. CASE StartArchive(c, "archive", s) \/ StartArchive(c, "trash", s)
    BY <1>3, <2>2 DEF StartArchive, MayStart, Step
  <2>3. CASE StartRestore(c, s)
    BY <1>3, <2>3 DEF StartRestore, MayStart, Step
  <2>4. CASE StartPurge(c, s)
    BY <1>3, <2>4 DEF StartPurge, MayStart, Step
  <2> QED BY <1>4, <2>1, <2>2, <2>3, <2>4 DEF ByCaller
<1>5. CASE ByReady \/ Crash
  <2>1. Starting \/ up = "down" => \A d \in Tasks : ~ Active(d)
    BY <1>1 DEF Starting, OneChange
  <2>2. ASSUME NEW s \in Sessions, ResumePurge(s)
        PROVE  ChangesOK'
    BY <1>3, <2>1, <2>2 DEF ResumePurge, Interrupted, Step
  <2>3. CASE Load \/ RefuseStart \/ FailStart \/ Serve
    BY <2>1, <2>3 DEF Load, RefuseStart, FailStart, Serve, ChangesOK
  <2>4. ASSUME NEW s \in Sessions, Reassert(s)
        PROVE  ChangesOK'
    BY <2>1, <2>4 DEF Reassert, ChangesOK
  <2>5. CASE Crash
    BY <2>5 DEF Crash, ChangesOK
  <2> QED BY <1>5, <2>2, <2>3, <2>4, <2>5 DEF ByReady
<1>6. ASSUME NEW s \in Sessions, ByDsh(s)
      PROVE  ChangesOK'
  <2>1. UNCHANGED <<disk, memory>>
    BY <1>6 DEF ByDsh, Open, Work, Rest, ForeignWriter
  <2> QED BY <1>1, <2>1 DEF ChangesOK, Established, Saving, Bare
<1>7. CASE UNCHANGED vars
  BY <1>1, <1>7 DEF vars, ChangesOK, Established, Saving, Bare
<1> HIDE DEF disk, memory, dsh, history
<1> QED BY <1>2, <1>4, <1>5, <1>6, <1>7, NextSplit

-----------------------------------------------------------------------------
(* The write lease, and the start of the connector.                        *)

\* Steps of changes that neither take nor give back a lease.
LEMMA LeasesKept ==
  ASSUME Inv, NEW c \in Tasks, Active(c),
         \A d \in Tasks : d # c => task'[d] = task[d],
         UNCHANGED <<lock, running>>,
         IF Leased(c) THEN Active(c)' /\ Leased(c)' /\ Id(c)' = Id(c)
                      ELSE ~ (Active(c) /\ Leased(c))'
  PROVE  Leases'
<1>1. Leases /\ OneChange
  BY DEF Inv
<1>2. \A d \in Tasks : d # c => (Active(d) <=> Active(d)') /\ (Leased(d) <=> Leased(d)') /\ Id(d)' = Id(d)
  BY DEF Leased
<1>3. \A s \in Sessions : s \in running' => "dsh" \in lock'[s]
  BY <1>1 DEF Leases
<1>4. \A d \in Tasks : Active(d)' /\ Leased(d)' => lock'[Id(d)'] = {"lifecycle"}
  BY <1>1, <1>2 DEF Leases
<1>5. \A s \in Sessions : "lifecycle" \in lock'[s] =>
        \E d \in Tasks : Active(d)' /\ Id(d)' = s /\ Leased(d)'
  BY <1>1, <1>2 DEF Leases
<1> QED BY <1>3, <1>4, <1>5 DEF Leases

\* The end of a change leaves no lease.
LEMMA LeaseGivenBack ==
  ASSUME Inv, NEW c \in Tasks, Active(c), Done(c), lock' = Released(c), running' = running
  PROVE  Leases'
<1>1. Leases /\ OneChange /\ TypeOK /\ Id(c) \in Sessions
  BY DEF Inv, TypeOK, Task
<1>2. \A d \in Tasks : ~ Active(d)'
  BY <1>1 DEF Done, OneChange, TypeOK
<1>3. \A s \in Sessions : lock'[s] = lock[s] \ (IF s = Id(c) THEN {"lifecycle"} ELSE {})
  BY <1>1 DEF Released, TypeOK
<1>4. \A s \in Sessions : "lifecycle" \in lock[s] => s = Id(c)
  BY <1>1 DEF Leases, OneChange
<1>5. \A s \in Sessions : "lifecycle" \notin lock'[s] /\ (s \in running' => "dsh" \in lock'[s])
  BY <1>1, <1>3, <1>4 DEF Leases
<1> QED BY <1>2, <1>5 DEF Leases

LEMMA LeasesStep ==
  ASSUME Inv, [Next]_vars
  PROVE  Leases'
<1> USE DEF disk, memory, dsh, history
<1>1. OneChange /\ ChangesOK /\ TypeOK /\ Leases
  BY DEF Inv
<1>2. ASSUME NEW c \in Tasks, ByTask(c)
      PROVE  Leases'
  <2>1. /\ Active(c) /\ Established(c) /\ task[c] \in Task /\ Id(c) \in Sessions
        /\ \A d \in Tasks : d # c => task'[d] = task[d]
    BY <1>1, <1>2, ChangeMoves DEF ChangesOK, TypeOK, Task
  <2>2. CASE Archive(c) \/ Restore(c)
    <3>1. UNCHANGED <<lock, running>> /\ task[c].op # "purge"
      BY <2>1, <2>2 DEF Archive, Restore, Established
    <3>2. ~ Leased(c) /\ ~ (Active(c)' /\ Leased(c)')
      BY <1>2, <2>1, <3>1, ChangeMoves, <1>1 DEF Leased
    <3> QED BY <2>1, <3>1, <3>2, LeasesKept
  <2>3. CASE Rename(c) \/ Intend(c) \/ Detach(c) \/ Withdraw(c)
    <3>1. UNCHANGED <<lock, running>> /\ task[c].step # "lease"
      BY <2>3 DEF Rename, Intend, Detach, Withdraw
    <3>2. Active(c)' /\ Id(c)' = Id(c) /\ task'[c].op = task[c].op
          /\ task'[c].step # "lease"
      <4>1. CASE Intend(c)
        <5>1. PICK r : Save(c, r)
          BY <4>1 DEF Intend
        <5>2. task'[c].step = "rename" /\ task'[c].op = task[c].op /\ Id(c)' = Id(c)
          BY <1>1, <2>1, <5>1, SaveMoves
        <5> QED BY <5>2 DEF Idle
      <4>2. CASE ~ Intend(c)
        <5>1. PICK step \in {"publish", "withdraw", "unlink"} : Goto(c, step)
          BY <2>3, <4>2 DEF Rename, Detach, Withdraw
        <5> QED BY <1>1, <2>1, <5>1, GotoMoves DEF Step, Idle
      <4> QED BY <4>1, <4>2
    <3> QED BY <2>1, <3>1, <3>2, LeasesKept DEF Leased
  <2>4. CASE Publish(c)
    <3>1. task[c].op = "purge" <=> task[c].plan[Id(c)].phase \in Erasing
      BY <2>1, <2>4 DEF Publish, Established, Saving, Erasing, NoRecord, Entry, Task
    <3>2. CASE task[c].plan[Id(c)].phase = "purging"
      <4>1. Goto(c, "detach") /\ UNCHANGED <<lock, running>>
        BY <2>4, <3>2 DEF Publish
      <4>2. Active(c)' /\ Leased(c)' /\ Leased(c) /\ Id(c)' = Id(c)
        BY <1>1, <2>1, <2>4, <3>1, <3>2, <4>1, GotoMoves
           DEF Leased, Erasing, Step, Idle, Publish
      <4> QED BY <2>1, <4>1, <4>2, LeasesKept
    <3>3. CASE task[c].plan[Id(c)].phase = "purged"
      BY <2>1, <2>4, <3>3, LeaseGivenBack DEF Publish
    <3>4. CASE task[c].plan[Id(c)].phase \notin Erasing
      <4>1. Done(c) /\ UNCHANGED <<lock, running>> /\ ~ Leased(c)
        BY <2>4, <3>1, <3>4 DEF Publish, Erasing, Leased
      <4>2. ~ Active(c)'
        BY <1>1, <4>1 DEF Done, TypeOK
      <4> QED BY <2>1, <4>1, <4>2, LeasesKept
    <3> QED BY <3>2, <3>3, <3>4 DEF Erasing
  <2>5. CASE AcquireWriteLease(c)
    <3>1. /\ lock[Id(c)] = {} /\ lock'[Id(c)] = {"lifecycle"} /\ running' = running
          /\ \A s \in Sessions : s # Id(c) => lock'[s] = lock[s]
      BY <1>1, <2>1, <2>5 DEF AcquireWriteLease, CanLease, TypeOK
    <3>2. Active(c)' /\ Leased(c)' /\ Id(c)' = Id(c) /\ ~ Leased(c)
      BY <1>1, <2>1, <2>5, GotoMoves DEF AcquireWriteLease, Established, Leased, Step, Idle
    <3>3. \A s \in Sessions : s \in running' => "dsh" \in lock'[s]
      BY <1>1, <3>1 DEF Leases
    <3>4. \A d \in Tasks : d # c => ~ Active(d)'
      BY <1>1, <2>1 DEF OneChange
    <3>5. \A s \in Sessions : "lifecycle" \in lock'[s] => s = Id(c)
      BY <1>1, <2>1, <3>1, <3>2 DEF Leases, OneChange
    <3> QED BY <3>1, <3>2, <3>3, <3>4, <3>5 DEF Leases
  <2>6. ASSUME NEW f \in Files, Unlink(c, f)
        PROVE  Leases'
    BY <1>1, <2>6 DEF Unlink, Leases, Leased
  <2>7. CASE FinishErasure(c)
    <3>1. PICK r : Save(c, r)
      BY <2>7 DEF FinishErasure
    <3>2. task'[c].step = "rename" /\ task'[c].op = task[c].op /\ Id(c)' = Id(c)
      BY <1>1, <2>1, <3>1, SaveMoves
    <3>3. task[c].op = "purge" /\ task[c].step = "unlink"
      BY <2>1, <2>7 DEF FinishErasure, Established
    <3>4. Active(c)' /\ Leased(c)' /\ Leased(c)
      BY <3>2, <3>3 DEF Leased, Idle
    <3> QED BY <2>1, <2>7, <3>2, <3>4, LeasesKept DEF FinishErasure
  <2>8. CASE Refuse(c) \/ Fail(c)
    BY <2>1, <2>8, LeaseGivenBack DEF Refuse, Fail, EndWithError
  <2> QED BY <1>2, <2>2, <2>3, <2>4, <2>5, <2>6, <2>7, <2>8, Zenon DEF ByTask
<1>3. ASSUME NEW c \in Tasks, NEW s \in Sessions, NEW step \in {"archive", "unarchive", "lease"},
             NEW op \in {"archive", "trash", "restore", "purge"},
             Begin(c, op, s, step), \A d \in Tasks : ~ Active(d), UNCHANGED dsh,
             op = "purge" => step = "lease"
      PROVE  Leases'
  <2>1. \A d \in Tasks : ~ (Active(d)' /\ Leased(d)')
    BY <1>3, ChangeBegins DEF Leased, Step
  <2> QED BY <1>1, <1>3, <2>1 DEF Leases
<1>4. ASSUME NEW c \in Callers, NEW s \in Sessions, ByCaller(c, s)
      PROVE  Leases'
  <2>1. CASE Unarchive(c, s)
    BY <1>1, <2>1 DEF Unarchive, Leases, Leased
  <2>2. CASE StartArchive(c, "archive", s) \/ StartArchive(c, "trash", s)
    BY <1>3, <2>2 DEF StartArchive, MayStart
  <2>3. CASE StartRestore(c, s)
    BY <1>3, <2>3 DEF StartRestore, MayStart
  <2>4. CASE StartPurge(c, s)
    BY <1>3, <2>4 DEF StartPurge, MayStart
  <2> QED BY <1>4, <2>1, <2>2, <2>3, <2>4 DEF ByCaller
<1>5. CASE ByReady \/ Crash
  <2>1. CASE Crash
    BY <1>1, <2>1 DEF Crash, Leases
  <2>2. ASSUME NEW s \in Sessions, ResumePurge(s)
        PROVE  Leases'
    BY <1>1, <1>3, <2>2 DEF ResumePurge, Starting, OneChange
  <2>3. CASE UNCHANGED <<task, dsh>>
    BY <1>1, <2>3 DEF Leases, Leased
  <2>4. Load \/ RefuseStart \/ FailStart \/ Serve \/ (\E s \in Sessions : Reassert(s))
          => UNCHANGED <<task, dsh>>
    BY DEF Load, RefuseStart, FailStart, Serve, Reassert
  <2> QED BY <1>5, <2>1, <2>2, <2>3, <2>4 DEF ByReady
<1>6. ASSUME NEW s \in Sessions, ByDsh(s)
      PROVE  Leases'
  <2>1. task' = task /\ \A x \in Sessions : x # s => lock'[x] = lock[x] /\ (x \in running' => x \in running)
    BY <1>1, <1>6 DEF ByDsh, Open, Work, Rest, ForeignWriter, TypeOK
  <2>2. /\ s \in running' => "dsh" \in lock'[s]
        /\ "lifecycle" \in lock'[s] => "lifecycle" \in lock[s]
        /\ lock[s] = {"lifecycle"} => lock'[s] = lock[s]
    BY <1>1, <1>6 DEF ByDsh, Open, Work, Rest, ForeignWriter, TypeOK, Leases
  <2>3. \A x \in Sessions : x \in running' => "dsh" \in lock'[x]
    BY <1>1, <2>1, <2>2 DEF Leases
  <2>4. \A c \in Tasks : Active(c) => Id(c) \in Sessions
    BY <1>1 DEF TypeOK, Task
  <2> QED BY <1>1, <2>1, <2>2, <2>3, <2>4 DEF Leases, Leased
<1>7. CASE UNCHANGED vars
  BY <1>1, <1>7 DEF vars, Leases, Leased
<1> HIDE DEF disk, memory, dsh, history
<1> QED BY <1>2, <1>4, <1>5, <1>6, <1>7, NextSplit

LEMMA FreshStep ==
  ASSUME Inv, [Next]_vars
  PROVE  FreshStart'
<1> USE DEF disk, memory, dsh, history
<1>1. OneChange /\ ChangesOK /\ TypeOK /\ FreshStart
  BY DEF Inv
<1>2. ASSUME NEW c \in Tasks, ByTask(c)
      PROVE  FreshStart'
  <2>1. SUFFICES ASSUME up' = "starting"
                 PROVE  FreshStart'
    BY DEF FreshStart
  <2>2. up = "starting" /\ c = Startup /\ Active(c) /\ Established(c)
    <3>1. up' = up \/ up' = "stopped"
      BY <1>2 DEF ByTask, Archive, Restore, Rename, Publish, AcquireWriteLease, Intend, Detach,
                  Withdraw, Unlink, FinishErasure, Refuse, Fail, EndWithError, StoppedBy
    <3> QED BY <1>1, <1>2, <2>1, <3>1, ChangeMoves DEF OneChange, ChangesOK
  <2>3. CASE Rename(c)
    BY <1>1, <2>2, <2>3, GotoMoves DEF Rename, FreshStart, Step, Idle
  <2>4. CASE Publish(c)
    BY <2>2, <2>4 DEF Publish, Established, FreshStart
  <2>5. CASE Refuse(c) \/ Fail(c)
    BY <2>1, <2>2, <2>5 DEF Refuse, Fail, EndWithError, StoppedBy
  <2>6. CASE ~ (Rename(c) \/ Publish(c) \/ Refuse(c) \/ Fail(c))
    BY <1>1, <1>2, <2>2, <2>6 DEF FreshStart, ByTask, Archive, Restore, AcquireWriteLease,
       Intend, Detach, Withdraw, Unlink, FinishErasure
  <2> QED BY <2>3, <2>4, <2>5, <2>6
<1>3. ASSUME NEW c \in Callers, NEW s \in Sessions, ByCaller(c, s)
      PROVE  FreshStart'
  BY <1>3 DEF ByCaller, StartArchive, Unarchive, StartRestore, StartPurge, MayStart, FreshStart
<1>4. CASE ByReady \/ Crash
  BY <1>1, <1>4 DEF ByReady, Load, RefuseStart, FailStart, Serve, ResumePurge, Reassert, Crash,
                    Starting, FreshStart
<1>5. ASSUME NEW s \in Sessions, ByDsh(s)
      PROVE  FreshStart'
  BY <1>1, <1>5 DEF ByDsh, Open, Work, Rest, ForeignWriter, FreshStart
<1>6. CASE UNCHANGED vars
  BY <1>1, <1>6 DEF vars, FreshStart
<1> HIDE DEF disk, memory, dsh, history
<1> QED BY <1>2, <1>3, <1>4, <1>5, <1>6, NextSplit

-----------------------------------------------------------------------------
(* The theorems.                                                           *)

LEMMA InvInit == Init => Inv
<1> SUFFICES ASSUME Init
             PROVE  Inv
  OBVIOUS
<1> USE LifecycleAssumption DEF Init
<1>1. NoRecord \in Record /\ NoRecord.phase = "none" /\ NoRecord.deletedAt = 0
  BY DEF NoRecord, Entry, Record
<1>2. TypeOK
  <2>1. journal \in [last : 0 .. MaxTime, records : Records] /\ records \in Records
    BY <1>1 DEF Records
  <2> QED BY <2>1 DEF TypeOK
<1>3. OneChange /\ ChangesOK /\ FreshStart /\ TrashKnown /\ TrashSurvives
  BY DEF OneChange, ChangesOK, FreshStart, TrashKnown, TrashSurvives
<1>4. Leases
  BY DEF Leases
<1>5. StampsBounded
  BY <1>1 DEF StampsBounded
<1>6. MemoryKnows /\ IntentComesFirst /\ PurgedIsErased
  BY <1>1 DEF MemoryKnows, IntentComesFirst, PurgedIsErased, Gone
<1> QED BY <1>2, <1>3, <1>4, <1>5, <1>6 DEF Inv

\* The inductive invariant holds throughout.
THEOREM LifecycleInvariant == Spec => []Inv
<1>1. Inv /\ [Next]_vars => Inv'
  <2> SUFFICES ASSUME Inv, [Next]_vars
               PROVE  Inv'
    OBVIOUS
  <2>1. TypeOK'
    BY TypesStep DEF Inv
  <2> QED BY <2>1, OneChangeStep, MemoryStep, StampsStep, ChangesStep, LeasesStep, FreshStep,
             TrashStep, IntentStep, PurgedStep DEF Inv
<1> QED BY InvInit, <1>1, PTL DEF Spec

\* The state keeps its types: no change, crash or error leaves a record, a task
\* or a lock that the code could not read.
THEOREM LifecycleTypes == Spec => []TypeOK
<1>1. Inv => TypeOK
  BY DEF Inv
<1> QED BY LifecycleInvariant, <1>1, PTL

\* Nothing of a session is taken away before its erasure is on disk.
THEOREM IntentIsDurable == Spec => []IntentComesFirst
<1>1. Inv => IntentComesFirst
  BY DEF Inv
<1> QED BY LifecycleInvariant, <1>1, PTL

\* A session that the journal calls purged has nothing left.
THEOREM TombstoneIsLast == Spec => []PurgedIsErased
<1>1. Inv => PurgedIsErased
  BY DEF Inv
<1> QED BY LifecycleInvariant, <1>1, PTL

\* A deletion that was answered outlives crashes, errors and other changes.
THEOREM AnsweredTrashStays == Spec => []TrashSurvives
<1>1. Inv => TrashSurvives
  BY DEF Inv
<1> QED BY LifecycleInvariant, <1>1, PTL

\* Only a session that is being erased has its lock held by the lifecycle.
THEOREM LeaseComesBack == Spec => []LeaseIsReturned
<1>1. Inv => LeaseIsReturned
  BY DEF Inv, Leases, Leased, LeaseIsReturned
<1> QED BY LifecycleInvariant, <1>1, PTL

\* A log is unlinked only by the holder of its lock, and never at work.
THEOREM EraserIsAlone == Spec => EraserHoldsTheLog
<1>1. ASSUME Inv, [Next]_vars, NEW s \in Sessions, files'[s] # files[s]
      PROVE  lock[s] = {"lifecycle"} /\ s \notin running
  <2>1. PICK c \in Tasks : /\ Active(c) /\ Id(c) = s /\ task[c].step \in {"detach", "unlink"}
                           /\ task[c].op = "purge"
    BY <1>1, TakenApart
  <2>2. lock[s] = {"lifecycle"}
    BY <1>1, <2>1 DEF Inv, Leases, Leased
  <2> QED BY <1>1, <2>2 DEF Inv, Leases
<1>2. Inv /\ [Next]_vars =>
        [\A s \in Sessions : files'[s] # files[s] =>
           lock[s] = {"lifecycle"} /\ s \notin running]_vars
  BY <1>1
<1> QED BY LifecycleInvariant, <1>2, PTL DEF Spec, EraserHoldsTheLog

\* Deletions are stamped in the order in which they reach the disk.
THEOREM StampsRise == Spec => GenerationsRise
<1> DEFINE A == /\ journal'.last >= journal.last
                /\ \A s \in Sessions :
                     (OnDisk(s) = "none" /\ journal'.records[s].phase = "trash")
                       => \/ journal'.records[s].deletedAt > journal.last
                          \/ journal'.records[s] = records[s]
<1>1. ASSUME Inv, NEW c \in Tasks, Rename(c)
      PROVE  A
  <2>1. Active(c) /\ Saving(c) /\ Established(c)
    BY <1>1 DEF Rename, Saving, Inv, ChangesOK
  <2>2. journal'.last = lastDeletedAt /\ journal'.records = task[c].plan
    BY <1>1 DEF Rename
  <2>3. journal'.last >= journal.last
    BY <1>1, <2>2 DEF Inv, StampsBounded, TypeOK
  <2>4. ASSUME NEW s \in Sessions, task[c].plan[s].phase = "trash"
        PROVE  \/ task[c].plan[s].deletedAt > journal.last
               \/ task[c].plan[s] = records[s]
    <3>1. CASE s # Id(c)
      BY <1>1, <2>1, <3>1, SavedMap
    <3>2. CASE s = Id(c)
      BY <1>1, <2>1, <2>4, <3>2 DEF Rename, Established
    <3> QED BY <3>1, <3>2
  <2> QED BY <2>2, <2>3, <2>4
<1>2. ASSUME Inv, journal' = journal
      PROVE  A
  BY <1>2 DEF Inv, TypeOK
<1>3. Inv /\ [Next]_vars => A
  <2> HIDE DEF A
  <2> QED BY <1>1, <1>2, WhoWrites
<1>4. Inv /\ [Next]_vars => [A]_vars
  BY <1>3
<1> QED BY LifecycleInvariant, <1>4, PTL DEF Spec, GenerationsRise

\* The connector serves only when nothing it found on disk is left half done.
THEOREM ServesClean == Spec => StartsClean
<1> DEFINE A == up = "starting" /\ up' = "serving" =>
                  \A s \in Sessions : /\ OnDisk(s) # "purging"
                                      /\ OnDisk(s) = "trash" => s \in archived
<1>1. ASSUME Inv, [Next]_vars, up = "starting", up' = "serving"
      PROVE  Serve
  BY <1>1 DEF Next, vars, disk, memory, dsh, history, StartArchive, Unarchive, StartRestore,
     StartPurge, Archive, Restore, Rename, Publish, AcquireWriteLease, Intend, Detach,
     Withdraw, Unlink, FinishErasure, Refuse, Fail, EndWithError, StoppedBy, Load,
     RefuseStart, FailStart, Serve, Crash, ResumePurge, Reassert, Open, Work, Rest,
     ForeignWriter
<1>2. ASSUME Inv, Serve, NEW s \in Sessions
      PROVE  OnDisk(s) # "purging" /\ (OnDisk(s) = "trash" => s \in archived)
  <2>1. journal.records = records
    BY <1>2 DEF Serve, Starting, Inv, FreshStart
  <2>2. OnDisk(s) # "purging"
    BY <1>2, <2>1 DEF Serve, Resumed, Interrupted
  <2>3. ASSUME OnDisk(s) = "trash"
        PROVE  s \in archived
    <3>1. ~ Gone(s)
      BY <1>2, <2>3 DEF Inv, IntentComesFirst, Gone
    <3>2. Log \in files[s]
      BY <3>1, LifecycleAssumption DEF Gone
    <3> QED BY <1>2, <2>1, <2>3, <3>2 DEF Serve, Unmarked
  <2> QED BY <2>2, <2>3
<1>3. Inv /\ [Next]_vars => [A]_vars
  BY <1>1, <1>2
<1> QED BY LifecycleInvariant, <1>3, PTL DEF Spec, StartsClean

-----------------------------------------------------------------------------
(* Where a session belongs.                                                *)

\* A change that is about to record a deletion or its end.
Keeps(c) == Active(c) /\ Saving(c) /\ task[c].op \in {"trash", "restore"}
Trashing(s) == \E c \in Tasks : Keeps(c) /\ task[c].op = "trash" /\ Id(c) = s

InPlace(s) == s \in archived <=> s \in chosen

\* A session without a record is where its user had it; the record of a deletion
\* remembers that place.
PlaceKept(r, s) ==
  /\ r.phase = "none" => InPlace(s)
  /\ r.phase = "trash" => (r.wasArchived <=> s \in chosen) /\ (r.wasArchived => s \in archived)

\* Memory and disk agree on it, except for a session whose deletion is half
\* recorded: its change is at work, or was cut short.
PlacesKept ==
  /\ \A s \in Sessions \ broken :
       /\ ~Trashing(s) => PlaceKept(records[s], s) /\ PlaceKept(journal.records[s], s)
       /\ OnDisk(s) = "trash" /\ Phase(s) = "none" => Trashing(s)
  /\ \A c \in Tasks : Keeps(c) /\ Id(c) \notin broken =>
       /\ task[c].op = "trash" => PlaceKept(task[c].plan[Id(c)], Id(c))
       /\ task[c].op = "restore" => InPlace(Id(c))

\* A step that leaves marks and records alone, and ends a deletion only by
\* calling it broken.
LEMMA PlacesSame ==
  ASSUME PlacesKept, UNCHANGED <<archived, chosen, records, journal>>, broken \subseteq broken',
         \A c \in Tasks : Keeps(c)' =>
           Keeps(c) /\ task'[c].op = task[c].op /\ task'[c].id = task[c].id /\ task'[c].plan = task[c].plan,
         \A c \in Tasks : Keeps(c) /\ task[c].op = "trash" =>
           \/ Keeps(c)' /\ task'[c].op = "trash" /\ task'[c].id = task[c].id
           \/ task[c].id \in broken'
  PROVE  PlacesKept'
<1>1. \A r, s : PlaceKept(r, s)' <=> PlaceKept(r', s') BY DEF PlaceKept, InPlace
<1>2. ASSUME NEW s \in Sessions \ broken'
      PROVE  /\ ~Trashing(s)' => PlaceKept(records[s], s)' /\ PlaceKept(journal.records[s], s)'
             /\ OnDisk(s)' = "trash" /\ Phase(s)' = "none" => Trashing(s)'
  <2>1. Trashing(s) => Trashing(s)' BY <1>2 DEF Trashing
  <2>2. s \in Sessions \ broken OBVIOUS
  <2> QED BY <2>1, <2>2 DEF PlacesKept, PlaceKept, InPlace
<1>3. ASSUME NEW c \in Tasks, Keeps(c)', Id(c)' \notin broken'
      PROVE  /\ task'[c].op = "trash" => PlaceKept(task[c].plan[Id(c)], Id(c))'
             /\ task'[c].op = "restore" => InPlace(Id(c))'
  <2>1. Keeps(c) /\ task'[c].op = task[c].op /\ task'[c].id = task[c].id /\ task'[c].plan = task[c].plan
    BY <1>3
  <2>2. Id(c) \notin broken BY <1>3, <2>1
  <2> QED BY <2>1, <2>2 DEF PlacesKept, PlaceKept, InPlace
<1> HIDE DEF Tasks, Id, Phase, OnDisk
<1> QED BY <1>2, <1>3 DEF PlacesKept

\* A step that moves the mark of one session while nobody records a deletion.
LEMMA PlacesMarked ==
  ASSUME PlacesKept, NEW x \in Sessions, UNCHANGED <<records, journal, broken>>,
         \A c \in Tasks : ~Keeps(c) /\ ~Keeps(c)',
         \A s \in Sessions \ {x} : (s \in archived' <=> s \in archived) /\ (s \in chosen' <=> s \in chosen),
         x \notin broken => PlaceKept(records[x], x)' /\ PlaceKept(journal.records[x], x)'
  PROVE  PlacesKept'
<1>1. \A s : ~Trashing(s) BY DEF Trashing
<1>2. ASSUME NEW s \in Sessions \ broken'
      PROVE  /\ PlaceKept(records[s], s)' /\ PlaceKept(journal.records[s], s)'
             /\ ~(OnDisk(s)' = "trash" /\ Phase(s)' = "none")
  <2>1. PlaceKept(records[s], s) /\ PlaceKept(journal.records[s], s)
        /\ ~(OnDisk(s) = "trash" /\ Phase(s) = "none")
    BY <1>1 DEF PlacesKept
  <2>2. CASE s = x BY <2>1, <2>2
  <2>3. CASE s # x BY <2>1, <2>3 DEF PlaceKept, InPlace
  <2> QED BY <2>2, <2>3
<1> HIDE DEF Tasks, Id, Phase, OnDisk
<1> QED BY <1>2 DEF PlacesKept

LEMMA OnlyKeeper ==
  ASSUME Inv, NEW c \in Tasks, Active(c)
  PROVE  /\ \A d \in Tasks : d # c => ~Keeps(d)
         /\ \A s : Trashing(s) => Keeps(c) /\ task[c].op = "trash" /\ task[c].id = s
BY DEF Inv, OneChange, Keeps, Trashing

LEMMA NoKeeper ==
  ASSUME \A c \in Tasks : ~Active(c)
  PROVE  \A c \in Tasks : ~Keeps(c)
BY DEF Keeps

\* The steps of a change that move no mark and write no record.
LEMMA PlacesQuiet ==
  ASSUME Inv, PlacesKept, NEW c \in Tasks,
         \/ AcquireWriteLease(c) \/ Intend(c) \/ Detach(c) \/ (\E f \in Files : Unlink(c, f))
         \/ Refuse(c) \/ Fail(c)
  PROVE  PlacesKept'
<1> USE DEF disk, memory, history
<1>0. ByTask(c) /\ TypeOK BY DEF ByTask, Inv
<1>1. /\ Active(c) /\ \A d \in Tasks : d # c => task'[d] = task[d] /\ ~Active(d)
      /\ Established(c)
  BY <1>0, ChangeMoves DEF Inv, OneChange, ChangesOK
<1>2. UNCHANGED <<archived, chosen, records, journal>> /\ broken \subseteq broken'
  BY DEF AcquireWriteLease, Intend, Detach, Unlink, Refuse, Fail, EndWithError
<1>3. \A d \in Tasks : d # c => ~Keeps(d) /\ ~Keeps(d)' BY <1>1 DEF Keeps, Saving
<1>4. CASE Refuse(c) \/ Fail(c)
  <2>1. task'[c] = Idle BY <1>0, <1>4 DEF Refuse, Fail, EndWithError, Done, TypeOK
  <2>2. ~Keeps(c)' BY <2>1 DEF Keeps
  <2>3. Keeps(c) /\ task[c].op = "trash" => task[c].id \in broken'
    BY <1>4 DEF Refuse, Fail, EndWithError, CutShort, Keeps, Saving
  <2> QED BY <1>2, <1>3, <2>2, <2>3, PlacesSame
<1>5. CASE AcquireWriteLease(c) \/ Intend(c) \/ Detach(c) \/ \E f \in Files : Unlink(c, f)
  <2>1. task[c].op = "purge" BY <1>1, <1>5 DEF AcquireWriteLease, Intend, Detach, Unlink, Established
  <2>2. task'[c].op = "purge" \/ task'[c] = Idle BY <1>0, <1>1, <2>1, ChangeMoves
  <2>3. ~Keeps(c) /\ ~Keeps(c)' BY <2>1, <2>2 DEF Keeps
  <2> QED BY <1>2, <1>3, <2>3, PlacesSame
<1> QED BY <1>4, <1>5

\* The archive mark goes with the log.
LEMMA PlacesErased ==
  ASSUME Inv, PlacesKept, NEW c \in Tasks, Withdraw(c) \/ FinishErasure(c)
  PROVE  PlacesKept'
<1> USE DEF disk, memory, history
<1>0. ByTask(c) /\ TypeOK BY DEF ByTask, Inv
<1>1. /\ Active(c) /\ \A d \in Tasks : d # c => task'[d] = task[d] /\ ~Active(d)
      /\ Established(c) /\ task[c] \in Task
  BY <1>0, ChangeMoves DEF Inv, OneChange, ChangesOK, TypeOK
<1>2. PICK x \in Sessions : x = Id(c) BY <1>1 DEF Task
<1>3. /\ task[c].op = "purge" /\ records[x].phase = "purging" /\ journal.records[x].phase = "purging"
  BY <1>1, <1>2 DEF Withdraw, FinishErasure, Established
<1>4. UNCHANGED <<records, journal, chosen, broken>> /\ archived' = archived \ {x}
  BY <1>2 DEF Withdraw, FinishErasure
<1>5. task'[c].op = "purge" \/ task'[c] = Idle BY <1>0, <1>1, <1>3, ChangeMoves
<1>6. \A d \in Tasks : ~Keeps(d) /\ ~Keeps(d)' BY <1>1, <1>3, <1>5 DEF Keeps
<1>7. PlaceKept(records[x], x)' /\ PlaceKept(journal.records[x], x)' BY <1>3, <1>4 DEF PlaceKept
<1> QED BY <1>4, <1>6, <1>7, PlacesMarked

LEMMA PlacesArchived ==
  ASSUME Inv, PlacesKept, NEW c \in Tasks, Archive(c)
  PROVE  PlacesKept'
<1> USE DEF disk, memory, history
<1>0. ByTask(c) /\ TypeOK BY DEF ByTask, Inv
<1>1. /\ Active(c) /\ \A d \in Tasks : d # c => task'[d] = task[d] /\ ~Active(d)
      /\ Established(c) /\ task[c] \in Task
  BY <1>0, ChangeMoves DEF Inv, OneChange, ChangesOK, TypeOK
<1>2. PICK x \in Sessions : x = Id(c) BY <1>1 DEF Task
<1>3. records[x].phase = "none" BY <1>1, <1>2 DEF Archive, Established
<1>4. UNCHANGED <<records, journal, broken>> /\ archived' = archived \cup {x} BY <1>2 DEF Archive
<1>5. \A d \in Tasks : ~Keeps(d) BY <1>1 DEF Keeps, Saving, Archive
<1>6. \A d \in Tasks : d # c => ~Keeps(d)' BY <1>1 DEF Keeps
<1>7. \A s : ~Trashing(s) BY <1>5 DEF Trashing
<1>8. x \notin broken => InPlace(x) /\ journal.records[x].phase # "trash"
  BY <1>3, <1>7 DEF PlacesKept, PlaceKept
<1>9. CASE task[c].op = "archive"
  <2>1. Done(c) /\ chosen' = chosen \cup {x} BY <1>2, <1>9 DEF Archive
  <2>2. task'[c] = Idle BY <1>0, <2>1 DEF Done, TypeOK
  <2>3. ~Keeps(c)' BY <2>2 DEF Keeps
  <2>4. x \notin broken => PlaceKept(records[x], x)' /\ PlaceKept(journal.records[x], x)'
    BY <1>3, <1>4, <1>8, <2>1 DEF PlaceKept, InPlace
  <2> QED BY <1>4, <1>5, <1>6, <2>1, <2>3, <2>4, PlacesMarked
<1>10. CASE task[c].op = "trash"
  <2>1. PICK at : Save(c, Entry("trash", x \in archived, at)) /\ chosen' = chosen
    BY <1>2, <1>10 DEF Archive
  <2>2. PICK r : r = Entry("trash", x \in archived, at) OBVIOUS
  <2>3. r.phase = "trash" /\ (r.wasArchived <=> x \in archived) BY <2>2 DEF Entry
  <2>4. /\ task'[c].step = "rename" /\ task'[c].op = "trash" /\ task'[c].id = x /\ task'[c].plan[x] = r
    BY <1>0, <1>1, <1>2, <1>10, <2>1, <2>2, SaveMoves
  <2>5. Active(c)' BY <1>0, <1>1, <2>4, ChangeMoves DEF Idle
  <2>6. Keeps(c)' BY <2>4, <2>5 DEF Keeps, Saving
  <2>7. Trashing(x)' BY <2>4, <2>6 DEF Trashing
  <2>8. x \notin broken' => PlaceKept(r, x)'
    BY <1>4, <1>8, <2>1, <2>3 DEF PlaceKept, InPlace
  <2>9. ASSUME NEW s \in Sessions \ broken'
        PROVE  /\ ~Trashing(s)' => PlaceKept(records[s], s)' /\ PlaceKept(journal.records[s], s)'
               /\ OnDisk(s)' = "trash" /\ Phase(s)' = "none" => Trashing(s)'
    <3>1. CASE s = x BY <2>7, <3>1
    <3>2. CASE s # x
      <4>1. PlaceKept(records[s], s) /\ PlaceKept(journal.records[s], s)
            /\ ~(OnDisk(s) = "trash" /\ Phase(s) = "none")
        BY <1>4, <1>7 DEF PlacesKept
      <4> QED BY <1>4, <2>1, <3>2, <4>1 DEF PlaceKept, InPlace
    <3> QED BY <3>1, <3>2
  <2>10. ASSUME NEW d \in Tasks, Keeps(d)', Id(d)' \notin broken'
         PROVE  /\ task'[d].op = "trash" => PlaceKept(task[d].plan[Id(d)], Id(d))'
                /\ task'[d].op = "restore" => InPlace(Id(d))'
    <3>1. d = c BY <1>6, <2>10
    <3> QED BY <2>4, <2>8, <2>10, <3>1 DEF PlaceKept, InPlace
  <2> HIDE DEF Tasks, Id, Phase, OnDisk
  <2> QED BY <2>9, <2>10 DEF PlacesKept
<1> QED BY <1>9, <1>10 DEF Archive

LEMMA PlacesRestored ==
  ASSUME Inv, PlacesKept, NEW c \in Tasks, Restore(c)
  PROVE  PlacesKept'
<1> USE DEF disk, memory, history
<1>0. ByTask(c) /\ TypeOK BY DEF ByTask, Inv
<1>1. /\ Active(c) /\ \A d \in Tasks : d # c => task'[d] = task[d] /\ ~Active(d)
      /\ Established(c) /\ task[c] \in Task
  BY <1>0, ChangeMoves DEF Inv, OneChange, ChangesOK, TypeOK
<1>2. PICK x \in Sessions : x = Id(c) BY <1>1 DEF Task
<1>3. records[x].phase = "trash" /\ task[c].record = records[x] /\ task[c].op = "restore"
  BY <1>1, <1>2 DEF Restore, Established
<1>4. /\ UNCHANGED <<records, journal, chosen, broken>> /\ Save(c, NoRecord)
      /\ archived' = IF records[x].wasArchived THEN archived ELSE archived \ {x}
  BY <1>2, <1>3 DEF Restore, RestoredMark
<1>5. \A d \in Tasks : ~Keeps(d) BY <1>1 DEF Keeps, Saving, Restore
<1>6. \A d \in Tasks : d # c => ~Keeps(d)' BY <1>1 DEF Keeps
<1>7. task'[c].op = "restore" /\ task'[c].id = x BY <1>0, <1>1, <1>2, <1>3, <1>4, SaveMoves
<1>8. \A s : ~Trashing(s) /\ ~Trashing(s)' BY <1>5, <1>6, <1>7 DEF Trashing
<1>9. \A s \in Sessions \ broken : /\ PlaceKept(records[s], s) /\ PlaceKept(journal.records[s], s)
                                   /\ ~(OnDisk(s) = "trash" /\ Phase(s) = "none")
  BY <1>8 DEF PlacesKept
<1>10. x \notin broken => (records[x].wasArchived <=> x \in chosen) /\ (records[x].wasArchived => x \in archived)
  BY <1>3, <1>9 DEF PlaceKept
<1>11. x \notin broken => InPlace(x)' BY <1>4, <1>10 DEF InPlace
<1>12. ASSUME NEW s \in Sessions \ broken'
       PROVE  /\ PlaceKept(records[s], s)' /\ PlaceKept(journal.records[s], s)'
              /\ ~(OnDisk(s)' = "trash" /\ Phase(s)' = "none")
  <2>0. s \in Sessions \ broken BY <1>4
  <2>1. CASE s = x BY <1>4, <1>9, <1>10, <1>11, <2>0, <2>1 DEF PlaceKept
  <2>2. CASE s # x BY <1>4, <1>9, <2>0, <2>2 DEF PlaceKept, InPlace
  <2> QED BY <2>1, <2>2
<1>13. ASSUME NEW d \in Tasks, Keeps(d)', Id(d)' \notin broken'
       PROVE  /\ task'[d].op = "trash" => PlaceKept(task[d].plan[Id(d)], Id(d))'
              /\ task'[d].op = "restore" => InPlace(Id(d))'
  <2>1. d = c BY <1>6, <1>13
  <2> QED BY <1>4, <1>7, <1>11, <1>13, <2>1 DEF InPlace
<1> HIDE DEF Tasks, Id, Phase, OnDisk
<1> QED BY <1>12, <1>13 DEF PlacesKept

\* What is recorded is what memory holds, but for the session of the change.
LEMMA PlanPlaces ==
  ASSUME Inv, PlacesKept, NEW c \in Tasks, Active(c), Saving(c), NEW s \in Sessions \ broken
  PROVE  /\ PlaceKept(task[c].plan[s], s)
         /\ task[c].plan[s].phase = "none" => s # Id(c) \/ task[c].op = "restore"
         /\ task[c].plan[s].phase = "trash" => s # Id(c) \/ task[c].op = "trash"
         /\ s # Id(c) => task[c].plan[s] = records[s] /\ ~Trashing(s)
<1>1. Established(c) /\ task[c] \in Task BY DEF Inv, ChangesOK, TypeOK
<1>2. \A d : Trashing(d) => Keeps(c) /\ task[c].op = "trash" /\ task[c].id = d BY OnlyKeeper
<1>3. CASE s # Id(c)
  <2>1. task[c].plan[s] = records[s] BY <1>3, SavedMap
  <2> QED BY <1>2, <1>3, <2>1 DEF PlacesKept
<1>4. CASE s = Id(c)
  <2>1. NoRecord.phase = "none" BY DEF NoRecord, Entry
  <2>2. CASE task[c].op = "trash"
    <3>1. Keeps(c) BY <2>2 DEF Keeps
    <3>2. task[c].plan[s].phase = "trash" BY <1>1, <1>4, <2>2 DEF Established
    <3> QED BY <1>4, <2>2, <3>1, <3>2 DEF PlacesKept
  <2>3. CASE task[c].op = "restore"
    <3>1. Keeps(c) BY <2>3 DEF Keeps
    <3>2. task[c].plan[s].phase = "none" BY <1>1, <1>4, <2>1, <2>3 DEF Established
    <3> QED BY <1>4, <2>3, <3>1, <3>2 DEF PlacesKept, PlaceKept
  <2>4. CASE task[c].op = "purge"
    <3>1. task[c].plan[s].phase \in Erasing BY <1>1, <1>4, <2>4 DEF Established
    <3> QED BY <1>4, <2>4, <3>1 DEF Erasing, PlaceKept
  <2> QED BY <1>1, <2>2, <2>3, <2>4 DEF Established, Task
<1> QED BY <1>3, <1>4

LEMMA PlacesRenamed ==
  ASSUME Inv, PlacesKept, NEW c \in Tasks, Rename(c)
  PROVE  PlacesKept'
<1> USE DEF disk, memory, history
<1>0. ByTask(c) /\ TypeOK BY DEF ByTask, Inv
<1>1. /\ Active(c) /\ Saving(c) /\ \A d \in Tasks : d # c => task'[d] = task[d] /\ ~Active(d)
  BY <1>0, ChangeMoves DEF Inv, OneChange, Rename, Saving
<1>2. UNCHANGED <<archived, records, chosen, broken>> /\ journal'.records = task[c].plan /\ Goto(c, "publish")
  BY DEF Rename
<1>3. /\ task'[c].step = "publish" /\ task'[c].op = task[c].op /\ task'[c].id = task[c].id
      /\ task'[c].plan = task[c].plan
  BY <1>0, <1>1, <1>2, GotoMoves DEF Step
<1>4. Active(c)' BY <1>0, <1>1, <1>3, ChangeMoves, LifecycleAssumption DEF Rename, Goto, Idle, TypeOK, Task
<1>5. Keeps(c)' <=> Keeps(c) BY <1>1, <1>3, <1>4 DEF Keeps, Saving
<1>6. \A d \in Tasks : d # c => ~Keeps(d) /\ ~Keeps(d)' BY <1>1 DEF Keeps
<1>7. \A s : Trashing(s)' <=> Trashing(s) BY <1>3, <1>5, <1>6 DEF Trashing
<1>8. ASSUME NEW s \in Sessions \ broken'
      PROVE  /\ ~Trashing(s)' => PlaceKept(records[s], s)' /\ PlaceKept(journal.records[s], s)'
             /\ OnDisk(s)' = "trash" /\ Phase(s)' = "none" => Trashing(s)'
  <2>1. s \in Sessions \ broken BY <1>2
  <2>2. PlaceKept(task[c].plan[s], s) BY <1>1, <2>1, PlanPlaces
  <2>3. PlaceKept(journal.records[s], s)' BY <1>2, <2>2 DEF PlaceKept, InPlace
  <2>4. ~Trashing(s) => PlaceKept(records[s], s)' BY <1>2, <2>1 DEF PlacesKept, PlaceKept, InPlace
  <2>5. OnDisk(s)' = "trash" /\ Phase(s)' = "none" => Trashing(s)
    <3>1. SUFFICES ASSUME task[c].plan[s].phase = "trash", records[s].phase = "none" PROVE Trashing(s)
      BY <1>2
    <3>2. s = Id(c) /\ task[c].op = "trash" BY <1>1, <2>1, <3>1, PlanPlaces
    <3> QED BY <1>1, <3>2 DEF Trashing, Keeps
  <2> QED BY <1>7, <2>3, <2>4, <2>5
<1>9. ASSUME NEW d \in Tasks, Keeps(d)', Id(d)' \notin broken'
      PROVE  /\ task'[d].op = "trash" => PlaceKept(task[d].plan[Id(d)], Id(d))'
             /\ task'[d].op = "restore" => InPlace(Id(d))'
  <2>1. d = c BY <1>6, <1>9
  <2> QED BY <1>2, <1>3, <1>5, <1>9, <2>1 DEF PlacesKept, PlaceKept, InPlace
<1> HIDE DEF Tasks, Id, Phase, OnDisk
<1> QED BY <1>8, <1>9 DEF PlacesKept

LEMMA PlacesPublished ==
  ASSUME Inv, PlacesKept, NEW c \in Tasks, Publish(c)
  PROVE  PlacesKept'
<1> USE DEF disk, memory, history
<1>0. ByTask(c) /\ TypeOK BY DEF ByTask, Inv
<1>1. /\ Active(c) /\ Saving(c) /\ \A d \in Tasks : d # c => task'[d] = task[d] /\ ~Active(d)
      /\ Established(c) /\ task[c] \in Task
  BY <1>0, ChangeMoves DEF Inv, OneChange, Publish, Saving, ChangesOK, TypeOK
<1>2. /\ UNCHANGED <<archived, chosen, broken, journal>> /\ records' = task[c].plan
      /\ journal.records = task[c].plan
  BY <1>1 DEF Publish, Established
<1>3. ~Keeps(c)'
  <2>1. CASE Done(c)
    <3>1. task'[c] = Idle BY <1>0, <2>1 DEF Done, TypeOK
    <3> QED BY <3>1 DEF Keeps
  <2>2. CASE Goto(c, "detach")
    <3>1. task'[c].step = "detach" BY <1>0, <1>1, <2>2, GotoMoves DEF Step
    <3> QED BY <3>1 DEF Keeps, Saving
  <2> QED BY <2>1, <2>2 DEF Publish
<1>4. \A d \in Tasks : ~Keeps(d)' BY <1>1, <1>3 DEF Keeps
<1>5. ASSUME NEW s \in Sessions \ broken'
      PROVE  /\ PlaceKept(records[s], s)' /\ PlaceKept(journal.records[s], s)'
             /\ ~(OnDisk(s)' = "trash" /\ Phase(s)' = "none")
  <2>1. s \in Sessions \ broken BY <1>2
  <2>2. PlaceKept(task[c].plan[s], s) BY <1>1, <2>1, PlanPlaces
  <2> QED BY <1>2, <2>2 DEF PlaceKept, InPlace
<1> HIDE DEF Tasks, Id, Phase, OnDisk
<1> QED BY <1>4, <1>5 DEF PlacesKept

\* The changes of callers, and what they do at once.
LEMMA PlacesAsked ==
  ASSUME Inv, PlacesKept, NEW c \in Callers, NEW s \in Sessions, ByCaller(c, s)
  PROVE  PlacesKept'
<1> USE DEF disk, memory, history
<1>1. \A d \in Tasks : ~Active(d)
  BY DEF ByCaller, StartArchive, Unarchive, StartRestore, StartPurge, MayStart
<1>2. \A d \in Tasks : ~Keeps(d) BY <1>1, NoKeeper
<1>3. CASE Unarchive(c, s)
  <2>1. /\ UNCHANGED <<records, journal, broken, task>> /\ archived' = archived \ {s} /\ chosen' = chosen \ {s}
        /\ records[s].phase = "none"
    BY <1>3 DEF Unarchive
  <2>2. \A d \in Tasks : ~Keeps(d)' BY <1>2, <2>1 DEF Keeps, Saving
  <2>3. \A x : ~Trashing(x) BY <1>2 DEF Trashing
  <2>4. s \notin broken => journal.records[s].phase # "trash" BY <2>1, <2>3 DEF PlacesKept
  <2>5. s \notin broken => PlaceKept(records[s], s)' /\ PlaceKept(journal.records[s], s)'
    BY <2>1, <2>4 DEF PlaceKept, InPlace
  <2> QED BY <1>2, <2>1, <2>2, <2>5, PlacesMarked
<1>4. CASE ~Unarchive(c, s)
  <2>1. \E op : \E step \in {"archive", "unarchive", "lease"} : Begin(c, op, s, step)
    BY <1>4 DEF ByCaller, StartArchive, StartRestore, StartPurge
  <2>2. UNCHANGED <<archived, chosen, records, journal, broken>>
    BY <1>4 DEF ByCaller, StartArchive, StartRestore, StartPurge
  <2>3. \A d \in Tasks : ~Keeps(d)'
    <3>1. PICK op : \E step \in {"archive", "unarchive", "lease"} : Begin(c, op, s, step) BY <2>1
    <3>2. PICK step \in {"archive", "unarchive", "lease"} : Begin(c, op, s, step) BY <3>1
    <3>3. task'[c].step = step /\ \A d \in Tasks : d # c => ~Active(d)'
      BY <1>1, <3>2, ChangeBegins DEF Step
    <3> QED BY <3>3 DEF Keeps, Saving
  <2> QED BY <1>2, <2>2, <2>3, PlacesSame
<1> QED BY <1>3, <1>4

LEMMA PlacesAtStart ==
  ASSUME Inv, PlacesKept, ByReady
  PROVE  PlacesKept'
<1> USE DEF disk, memory, history
<1>0. TypeOK /\ OneChange BY DEF Inv
<1>1. \A d \in Tasks : ~Active(d)
  BY <1>0 DEF OneChange, ByReady, Load, RefuseStart, FailStart, Serve, ResumePurge, Reassert, Starting
<1>2. \A d \in Tasks : ~Keeps(d) BY <1>1, NoKeeper
<1>3. \A x : ~Trashing(x) BY <1>2 DEF Trashing
<1>4. CASE Load
  <2>1. UNCHANGED <<archived, chosen, broken, journal, task>> /\ records' = journal.records BY <1>4 DEF Load
  <2>2. \A d \in Tasks : ~Keeps(d)' BY <1>2, <2>1 DEF Keeps, Saving
  <2>3. ASSUME NEW s \in Sessions \ broken'
        PROVE  /\ PlaceKept(records[s], s)' /\ PlaceKept(journal.records[s], s)'
               /\ ~(OnDisk(s)' = "trash" /\ Phase(s)' = "none")
    <3>1. PlaceKept(journal.records[s], s) BY <1>3, <2>1 DEF PlacesKept
    <3> QED BY <2>1, <3>1 DEF PlaceKept, InPlace
  <2> HIDE DEF Tasks, Id, Phase, OnDisk
  <2> QED BY <2>2, <2>3 DEF PlacesKept
<1>5. ASSUME NEW s \in Sessions, Reassert(s) PROVE PlacesKept'
  <2>1. /\ UNCHANGED <<records, journal, broken, chosen, task>> /\ archived' = archived \cup {s}
        /\ records[s].phase = "trash" /\ up = "starting"
    BY <1>5 DEF Reassert, Unmarked, Starting
  <2>2. \A d \in Tasks : ~Keeps(d)' BY <1>2, <2>1 DEF Keeps, Saving
  <2>3. journal.records = records BY <1>1, <2>1 DEF Inv, FreshStart
  <2>4. s \notin broken => PlaceKept(records[s], s) BY <1>3 DEF PlacesKept
  <2>5. s \notin broken => PlaceKept(records[s], s)' /\ PlaceKept(journal.records[s], s)'
    BY <2>1, <2>3, <2>4 DEF PlaceKept
  <2> QED BY <1>2, <2>1, <2>2, <2>5, PlacesMarked
<1>6. CASE RefuseStart \/ FailStart \/ Serve
  <2>1. UNCHANGED <<archived, chosen, records, journal, broken, task>>
    BY <1>6 DEF RefuseStart, FailStart, Serve
  <2>2. \A d \in Tasks : ~Keeps(d)' BY <1>2, <2>1 DEF Keeps, Saving
  <2> QED BY <1>2, <2>1, <2>2, PlacesSame
<1>7. ASSUME NEW s \in Sessions, ResumePurge(s) PROVE PlacesKept'
  <2>1. UNCHANGED <<archived, chosen, records, journal, broken>> /\ Begin(Startup, "purge", s, "lease")
    BY <1>7 DEF ResumePurge
  <2>2. task'[Startup].step = "lease" /\ \A d \in Tasks : d # Startup => ~Active(d)'
    BY <1>1, <2>1, ChangeBegins DEF Step
  <2>3. \A d \in Tasks : ~Keeps(d)' BY <2>2 DEF Keeps, Saving
  <2> QED BY <1>2, <2>1, <2>3, PlacesSame
<1> QED BY <1>4, <1>5, <1>6, <1>7 DEF ByReady

LEMMA PlacesStep ==
  ASSUME Inv, PlacesKept, [Next]_vars
  PROVE  PlacesKept'
<1>1. ASSUME NEW c \in Tasks, ByTask(c) PROVE PlacesKept'
  <2> HIDE DEF Tasks, At, Id, Phase, Listed, Quiet, OnDisk, Active
  <2> QED BY <1>1, PlacesQuiet, PlacesErased, PlacesArchived, PlacesRestored, PlacesRenamed, PlacesPublished
             DEF ByTask
<1>2. CASE Crash
  <2>1. UNCHANGED <<archived, chosen, records, journal>> /\ broken \subseteq broken'
    BY <1>2 DEF Crash, disk
  <2>2. \A d \in Tasks : ~Keeps(d)' BY <1>2 DEF Crash, Keeps
  <2>3. \A d \in Tasks : Keeps(d) /\ task[d].op = "trash" => task[d].id \in broken'
    BY <1>2 DEF Crash, Keeps, CutShort, Saving
  <2> QED BY <2>1, <2>2, <2>3, PlacesSame
<1>3. ASSUME UNCHANGED <<archived, chosen, records, journal, broken, task>> PROVE PlacesKept'
  <2>1. \A d \in Tasks : Keeps(d)' <=> Keeps(d) BY <1>3 DEF Keeps, Saving
  <2> QED BY <1>3, <2>1, PlacesSame
<1>4. ASSUME NEW s \in Sessions, ByDsh(s) PROVE PlacesKept'
  BY <1>3, <1>4 DEF ByDsh, Open, Work, Rest, ForeignWriter, disk, memory, history
<1>5. CASE UNCHANGED vars BY <1>3, <1>5 DEF vars, disk, memory, history
<1> HIDE DEF Tasks, At, Id, Phase, Listed, Quiet, OnDisk, Active
<1> QED BY <1>1, <1>2, <1>4, <1>5, PlacesAsked, PlacesAtStart, NextSplit

LEMMA PlacesInit == Init => PlacesKept
<1> SUFFICES ASSUME Init PROVE PlacesKept OBVIOUS
<1>1. NoRecord.phase = "none" BY DEF NoRecord, Entry
<1>2. \A c \in Tasks : ~Keeps(c) BY DEF Init, Keeps
<1>3. \A s \in Sessions : records[s].phase = "none" /\ journal.records[s].phase = "none" /\ InPlace(s)
  BY <1>1 DEF Init, InPlace
<1> QED BY <1>2, <1>3 DEF PlacesKept, PlaceKept

\* restore() of session-lifecycle.ts: a session returns to the list its user had
\* it in, through every other change, failed restore, restart and reassertion of
\* archive marks, unless its deletion was cut short between mark and journal.
THEOREM RestoredToItsPlace == Spec => RestoreKeepsPlace
<1> DEFINE A == \A s \in Sessions \ broken :
                  (OnDisk(s) = "trash" /\ journal'.records[s] = NoRecord)
                    => (s \in archived <=> s \in chosen)
<1>1. ASSUME Inv, PlacesKept, [Next]_vars PROVE A
  <2> SUFFICES ASSUME NEW s \in Sessions \ broken, OnDisk(s) = "trash", journal'.records[s] = NoRecord
               PROVE  s \in archived <=> s \in chosen
    OBVIOUS
  <2>1. NoRecord.phase = "none" BY DEF NoRecord, Entry
  <2>2. PICK c \in Tasks : Rename(c) BY <1>1, <2>1, WhoWrites
  <2>3. Active(c) /\ Saving(c) /\ task[c].plan[s].phase = "none" BY <2>1, <2>2 DEF Rename, Saving
  <2> QED BY <1>1, <2>3, PlanPlaces DEF PlaceKept, InPlace
<1>2. Spec => []PlacesKept
  <2>1. Inv /\ PlacesKept /\ [Next]_vars => PlacesKept' BY PlacesStep
  <2> QED BY LifecycleInvariant, PlacesInit, <2>1, PTL DEF Spec
<1>3. Inv /\ PlacesKept /\ [Next]_vars => [A]_vars BY <1>1
<1> QED BY LifecycleInvariant, <1>2, <1>3, PTL DEF Spec, RestoreKeepsPlace

-----------------------------------------------------------------------------
\* What the Hub will show of the index once it has taken the rows after the n-th,
\* when it shows this one now; and whether a question is among them.
Brings(rows, n, shown, v) ==
  \/ shown = v /\ \A i \in DOMAIN rows : i > n => rows[i].type # "index"
  \/ \E i \in DOMAIN rows : /\ i > n /\ rows[i].type = "index" /\ rows[i].v = v
                            /\ \A j \in DOMAIN rows : j > i => rows[j].type # "index"
Asks(rows, n) == \E i \in DOMAIN rows : i > n /\ rows[i].type = "question"

LEMMA Limits == /\ MaxRecords \in Nat /\ MaxRecords >= 1 /\ DeferredLimit \in Nat
                /\ MaxChanges \in Nat /\ MaxFaults \in Nat
BY StreamAssumption DEF StreamAssumption

LEMMA Joined ==
  ASSUME NEW s \in Seq(Rows), NEW t \in Seq(Rows), NEW n \in 0 .. Len(s),
         \A i \in DOMAIN t : t[i].type # "index"
  PROVE  /\ s \o t \in Seq(Rows) /\ Len(s \o t) = Len(s) + Len(t)
         /\ \A shown, v : Brings(s, n, shown, v) => Brings(s \o t, n, shown, v)
         /\ Asks(s, n) \/ Asks(t, 0) => Asks(s \o t, n)
<1>1. PICK u : u = s \o t OBVIOUS
<1>2. /\ u \in Seq(Rows) /\ Len(u) = Len(s) + Len(t) /\ Len(s) \in Nat /\ Len(t) \in Nat
      /\ DOMAIN s = 1 .. Len(s) /\ DOMAIN t = 1 .. Len(t) /\ DOMAIN u = 1 .. Len(u)
      /\ \A i \in DOMAIN s : u[i] = s[i] /\ i \in DOMAIN u
      /\ \A i \in DOMAIN t : u[i + Len(s)] = t[i] /\ i + Len(s) \in DOMAIN u
  BY <1>1
<1>3. ASSUME NEW i \in DOMAIN u, i \notin DOMAIN s PROVE u[i].type # "index"
  <2>1. i - Len(s) \in DOMAIN t /\ i = (i - Len(s)) + Len(s) BY <1>2, <1>3
  <2> QED BY <1>2, <2>1
<1>4. ASSUME NEW shown, NEW v, Brings(s, n, shown, v) PROVE Brings(u, n, shown, v)
  <2>1. CASE shown = v /\ \A i \in DOMAIN s : i > n => s[i].type # "index"
    BY <1>2, <1>3, <2>1 DEF Brings
  <2>2. CASE \E i \in DOMAIN s : /\ i > n /\ s[i].type = "index" /\ s[i].v = v
                                 /\ \A j \in DOMAIN s : j > i => s[j].type # "index"
    <3>1. PICK i \in DOMAIN s : /\ i > n /\ s[i].type = "index" /\ s[i].v = v
                                /\ \A j \in DOMAIN s : j > i => s[j].type # "index"
      BY <2>2
    <3>2. i \in DOMAIN u /\ u[i] = s[i] BY <1>2
    <3>3. \A j \in DOMAIN u : j > i => u[j].type # "index" BY <1>2, <1>3, <3>1
    <3> QED BY <3>1, <3>2, <3>3 DEF Brings
  <2> QED BY <1>4, <2>1, <2>2 DEF Brings
<1>5. Asks(s, n) => Asks(u, n) BY <1>2 DEF Asks
<1>6. ASSUME Asks(t, 0) PROVE Asks(u, n)
  <2>1. PICK i \in DOMAIN t : t[i].type = "question" BY <1>6 DEF Asks
  <2>2. i + Len(s) \in DOMAIN u /\ u[i + Len(s)] = t[i] /\ i + Len(s) > n BY <1>2
  <2> QED BY <2>1, <2>2 DEF Asks
<1> QED BY <1>1, <1>2, <1>4, <1>5, <1>6

LEMMA Added ==
  ASSUME NEW s \in Seq(Rows), NEW row \in Rows, NEW n \in 0 .. Len(s)
  PROVE  /\ Append(s, row) \in Seq(Rows) /\ Len(Append(s, row)) = Len(s) + 1
         /\ row.type # "index" =>
              \A shown, v : Brings(s, n, shown, v) => Brings(Append(s, row), n, shown, v)
         /\ row.type = "index" => \A shown : Brings(Append(s, row), n, shown, row.v)
         /\ Asks(s, n) \/ row.type = "question" => Asks(Append(s, row), n)
<1>1. PICK u : u = Append(s, row) OBVIOUS
<1>2. /\ u \in Seq(Rows) /\ Len(u) = Len(s) + 1 /\ Len(s) \in Nat
      /\ DOMAIN s = 1 .. Len(s) /\ DOMAIN u = 1 .. Len(s) + 1
      /\ \A i \in DOMAIN s : u[i] = s[i]
      /\ u[Len(s) + 1] = row
  BY <1>1
<1>3. \A i \in DOMAIN u : i \in DOMAIN s \/ u[i] = row BY <1>2
<1>4. row.type = "index" => \A shown : Brings(u, n, shown, row.v) BY <1>2 DEF Brings
<1>5. row.type = "question" => Asks(u, n) BY <1>2 DEF Asks
<1>6. <<row>> \in Seq(Rows) /\ u = s \o <<row>> /\ DOMAIN <<row>> = {1} /\ <<row>>[1] = row BY <1>1
<1>7. row.type # "index" =>
        \A shown, v : Brings(s, n, shown, v) => Brings(s \o <<row>>, n, shown, v)
  BY <1>6, Joined
<1>8. Asks(s, n) => Asks(u, n) BY <1>2 DEF Asks
<1> QED BY <1>1, <1>2, <1>4, <1>5, <1>6, <1>7, <1>8

LEMMA CutOff ==
  ASSUME NEW s \in Seq(Rows), NEW n \in 0 .. Len(s)
  PROVE  /\ SubSeq(s, n + 1, Len(s)) \in Seq(Rows) /\ Len(SubSeq(s, n + 1, Len(s))) = Len(s) - n
         /\ \A i \in DOMAIN SubSeq(s, n + 1, Len(s)) :
              i + n \in DOMAIN s /\ SubSeq(s, n + 1, Len(s))[i] = s[i + n]
         /\ \A shown, v : Brings(s, n, shown, v) => Brings(SubSeq(s, n + 1, Len(s)), 0, shown, v)
         /\ Asks(s, n) => Asks(SubSeq(s, n + 1, Len(s)), 0)
<1>1. PICK u : u = SubSeq(s, n + 1, Len(s)) OBVIOUS
<1>2. Len(s) \in Nat /\ n \in Nat /\ n <= Len(s) OBVIOUS
<1>3. /\ u \in Seq(Rows) /\ Len(u) = Len(s) - n
      /\ DOMAIN s = 1 .. Len(s) /\ DOMAIN u = 1 .. Len(s) - n
      /\ \A i \in DOMAIN u : i + n \in DOMAIN s /\ u[i] = s[i + n]
  BY <1>1, <1>2
<1>4. \A i \in DOMAIN s : i > n => i - n \in DOMAIN u /\ u[i - n] = s[i] /\ i - n > 0
  BY <1>2, <1>3
<1>5. ASSUME NEW shown, NEW v, Brings(s, n, shown, v) PROVE Brings(u, 0, shown, v)
  <2>1. CASE shown = v /\ \A i \in DOMAIN s : i > n => s[i].type # "index"
    <3>1. \A i \in DOMAIN u : i + n > n /\ i + n \in DOMAIN s BY <1>2, <1>3
    <3> QED BY <1>3, <2>1, <3>1 DEF Brings
  <2>2. CASE \E i \in DOMAIN s : /\ i > n /\ s[i].type = "index" /\ s[i].v = v
                                 /\ \A j \in DOMAIN s : j > i => s[j].type # "index"
    <3>1. PICK i \in DOMAIN s : /\ i > n /\ s[i].type = "index" /\ s[i].v = v
                                /\ \A j \in DOMAIN s : j > i => s[j].type # "index"
      BY <2>2
    <3>2. i - n \in DOMAIN u /\ u[i - n] = s[i] /\ i - n > 0 BY <1>4, <3>1
    <3>3. \A j \in DOMAIN u : j > i - n => j + n > i /\ j + n \in DOMAIN s /\ u[j] = s[j + n]
      BY <1>2, <1>3
    <3> QED BY <3>1, <3>2, <3>3 DEF Brings
  <2> QED BY <1>5, <2>1, <2>2 DEF Brings
<1>6. Asks(s, n) => Asks(u, 0) BY <1>4 DEF Asks
<1> QED BY <1>1, <1>3, <1>5, <1>6

\* The first row is taken: the Hub shows it.
LEMMA FirstTaken ==
  ASSUME NEW s \in Seq(Rows), s # <<>>
  PROVE  /\ Head(s) = s[1] /\ s[1] \in Rows /\ Len(s) >= 1 /\ Tail(s) = SubSeq(s, 1 + 1, Len(s))
         /\ \A shown, v : Brings(s, 0, shown, v) =>
              Brings(s, 1, IF s[1].type = "index" THEN s[1].v ELSE shown, v)
         /\ Asks(s, 0) => s[1].type = "question" \/ Asks(s, 1)
<1>1. Head(s) = s[1] /\ s[1] \in Rows /\ Len(s) >= 1 /\ Len(s) \in Nat /\ DOMAIN s = 1 .. Len(s) OBVIOUS
<1>2. Tail(s) = SubSeq(s, 1 + 1, Len(s)) OBVIOUS
<1>3. ASSUME NEW shown, NEW v, Brings(s, 0, shown, v)
      PROVE  Brings(s, 1, IF s[1].type = "index" THEN s[1].v ELSE shown, v)
  <2>1. CASE shown = v /\ \A i \in DOMAIN s : i > 0 => s[i].type # "index"
    BY <1>1, <2>1 DEF Brings
  <2>2. CASE \E i \in DOMAIN s : /\ i > 0 /\ s[i].type = "index" /\ s[i].v = v
                                 /\ \A j \in DOMAIN s : j > i => s[j].type # "index"
    <3>1. PICK i \in DOMAIN s : /\ s[i].type = "index" /\ s[i].v = v
                                /\ \A j \in DOMAIN s : j > i => s[j].type # "index"
      BY <2>2
    <3>2. CASE i = 1 BY <3>1, <3>2 DEF Brings
    <3>3. CASE i > 1 BY <3>1, <3>3 DEF Brings
    <3> QED BY <1>1, <3>2, <3>3
  <2> QED BY <1>3, <2>1, <2>2 DEF Brings
<1>4. Asks(s, 0) => s[1].type = "question" \/ Asks(s, 1) BY <1>1 DEF Asks
<1> QED BY <1>1, <1>2, <1>3, <1>4

-----------------------------------------------------------------------------
(* The queue keeps what it has been given. *)

Pressures == {"normal", "warning", "critical"}

LEMMA PressureIsKnown ==
  ASSUME NEW rows, NEW waiting, NEW drop
  PROVE  Pressure(rows, waiting, drop) \in Pressures
BY DEF Pressure, Pressures

\* A frame that was dropped stays owed until the carrier is being replaced.
LEMMA NoticeKeeps ==
  ASSUME NEW p \in Pressures, NEW resync \in BOOLEAN, Notice(p, resync),
         owed \in BOOLEAN, reset \in BOOLEAN, ipc \in BOOLEAN
  PROVE  /\ reported' \in Pressures /\ owed' \in BOOLEAN /\ reset' \in BOOLEAN
         /\ reset => reset'
         /\ owed => owed' \/ reset' \/ ~ipc
         /\ resync => reset' \/ ~ipc
<1>1. reported' \in Pressures BY DEF Notice
<1> DEFINE repair == p = "normal" /\ reported # p /\ owed
<1>2. (owed' = (owed /\ ~repair)) /\ (reset' = (reset \/ (ipc /\ (repair \/ resync)))) BY DEF Notice
<1>3. repair \in BOOLEAN OBVIOUS
<1> HIDE DEF repair
<1> QED BY <1>1, <1>2, <1>3, Zenon

LEMMA PutKeeps ==
  ASSUME NEW s \in Seq(Rows), Len(s) <= MaxRecords, NEW n \in 0 .. Len(s),
         NEW row \in Rows, row.type # "index"
  PROVE  /\ Put(s, row) \in Seq(Rows) /\ Len(Put(s, row)) <= MaxRecords /\ n \in 0 .. Len(Put(s, row))
         /\ \A shown, v : Brings(s, n, shown, v) => Brings(Put(s, row), n, shown, v)
         /\ Asks(s, n) => Asks(Put(s, row), n)
<1>1. CASE Put(s, row) = s BY <1>1
<1>2. CASE /\ Put(s, row) = Append(s, row) /\ Len(s) < MaxRecords
  <2>1. /\ Append(s, row) \in Seq(Rows) /\ Len(Append(s, row)) = Len(s) + 1
        /\ \A shown, v : Brings(s, n, shown, v) => Brings(Append(s, row), n, shown, v)
        /\ Asks(s, n) => Asks(Append(s, row), n)
    BY Added
  <2>2. Len(s) \in Nat /\ MaxRecords \in Nat BY Limits
  <2> QED BY <1>2, <2>1, <2>2
<1> QED BY <1>1, <1>2 DEF Put, HasRoom

LEMMA AnnouncedKeeps ==
  ASSUME NEW s \in Seq(Rows), Len(s) <= MaxRecords, NEW n \in 0 .. Len(s),
         NEW state \in {"none", "hello", "offline"}
  PROVE  /\ Announced(s, state) \in Seq(Rows) /\ Len(Announced(s, state)) <= MaxRecords
         /\ n \in 0 .. Len(Announced(s, state))
         /\ \A shown, v : Brings(s, n, shown, v) => Brings(Announced(s, state), n, shown, v)
         /\ Asks(s, n) => Asks(Announced(s, state), n)
         /\ Waiting(s, state) \in {"none", "hello", "offline"}
<1>1. PICK row : row = Plain(IF state = "hello" THEN "hello" ELSE "goodbye") OBVIOUS
<1>2. row \in Rows /\ row.type # "index" BY <1>1, Limits DEF Plain, Row, Rows
<1>3. Announced(s, state) = IF state = "none" THEN s ELSE Put(s, row) BY <1>1 DEF Announced
<1>4. Waiting(s, state) \in {"none", "hello", "offline"} BY DEF Waiting
<1> QED BY <1>2, <1>3, <1>4, PutKeeps

\* What the Connector hands over is queued, waits, or is accounted for.
LEMMA Offered ==
  ASSUME StreamsTypeOK, NEW row \in Rows, FromConnector(row)
  PROVE  /\ outbox' \in Seq(Rows) /\ Len(outbox') <= MaxRecords /\ unacked \in 0 .. Len(outbox')
         /\ deferred' \in Seq(Rows) /\ Len(deferred') <= DeferredLimit
         /\ reported' \in Pressures
         /\ dropped' \in BOOLEAN /\ owed' \in BOOLEAN /\ reset' \in BOOLEAN /\ muted' \in BOOLEAN
         /\ overflowed' \in BOOLEAN
         /\ (reset => reset') /\ (overflowed => overflowed') /\ (owed => owed' \/ reset' \/ ~ipc)
         /\ row.type # "index" =>
              \A shown, v : Brings(outbox, unacked, shown, v) => Brings(outbox', unacked, shown, v)
         /\ row.type = "index" => owed' \/ \A shown : Brings(outbox', unacked, shown, row.v)
         /\ Asks(outbox, unacked) => Asks(outbox', unacked)
         /\ Asks(deferred, 0) => Asks(deferred', 0)
         /\ row.type = "question" => overflowed' \/ Asks(outbox', unacked) \/ Asks(deferred', 0)
         /\ \A i \in DOMAIN deferred' : \/ i \in DOMAIN deferred /\ deferred'[i] = deferred[i]
                                        \/ deferred'[i] = row /\ IsControl(row)
<1>1. /\ outbox \in Seq(Rows) /\ Len(outbox) <= MaxRecords /\ unacked \in 0 .. Len(outbox)
      /\ deferred \in Seq(Rows) /\ Len(deferred) <= DeferredLimit
      /\ reported \in Pressures
      /\ dropped \in BOOLEAN /\ owed \in BOOLEAN /\ reset \in BOOLEAN /\ muted \in BOOLEAN
      /\ overflowed \in BOOLEAN /\ ipc \in BOOLEAN
      /\ Len(outbox) \in Nat /\ Len(deferred) \in Nat /\ MaxRecords \in Nat /\ DeferredLimit \in Nat
  BY Limits DEF StreamsTypeOK, Pressures
<1>a. deferred' = deferred =>
        /\ deferred' \in Seq(Rows) /\ Len(deferred') <= DeferredLimit
        /\ Asks(deferred, 0) => Asks(deferred', 0)
  BY <1>1
<1>b. deferred' = deferred =>
        \A i \in DOMAIN deferred' : \/ i \in DOMAIN deferred /\ deferred'[i] = deferred[i]
                                    \/ deferred'[i] = row /\ IsControl(row)
  OBVIOUS
<1>c. outbox' = outbox =>
        /\ outbox' \in Seq(Rows) /\ Len(outbox') <= MaxRecords /\ unacked \in 0 .. Len(outbox')
        /\ \A shown, v : Brings(outbox, unacked, shown, v) => Brings(outbox', unacked, shown, v)
        /\ Asks(outbox, unacked) => Asks(outbox', unacked)
  BY <1>1
<1>2. CASE /\ ~IsControl(row) /\ Suppressed
           /\ RecordDropped /\ muted' = TRUE
           /\ UNCHANGED <<queue, reset>>
  <2>1. row.type # "question" BY <1>2 DEF IsControl
  <2>2. /\ outbox' = outbox /\ deferred' = deferred /\ overflowed' = overflowed /\ reset' = reset
        /\ dropped' = TRUE /\ owed' = TRUE /\ muted' = TRUE
    BY <1>2 DEF RecordDropped, queue
  <2>3. reported' \in Pressures BY <1>1, <1>2 DEF RecordDropped, Pressures
  <2> QED BY <1>1, <1>a, <1>b, <1>c, <2>1, <2>2, <2>3, Zenon
<1>3. CASE /\ IsControl(row) \/ ~Suppressed
           /\ HasRoom(outbox)
           /\ outbox' = Append(outbox, row)
           /\ UNCHANGED <<deferred, overflowed, drops, reset>>
  <2>1. /\ Append(outbox, row) \in Seq(Rows) /\ Len(Append(outbox, row)) = Len(outbox) + 1
        /\ row.type # "index" =>
             \A shown, v : Brings(outbox, unacked, shown, v) => Brings(Append(outbox, row), unacked, shown, v)
        /\ row.type = "index" => \A shown : Brings(Append(outbox, row), unacked, shown, row.v)
        /\ Asks(outbox, unacked) \/ row.type = "question" => Asks(Append(outbox, row), unacked)
    BY <1>1, Added
  <2>2. Len(outbox) < MaxRecords /\ outbox' = Append(outbox, row) BY <1>3 DEF HasRoom
  <2>3. /\ deferred' = deferred /\ overflowed' = overflowed /\ dropped' = dropped /\ owed' = owed
        /\ reported' = reported /\ muted' = muted /\ reset' = reset
    BY <1>3 DEF drops
  <2>4. outbox' \in Seq(Rows) /\ Len(outbox') <= MaxRecords /\ unacked \in 0 .. Len(outbox')
    BY <1>1, <2>1, <2>2
  <2>5. /\ row.type # "index" =>
             \A shown, v : Brings(outbox, unacked, shown, v) => Brings(outbox', unacked, shown, v)
        /\ row.type = "index" => \A shown : Brings(outbox', unacked, shown, row.v)
        /\ Asks(outbox, unacked) \/ row.type = "question" => Asks(outbox', unacked)
    BY <2>1, <2>2
  <2> QED BY <1>1, <1>a, <1>b, <2>3, <2>4, <2>5, Zenon
<1>4. CASE /\ ~IsControl(row) /\ ~Suppressed /\ ~HasRoom(outbox)
           /\ dropped' = TRUE /\ owed' = TRUE
           /\ reported' = Pressure(outbox, deferred, TRUE)
           /\ UNCHANGED <<queue, muted, reset>>
  <2>1. row.type # "question" BY <1>4 DEF IsControl
  <2>2. /\ outbox' = outbox /\ deferred' = deferred /\ overflowed' = overflowed /\ reset' = reset
        /\ dropped' = TRUE /\ owed' = TRUE /\ muted' = muted
    BY <1>4 DEF queue
  <2>3. reported' \in Pressures BY <1>4, PressureIsKnown
  <2> QED BY <1>1, <1>a, <1>b, <1>c, <2>1, <2>2, <2>3, Zenon
<1>5. CASE /\ IsControl(row) /\ ~HasRoom(outbox)
           /\ LET kept == Len(deferred) < DeferredLimit IN
              /\ deferred' = IF kept THEN Append(deferred, row) ELSE deferred
              /\ overflowed' = (overflowed \/ ~kept)
           /\ Notice(Pressure(outbox, deferred', dropped), FALSE)
           /\ UNCHANGED <<outbox, dropped, muted>>
  <2>1. row.type # "index" BY <1>5 DEF IsControl
  <2>2. /\ reported' \in Pressures /\ owed' \in BOOLEAN /\ reset' \in BOOLEAN
        /\ (reset => reset') /\ (owed => owed' \/ reset' \/ ~ipc)
    BY <1>1, <1>5, NoticeKeeps, PressureIsKnown
  <2>3. /\ Append(deferred, row) \in Seq(Rows) /\ Len(Append(deferred, row)) = Len(deferred) + 1
        /\ Asks(deferred, 0) \/ row.type = "question" => Asks(Append(deferred, row), 0)
    BY <1>1, Added
  <2>8. \A i \in DOMAIN Append(deferred, row) : \/ i \in DOMAIN deferred /\ Append(deferred, row)[i] = deferred[i]
                                                \/ Append(deferred, row)[i] = row
    BY <1>1
  <2>4. overflowed' \in BOOLEAN /\ (overflowed => overflowed') BY <1>5
  <2>5. outbox' = outbox /\ dropped' = dropped /\ muted' = muted BY <1>5
  <2>6. CASE Len(deferred) < DeferredLimit /\ deferred' = Append(deferred, row)
    BY <1>1, <1>5, <2>1, <2>2, <2>3, <2>4, <2>5, <2>6, <2>8
  <2>7. CASE deferred' = deferred /\ overflowed' = TRUE
    BY <1>1, <1>a, <1>b, <1>c, <2>1, <2>2, <2>4, <2>5, <2>7, Zenon
  <2> QED BY <1>5, <2>6, <2>7
<1> QED BY <1>2, <1>3, <1>4, <1>5 DEF FromConnector

\* What waited in memory moves to the outbox, behind the rows that are there.
LEMMA Received ==
  ASSUME StreamsTypeOK, \A i \in DOMAIN deferred : deferred[i].type = "question",
         NEW rows \in Seq(Rows), Len(rows) <= MaxRecords, NEW resync \in BOOLEAN,
         AfterReceive(rows, resync)
  PROVE  /\ outbox' \in Seq(Rows) /\ Len(outbox') <= MaxRecords /\ Len(outbox') \in Nat
         /\ deferred' \in Seq(Rows) /\ Len(deferred') <= DeferredLimit
         /\ \A i \in DOMAIN deferred' : deferred'[i].type = "question"
         /\ states' \in {"none", "hello", "offline"} /\ reported' \in Pressures
         /\ dropped' = dropped /\ muted' = muted /\ overflowed' = overflowed
         /\ owed' \in BOOLEAN /\ reset' \in BOOLEAN
         /\ (reset => reset') /\ (owed => owed' \/ reset' \/ ~ipc) /\ (resync => reset' \/ ~ipc)
         /\ \A shown, v : Brings(rows, 0, shown, v) => Brings(outbox', 0, shown, v)
         /\ Asks(rows, 0) => Asks(outbox', 0)
         /\ Asks(deferred, 0) => Asks(outbox', 0) \/ Asks(deferred', 0)
<1>1. /\ deferred \in Seq(Rows) /\ Len(deferred) <= DeferredLimit
      /\ Len(deferred) \in Nat /\ Len(rows) \in Nat /\ MaxRecords \in Nat /\ DeferredLimit \in Nat
      /\ states \in {"none", "hello", "offline"}
      /\ owed \in BOOLEAN /\ reset \in BOOLEAN /\ ipc \in BOOLEAN
  BY Limits DEF StreamsTypeOK
<1>2. PICK n : n = Moved(rows) OBVIOUS
<1>3. n \in 0 .. Len(deferred) /\ Len(rows) + n <= MaxRecords BY <1>1, <1>2 DEF Moved
<1>4. PICK moved : moved = SubSeq(deferred, 1, n) OBVIOUS
<1>5. /\ moved \in Seq(Rows) /\ Len(moved) = n
      /\ \A i \in DOMAIN moved : i \in DOMAIN deferred /\ i \in 1 .. n /\ moved[i] = deferred[i]
      /\ \A i \in DOMAIN deferred : i <= n => i \in DOMAIN moved
  BY <1>1, <1>3, <1>4
<1>6. PICK drained : drained = rows \o moved OBVIOUS
<1>7. \A i \in DOMAIN moved : moved[i].type # "index" BY <1>5
<1>8. 0 \in 0 .. Len(rows) BY <1>1
<1>9. /\ rows \o moved \in Seq(Rows) /\ Len(rows \o moved) = Len(rows) + Len(moved)
      /\ \A shown, v : Brings(rows, 0, shown, v) => Brings(rows \o moved, 0, shown, v)
      /\ Asks(rows, 0) \/ Asks(moved, 0) => Asks(rows \o moved, 0)
  BY <1>5, <1>7, <1>8, Joined
<1>10. /\ drained \in Seq(Rows) /\ Len(drained) <= MaxRecords /\ 0 \in 0 .. Len(drained)
       /\ \A shown, v : Brings(rows, 0, shown, v) => Brings(drained, 0, shown, v)
       /\ Asks(rows, 0) \/ Asks(moved, 0) => Asks(drained, 0)
  BY <1>1, <1>3, <1>5, <1>6, <1>9
<1>11. /\ outbox' = Announced(drained, states) /\ states' = Waiting(drained, states)
       /\ deferred' = SubSeq(deferred, n + 1, Len(deferred))
       /\ Notice(Pressure(outbox', deferred', dropped), resync)
       /\ dropped' = dropped /\ muted' = muted /\ overflowed' = overflowed
  BY <1>2, <1>4, <1>6 DEF AfterReceive
<1>12. /\ Announced(drained, states) \in Seq(Rows) /\ Len(Announced(drained, states)) <= MaxRecords
       /\ \A shown, v : Brings(drained, 0, shown, v) => Brings(Announced(drained, states), 0, shown, v)
       /\ Asks(drained, 0) => Asks(Announced(drained, states), 0)
       /\ Waiting(drained, states) \in {"none", "hello", "offline"}
  BY <1>1, <1>10, AnnouncedKeeps
<1>13. /\ outbox' \in Seq(Rows) /\ Len(outbox') <= MaxRecords /\ Len(outbox') \in Nat
       /\ states' \in {"none", "hello", "offline"}
       /\ \A shown, v : Brings(rows, 0, shown, v) => Brings(outbox', 0, shown, v)
       /\ Asks(rows, 0) \/ Asks(moved, 0) => Asks(outbox', 0)
  BY <1>10, <1>11, <1>12
<1>14. /\ SubSeq(deferred, n + 1, Len(deferred)) \in Seq(Rows)
       /\ Len(SubSeq(deferred, n + 1, Len(deferred))) = Len(deferred) - n
       /\ \A i \in DOMAIN SubSeq(deferred, n + 1, Len(deferred)) :
            i + n \in DOMAIN deferred /\ SubSeq(deferred, n + 1, Len(deferred))[i] = deferred[i + n]
       /\ Asks(deferred, n) => Asks(SubSeq(deferred, n + 1, Len(deferred)), 0)
  BY <1>1, <1>3, CutOff
<1>15. /\ deferred' \in Seq(Rows) /\ Len(deferred') <= DeferredLimit
       /\ \A i \in DOMAIN deferred' : deferred'[i].type = "question"
       /\ Asks(deferred, n) => Asks(deferred', 0)
  BY <1>1, <1>3, <1>11, <1>14
<1>16. Asks(deferred, 0) => Asks(moved, 0) \/ Asks(deferred, n)
  BY <1>1, <1>3, <1>5 DEF Asks
<1>17. /\ reported' \in Pressures /\ owed' \in BOOLEAN /\ reset' \in BOOLEAN
       /\ (reset => reset') /\ (owed => owed' \/ reset' \/ ~ipc) /\ (resync => reset' \/ ~ipc)
  BY <1>1, <1>11, PressureIsKnown, NoticeKeeps
<1> QED BY <1>11, <1>13, <1>15, <1>16, <1>17

LEMMA StatusKeeps ==
  ASSUME StreamsTypeOK, NEW rows \in Seq(Rows), Len(rows) <= MaxRecords, Status(rows)
  PROVE  /\ outbox' \in Seq(Rows) /\ Len(outbox') <= MaxRecords /\ Len(outbox') \in Nat
         /\ deferred' = deferred /\ reported' \in Pressures
         /\ dropped' \in BOOLEAN /\ muted' = muted /\ overflowed' = overflowed
         /\ owed' \in BOOLEAN /\ reset' \in BOOLEAN
         /\ (reset => reset') /\ (owed => owed' \/ reset' \/ ~ipc)
         /\ \A shown, v : Brings(rows, 0, shown, v) => Brings(outbox', 0, shown, v)
         /\ Asks(rows, 0) => Asks(outbox', 0)
<1>1. /\ owed \in BOOLEAN /\ reset \in BOOLEAN /\ ipc \in BOOLEAN /\ dropped \in BOOLEAN
  BY DEF StreamsTypeOK
<1>2. PICK row : row = Plain("status") OBVIOUS
<1>3. row \in Rows /\ row.type # "index" BY <1>2, Limits DEF Plain, Row, Rows
<1>4. /\ outbox' = Put(rows, row) /\ Notice(Pressure(rows, deferred, dropped'), FALSE)
      /\ dropped' = (dropped /\ ~HasRoom(rows))
      /\ deferred' = deferred /\ overflowed' = overflowed /\ muted' = muted
  BY <1>2 DEF Status
<1>5. 0 \in 0 .. Len(rows) OBVIOUS
<1>6. /\ Put(rows, row) \in Seq(Rows) /\ Len(Put(rows, row)) <= MaxRecords
      /\ \A shown, v : Brings(rows, 0, shown, v) => Brings(Put(rows, row), 0, shown, v)
      /\ Asks(rows, 0) => Asks(Put(rows, row), 0)
  BY <1>3, <1>5, PutKeeps
<1>7. /\ reported' \in Pressures /\ owed' \in BOOLEAN /\ reset' \in BOOLEAN
      /\ (reset => reset') /\ (owed => owed' \/ reset' \/ ~ipc)
  BY <1>1, <1>4, PressureIsKnown, NoticeKeeps
<1>8. dropped' \in BOOLEAN BY <1>1, <1>4
<1> QED BY <1>4, <1>6, <1>7, <1>8

-----------------------------------------------------------------------------
(* What the Hub shows follows what was handed to the Node Agent. *)

\* A baseline is on its way, or will never be: the carrier is being replaced,
\* a frame dropped or recovered is owed, or the Node Agent has given up.
Repaired ==
  \/ ~ipc \/ reset \/ owed \/ resyncs > 0 \/ skipped \/ overflowed
  \/ \E i \in DOMAIN inbox : IsStream(inbox[i])

\* A row counts as acknowledged only while the link is down, only questions wait
\* in memory, and a link that is up has an inbox that was recovered.
Orderly ==
  /\ phase # "down" => unacked = 0
  /\ \A i \in DOMAIN deferred : deferred[i].type = "question"
  /\ phase = "up" => inbox = <<>>

IndexFollows == Repaired \/ timer \/ Brings(outbox, unacked, index, published)
QuestionFollows ==
  question => Repaired \/ replay \/ asked \/ Asks(outbox, unacked) \/ Asks(deferred, 0)

StreamsInv == StreamsTypeOK /\ Orderly /\ IndexFollows /\ QuestionFollows

LEMMA StreamTypes ==
  StreamsTypeOK =>
    /\ world \in 0 .. MaxChanges /\ published \in 0 .. MaxChanges /\ index \in 0 .. MaxChanges
    /\ outbox \in Seq(Rows) /\ Len(outbox) <= MaxRecords /\ unacked \in 0 .. Len(outbox)
    /\ deferred \in Seq(Rows) /\ Len(deferred) <= DeferredLimit /\ inbox \in Seq(Rows)
    /\ states \in {"none", "hello", "offline"} /\ phase \in {"down", "up", "closing"}
    /\ reported \in Pressures /\ resyncs \in 0 .. 1 /\ faults \in 0 .. MaxFaults
    /\ question \in BOOLEAN /\ ipc \in BOOLEAN /\ timer \in BOOLEAN /\ replay \in BOOLEAN
    /\ reset \in BOOLEAN /\ dropped \in BOOLEAN /\ owed \in BOOLEAN /\ honoured \in BOOLEAN
    /\ skipped \in BOOLEAN /\ muted \in BOOLEAN /\ overflowed \in BOOLEAN /\ listed \in BOOLEAN
    /\ known \in BOOLEAN /\ asked \in BOOLEAN
BY DEF StreamsTypeOK, Pressures

LEMMA RepairedStays ==
  ASSUME UNCHANGED <<ipc, resyncs, skipped, inbox>>, reset => reset',
         overflowed => overflowed', owed => owed' \/ reset' \/ ~ipc
  PROVE  Repaired => Repaired'
BY DEF Repaired, IsStream

\* A step of the Connector's side that hands a row over.
LEMMA HandedOver ==
  ASSUME StreamsTypeOK, Orderly, NEW row \in Rows, FromConnector(row),
         row.type \in {"index", "event", "question"},
         UNCHANGED <<ipc, states, honoured, skipped, hub, link, faults>>,
         world' \in 0 .. MaxChanges, published' \in 0 .. MaxChanges,
         question' \in BOOLEAN, timer' \in BOOLEAN, replay' \in BOOLEAN
  PROVE  StreamsTypeOK' /\ Orderly' /\ (Repaired => Repaired')
<1>1. /\ outbox' \in Seq(Rows) /\ Len(outbox') <= MaxRecords /\ unacked \in 0 .. Len(outbox')
      /\ deferred' \in Seq(Rows) /\ Len(deferred') <= DeferredLimit
      /\ reported' \in Pressures
      /\ dropped' \in BOOLEAN /\ owed' \in BOOLEAN /\ reset' \in BOOLEAN /\ muted' \in BOOLEAN
      /\ overflowed' \in BOOLEAN
      /\ (reset => reset') /\ (overflowed => overflowed') /\ (owed => owed' \/ reset' \/ ~ipc)
      /\ \A i \in DOMAIN deferred' : \/ i \in DOMAIN deferred /\ deferred'[i] = deferred[i]
                                     \/ deferred'[i] = row /\ IsControl(row)
  BY Offered
<1>2. /\ ipc' = ipc /\ states' = states /\ honoured' = honoured /\ skipped' = skipped
      /\ phase' = phase /\ unacked' = unacked /\ inbox' = inbox /\ listed' = listed
      /\ index' = index /\ asked' = asked /\ resyncs' = resyncs /\ known' = known /\ faults' = faults
  BY DEF hub, stored, link
<1>3. StreamsTypeOK' BY <1>1, <1>2, StreamTypes DEF StreamsTypeOK, Pressures
<1>4. Orderly'
  <2>1. \A i \in DOMAIN deferred' : deferred'[i].type = "question"
    BY <1>1 DEF Orderly, IsControl
  <2> QED BY <1>2, <2>1 DEF Orderly
<1>5. Repaired => Repaired' BY <1>1, <1>2, RepairedStays
<1> QED BY <1>3, <1>4, <1>5

LEMMA ConnectorKeeps ==
  ASSUME StreamsInv, Change \/ Ask \/ Replay \/ PublishIndex
  PROVE  StreamsInv'
<1>1. StreamsTypeOK /\ Orderly /\ IndexFollows /\ QuestionFollows BY DEF StreamsInv
<1>2. /\ world \in 0 .. MaxChanges /\ published \in 0 .. MaxChanges /\ question \in BOOLEAN
      /\ timer \in BOOLEAN /\ replay \in BOOLEAN /\ ipc \in BOOLEAN /\ MaxChanges \in Nat
  BY <1>1, StreamTypes, Limits
<1> DEFINE kept == /\ \A shown, v : Brings(outbox, unacked, shown, v) => Brings(outbox', unacked, shown, v)
                   /\ Asks(outbox, unacked) => Asks(outbox', unacked)
                   /\ Asks(deferred, 0) => Asks(deferred', 0)
<1>3. CASE Change
  <2>1. /\ world' = world + 1 /\ world' \in 0 .. MaxChanges /\ timer' = ipc
        /\ question' = question /\ ipc' = ipc /\ replay' = replay /\ published' = published
        /\ asked' = asked /\ unacked' = unacked /\ index' = index
        /\ UNCHANGED <<states, honoured, skipped, hub, link, faults>>
    BY <1>2, <1>3 DEF Change, hub, stored, link
  <2>2. CASE ipc
    <3>1. PICK row : row = Plain("event") OBVIOUS
    <3>2. row \in Rows /\ row.type = "event" BY <1>2, <3>1 DEF Plain, Row, Rows
    <3>3. FromConnector(row) BY <1>3, <2>2, <3>1 DEF Change
    <3>4. StreamsTypeOK' /\ Orderly' /\ (Repaired => Repaired')
      BY <1>1, <1>2, <2>1, <3>2, <3>3, HandedOver
    <3>5. kept BY <1>1, <3>2, <3>3, Offered
    <3>6. IndexFollows' BY <2>1, <2>2 DEF IndexFollows
    <3>7. QuestionFollows' BY <1>1, <2>1, <3>4, <3>5 DEF QuestionFollows
    <3> QED BY <3>4, <3>6, <3>7 DEF StreamsInv
  <2>3. CASE ~ipc
    <3>1. UNCHANGED <<queue, drops, reset>> BY <1>3, <2>3 DEF Change
    <3>2. /\ outbox' = outbox /\ deferred' = deferred /\ overflowed' = overflowed
          /\ dropped' = dropped /\ owed' = owed /\ reported' = reported /\ muted' = muted /\ reset' = reset
          /\ phase' = phase /\ inbox' = inbox /\ listed' = listed /\ known' = known /\ resyncs' = resyncs
          /\ states' = states /\ honoured' = honoured /\ skipped' = skipped /\ faults' = faults
      BY <2>1, <3>1 DEF queue, drops, hub, stored, link
    <3>3. StreamsTypeOK' BY <1>1, <1>2, <2>1, <3>2, StreamTypes DEF StreamsTypeOK, Pressures
    <3>4. Orderly' BY <1>1, <2>1, <3>2 DEF Orderly
    <3>5. Repaired' BY <2>1, <2>3 DEF Repaired
    <3> QED BY <3>3, <3>4, <3>5 DEF StreamsInv, IndexFollows, QuestionFollows
  <2> QED BY <1>2, <2>2, <2>3
<1>4. CASE Ask
  <2>1. /\ question' = TRUE /\ world' = world /\ ipc' = ipc /\ timer' = timer /\ replay' = replay
        /\ published' = published /\ asked' = asked /\ unacked' = unacked /\ index' = index
        /\ UNCHANGED <<states, honoured, skipped, hub, link, faults>>
    BY <1>4 DEF Ask, hub, stored, link
  <2>2. CASE ipc
    <3>1. PICK row : row = Plain("question") OBVIOUS
    <3>2. row \in Rows /\ row.type = "question" BY <1>2, <3>1 DEF Plain, Row, Rows
    <3>3. FromConnector(row) BY <1>4, <2>2, <3>1 DEF Ask
    <3>4. StreamsTypeOK' /\ Orderly' /\ (Repaired => Repaired')
      BY <1>1, <1>2, <2>1, <3>2, <3>3, HandedOver
    <3>5. kept /\ (overflowed' \/ Asks(outbox', unacked) \/ Asks(deferred', 0))
      BY <1>1, <3>2, <3>3, Offered
    <3>6. IndexFollows' BY <1>1, <2>1, <3>4, <3>5 DEF IndexFollows
    <3>7. QuestionFollows' BY <2>1, <3>5 DEF QuestionFollows, Repaired
    <3> QED BY <3>4, <3>6, <3>7 DEF StreamsInv
  <2>3. CASE ~ipc
    <3>1. UNCHANGED <<queue, drops, reset>> BY <1>4, <2>3 DEF Ask
    <3>2. /\ outbox' = outbox /\ deferred' = deferred /\ overflowed' = overflowed
          /\ dropped' = dropped /\ owed' = owed /\ reported' = reported /\ muted' = muted /\ reset' = reset
          /\ phase' = phase /\ inbox' = inbox /\ listed' = listed /\ known' = known /\ resyncs' = resyncs
          /\ states' = states /\ honoured' = honoured /\ skipped' = skipped /\ faults' = faults
      BY <2>1, <3>1 DEF queue, drops, hub, stored, link
    <3>3. StreamsTypeOK' BY <1>1, <1>2, <2>1, <3>2, StreamTypes DEF StreamsTypeOK, Pressures
    <3>4. Orderly' BY <1>1, <2>1, <3>2 DEF Orderly
    <3>5. Repaired' BY <2>1, <2>3 DEF Repaired
    <3> QED BY <3>3, <3>4, <3>5 DEF StreamsInv, IndexFollows, QuestionFollows
  <2> QED BY <1>2, <2>2, <2>3
<1>5. CASE Replay
  <2>1. /\ question' = question /\ world' = world /\ ipc' = ipc /\ timer' = timer /\ replay' = FALSE
        /\ published' = published /\ asked' = asked /\ unacked' = unacked /\ index' = index
        /\ UNCHANGED <<states, honoured, skipped, hub, link, faults>>
    BY <1>5 DEF Replay, runtime, hub, stored, link
  <2>2. PICK row : row = Plain("question") OBVIOUS
  <2>3. row \in Rows /\ row.type = "question" BY <1>2, <2>2 DEF Plain, Row, Rows
  <2>4. FromConnector(row) BY <1>5, <2>2 DEF Replay
  <2>5. StreamsTypeOK' /\ Orderly' /\ (Repaired => Repaired')
    BY <1>1, <1>2, <2>1, <2>3, <2>4, HandedOver
  <2>6. kept /\ (overflowed' \/ Asks(outbox', unacked) \/ Asks(deferred', 0))
    BY <1>1, <2>3, <2>4, Offered
  <2>7. IndexFollows' BY <1>1, <2>1, <2>5, <2>6 DEF IndexFollows
  <2>8. QuestionFollows' BY <2>1, <2>6 DEF QuestionFollows, Repaired
  <2> QED BY <2>5, <2>7, <2>8 DEF StreamsInv
<1>6. CASE PublishIndex
  <2>1. /\ question' = question /\ world' = world /\ ipc' = ipc /\ timer' = FALSE /\ replay' = replay
        /\ published' = world /\ asked' = asked /\ unacked' = unacked /\ index' = index
        /\ UNCHANGED <<states, honoured, skipped, hub, link, faults>>
    BY <1>6 DEF PublishIndex, runtime, hub, stored, link
  <2>2. PICK row : row = Row("index", world) OBVIOUS
  <2>3. row \in Rows /\ row.type = "index" /\ row.v = world BY <1>2, <2>2 DEF Row, Rows
  <2>4. FromConnector(row) BY <1>6, <2>2 DEF PublishIndex
  <2>5. StreamsTypeOK' /\ Orderly' /\ (Repaired => Repaired')
    BY <1>1, <1>2, <2>1, <2>3, <2>4, HandedOver
  <2>6. /\ owed' \/ \A shown : Brings(outbox', unacked, shown, world)
        /\ Asks(outbox, unacked) => Asks(outbox', unacked)
        /\ Asks(deferred, 0) => Asks(deferred', 0)
    BY <1>1, <2>3, <2>4, Offered
  <2>7. IndexFollows' BY <2>1, <2>6 DEF IndexFollows, Repaired
  <2>8. QuestionFollows' BY <1>1, <2>1, <2>5, <2>6 DEF QuestionFollows
  <2> QED BY <2>5, <2>7, <2>8 DEF StreamsInv
<1> QED BY <1>3, <1>4, <1>5, <1>6

\* A set of numbers that is not empty has a first one.
LEMMA FirstOf ==
  ASSUME NEW S \in SUBSET Nat, S # {}
  PROVE  \E m \in S : \A j \in S : m <= j
<1>1. PICK n \in S : TRUE OBVIOUS
<1> DEFINE Low == {k \in S : k <= n}
           Below(m) == {k \in S : k < m}
           T == {Below(m) : m \in Low}
           R == StrictSubsetOrdering(Low)
<1>7. \A k \in S : k \in Nat OBVIOUS
<1>2. n \in Low /\ n \in Nat /\ Low \subseteq 0 .. n
  <2>1. n \in Nat /\ n <= n BY <1>7
  <2>2. \A k \in Low : k \in 0 .. n BY <1>7, <2>1
  <2>3. n \in Low BY <2>1
  <2> QED BY <2>1, <2>2, <2>3
<1>3. IsFiniteSet(Low)
  <2>1. IsFiniteSet(0 .. n) BY <1>2, FS_Interval
  <2> QED BY <1>2, <2>1, FS_Subset
<1>4. T \subseteq FiniteSubsetsOf(Low) /\ T # {}
  <2>1. ASSUME NEW m \in Low PROVE Below(m) \subseteq Low
    <3>1. \A k \in S : k < m => k <= n BY <1>2, <1>7
    <3> QED BY <3>1
  <2>2. \A m \in Low : IsFiniteSet(Below(m)) BY <1>3, <2>1, FS_Subset
  <2> QED BY <1>2, <2>1, <2>2 DEF FiniteSubsetsOf
<1>5. PICK x \in T : \A y \in T : ~(<<y, x>> \in R)
  <2>1. IsWellFoundedOn(R, FiniteSubsetsOf(Low)) BY <1>3, FS_StrictSubsetOrderingWellFounded
  <2> HIDE DEF T, R
  <2> QED BY <1>4, <2>1, WFMin
<1>6. PICK m \in Low : x = Below(m) OBVIOUS
<1>8. ASSUME NEW j \in S, j < m PROVE FALSE
  <2>1. j \in Low BY <1>2, <1>6, <1>7, <1>8
  <2>2. Below(j) \in T BY <2>1
  <2>3. Below(j) \subseteq Below(m)
    <3> SUFFICES ASSUME NEW k \in Below(j) PROVE k < m OBVIOUS
    <3> QED BY <1>6, <1>7, <1>8
  <2>4. j \in Below(m) /\ j \notin Below(j) BY <1>7, <1>8
  <2>5. \A k \in Below(m) : k \in Low BY <1>2, <1>6, <1>7
  <2>6. <<Below(j), Below(m)>> \in R BY <2>3, <2>4, <2>5 DEF StrictSubsetOrdering
  <2> QED BY <1>5, <1>6, <2>2, <2>6
<1> QED BY <1>6, <1>7, <1>8

LEMMA LinkKeeps ==
  ASSUME StreamsInv,
         \/ ConnectorUp \/ Reopen \/ ConnectorLost \/ StatusTick \/ Unmute \/ NodeCrash
         \/ Close \/ LinkLost \/ UNCHANGED streamsVars
  PROVE  StreamsInv'
<1>1. StreamsTypeOK /\ Orderly /\ IndexFollows /\ QuestionFollows BY DEF StreamsInv
<1>2. /\ outbox \in Seq(Rows) /\ Len(outbox) <= MaxRecords /\ unacked \in 0 .. Len(outbox)
      /\ Len(outbox) \in Nat /\ Len(<<>>) = 0 /\ <<>> \in Seq(Rows) /\ DeferredLimit \in Nat
      /\ faults \in 0 .. MaxFaults /\ MaxFaults \in Nat
  BY <1>1, StreamTypes, Limits
<1>3. CASE ConnectorUp
  <2>1. /\ ipc' = TRUE /\ timer' = TRUE /\ replay' = question
        /\ outbox' = Announced(outbox, "hello") /\ states' = Waiting(outbox, "hello")
        /\ question' = question /\ world' = world /\ reset' = reset /\ published' = published
        /\ deferred' = deferred /\ overflowed' = overflowed
        /\ dropped' = dropped /\ owed' = owed /\ reported' = reported /\ muted' = muted
        /\ honoured' = honoured /\ skipped' = skipped
        /\ phase' = phase /\ unacked' = unacked /\ inbox' = inbox /\ listed' = listed /\ known' = known
        /\ index' = index /\ asked' = asked /\ resyncs' = resyncs /\ faults' = faults
    BY <1>3 DEF ConnectorUp, runtime, drops, hub, stored, link
  <2>2. /\ outbox' \in Seq(Rows) /\ Len(outbox') <= MaxRecords /\ unacked \in 0 .. Len(outbox')
        /\ states' \in {"none", "hello", "offline"}
    BY <1>2, <2>1, AnnouncedKeeps
  <2>3. StreamsTypeOK' BY <1>1, <2>1, <2>2, StreamTypes DEF StreamsTypeOK, Pressures
  <2>4. Orderly' BY <1>1, <2>1 DEF Orderly
  <2> QED BY <2>1, <2>3, <2>4 DEF StreamsInv, IndexFollows, QuestionFollows
<1>4. CASE GenerationEnds /\ faults' \in 0 .. MaxFaults
  <2>1. /\ ipc' = FALSE /\ timer' = FALSE /\ replay' = FALSE /\ reset' = FALSE
        /\ outbox' = Announced(outbox, "offline") /\ states' = Waiting(outbox, "offline")
        /\ question' = question /\ world' = world /\ published' = published
        /\ deferred' = deferred /\ overflowed' = overflowed
        /\ dropped' = dropped /\ owed' = owed /\ reported' = reported /\ muted' = muted
        /\ honoured' = honoured /\ skipped' = skipped
        /\ phase' = phase /\ unacked' = unacked /\ inbox' = inbox /\ listed' = listed /\ known' = known
        /\ index' = index /\ asked' = asked /\ resyncs' = resyncs
    BY <1>4 DEF GenerationEnds, runtime, drops, hub, stored, link
  <2>2. /\ outbox' \in Seq(Rows) /\ Len(outbox') <= MaxRecords /\ unacked \in 0 .. Len(outbox')
        /\ states' \in {"none", "hello", "offline"}
    BY <1>2, <2>1, AnnouncedKeeps
  <2>3. StreamsTypeOK'
    <3>1. {question', ipc', timer', replay', reset', dropped', owed', honoured', skipped', muted',
           overflowed', listed', known', asked'} \subseteq BOOLEAN
      BY <1>1, <2>1, StreamTypes
    <3> QED BY <1>1, <1>4, <2>1, <2>2, <3>1, StreamTypes DEF StreamsTypeOK, Pressures
  <2>4. Orderly' BY <1>1, <2>1 DEF Orderly
  <2> QED BY <2>1, <2>3, <2>4 DEF StreamsInv, IndexFollows, QuestionFollows, Repaired
<1>5. CASE StatusTick
  <2>1. /\ Status(outbox) /\ phase = "up"
        /\ ipc' = ipc /\ timer' = timer /\ replay' = replay
        /\ question' = question /\ world' = world /\ published' = published
        /\ states' = states /\ honoured' = honoured /\ skipped' = skipped
        /\ phase' = phase /\ unacked' = unacked /\ inbox' = inbox /\ listed' = listed /\ known' = known
        /\ index' = index /\ asked' = asked /\ resyncs' = resyncs /\ faults' = faults
    BY <1>5 DEF StatusTick, runtime, hub, stored, link
  <2>2. /\ outbox' \in Seq(Rows) /\ Len(outbox') <= MaxRecords /\ Len(outbox') \in Nat
        /\ deferred' = deferred /\ reported' \in Pressures
        /\ dropped' \in BOOLEAN /\ muted' = muted /\ overflowed' = overflowed
        /\ owed' \in BOOLEAN /\ reset' \in BOOLEAN
        /\ (reset => reset') /\ (owed => owed' \/ reset' \/ ~ipc)
        /\ \A shown, v : Brings(outbox, 0, shown, v) => Brings(outbox', 0, shown, v)
        /\ Asks(outbox, 0) => Asks(outbox', 0)
    BY <1>1, <1>2, <2>1, StatusKeeps
  <2>3. unacked = 0 /\ unacked' = 0 BY <1>1, <2>1 DEF Orderly
  <2>4. StreamsTypeOK' BY <1>1, <2>1, <2>2, <2>3, StreamTypes DEF StreamsTypeOK, Pressures
  <2>5. Orderly' BY <1>1, <2>1, <2>2 DEF Orderly
  <2>6. Repaired => Repaired' BY <2>1, <2>2, RepairedStays
  <2>7. IndexFollows' BY <1>1, <2>1, <2>2, <2>3, <2>6 DEF IndexFollows
  <2>8. QuestionFollows' BY <1>1, <2>1, <2>2, <2>3, <2>6 DEF QuestionFollows
  <2> QED BY <2>4, <2>5, <2>7, <2>8 DEF StreamsInv
<1>6. CASE /\ UNCHANGED <<runtime, connector, queue, owed, inbox, index, asked, resyncs, skipped, unacked>>
           /\ UNCHANGED <<dropped, reported, states, honoured, listed>>
           /\ muted' \in BOOLEAN /\ known' \in BOOLEAN /\ faults' \in 0 .. MaxFaults
           /\ phase' = phase \/ phase' = "down"
  <2>1. /\ ipc' = ipc /\ timer' = timer /\ replay' = replay /\ reset' = reset
        /\ question' = question /\ world' = world /\ published' = published
        /\ outbox' = outbox /\ deferred' = deferred /\ overflowed' = overflowed
    BY <1>6 DEF runtime, connector, queue
  <2>2. StreamsTypeOK' BY <1>1, <1>6, <2>1, StreamTypes DEF StreamsTypeOK, Pressures
  <2>3. Orderly' BY <1>1, <1>6, <2>1 DEF Orderly
  <2>4. Repaired => Repaired' BY <1>6, <2>1, RepairedStays
  <2>5. IndexFollows' BY <1>1, <1>6, <2>1, <2>4 DEF IndexFollows
  <2>6. QuestionFollows' BY <1>1, <1>6, <2>1, <2>4 DEF QuestionFollows
  <2> QED BY <2>2, <2>3, <2>5, <2>6 DEF StreamsInv
<1>7. CASE NodeCrash
  <2>1. /\ ipc' = FALSE /\ timer' = FALSE /\ replay' = FALSE /\ reset' = FALSE
        /\ deferred' = <<>> /\ states' = "none" /\ honoured' = FALSE
        /\ dropped' = FALSE /\ owed' = FALSE /\ reported' = "normal" /\ muted' = FALSE
        /\ question' = question /\ world' = world /\ published' = published
        /\ outbox' = outbox /\ overflowed' = overflowed /\ skipped' = skipped
        /\ phase' = "down" /\ known' = FALSE /\ faults' \in 0 .. MaxFaults
        /\ unacked' = unacked /\ inbox' = inbox /\ listed' = listed
        /\ index' = index /\ asked' = asked /\ resyncs' = resyncs
    BY <1>2, <1>7 DEF NodeCrash, runtime, stored, Down, Fault
  <2>2. StreamsTypeOK'
    <3>1. {question', ipc', timer', replay', reset', dropped', owed', honoured', skipped', muted',
           overflowed', listed', known', asked'} \subseteq BOOLEAN
      BY <1>1, <2>1, StreamTypes
    <3> QED BY <1>1, <1>2, <2>1, <3>1, StreamTypes DEF StreamsTypeOK, Pressures
  <2>3. Orderly' BY <1>1, <2>1 DEF Orderly
  <2> QED BY <2>1, <2>2, <2>3 DEF StreamsInv, IndexFollows, QuestionFollows, Repaired
<1>8. CASE Reopen BY <1>2, <1>4, <1>8 DEF Reopen
<1>9. CASE ConnectorLost BY <1>2, <1>4, <1>9 DEF ConnectorLost, Fault
<1>10. CASE Unmute
  BY <1>1, <1>6, <1>10, StreamTypes DEF Unmute, hub, stored, link
<1>11. CASE Close
  BY <1>1, <1>6, <1>11, StreamTypes DEF Close, Down, node, drops, stored
<1>12. CASE LinkLost
  <2>1. faults' \in 0 .. MaxFaults BY <1>2, <1>12 DEF LinkLost, Fault
  <2> QED BY <1>1, <1>6, <1>12, <2>1, StreamTypes DEF LinkLost, Down, node, drops, stored
<1>13. CASE UNCHANGED streamsVars
  BY <1>1, <1>6, <1>13, StreamTypes DEF streamsVars, node, drops, hub, stored, link
<1> QED BY <1>3, <1>5, <1>7, <1>8, <1>9, <1>10, <1>11, <1>12, <1>13

\* A row that is taken, or that is left with the Hub.
LEMMA DeliveryKeeps ==
  ASSUME StreamsInv, Deliver \/ AcknowledgementLost \/ HubCrash
  PROVE  StreamsInv'
<1>1. StreamsTypeOK /\ Orderly /\ IndexFollows /\ QuestionFollows BY DEF StreamsInv
<1>2. /\ phase # "down" /\ outbox # <<>>
  BY DEF Deliver, AcknowledgementLost, HubCrash, Incoming
<1>3. /\ outbox \in Seq(Rows) /\ Len(outbox) <= MaxRecords /\ MaxRecords \in Nat /\ unacked = 0
      /\ inbox \in Seq(Rows) /\ faults \in 0 .. MaxFaults /\ MaxFaults \in Nat
  BY <1>1, <1>2, StreamTypes, Limits DEF Orderly
<1>4. PICK row : row = Head(outbox) OBVIOUS
<1>5. PICK shows : shows = IF row.type = "index" THEN row.v ELSE index OBVIOUS
<1>6. /\ Head(outbox) = outbox[1] /\ outbox[1] \in Rows /\ Len(outbox) >= 1
      /\ Tail(outbox) = SubSeq(outbox, 1 + 1, Len(outbox))
      /\ \A shown, v : Brings(outbox, 0, shown, v) =>
           Brings(outbox, 1, IF outbox[1].type = "index" THEN outbox[1].v ELSE shown, v)
      /\ Asks(outbox, 0) => outbox[1].type = "question" \/ Asks(outbox, 1)
  BY <1>2, <1>3, FirstTaken
<1>7. /\ row \in Rows /\ 1 \in 0 .. Len(outbox)
      /\ \A v : Brings(outbox, 0, index, v) => Brings(outbox, 1, shows, v)
      /\ Asks(outbox, 0) => row.type = "question" \/ Asks(outbox, 1)
  BY <1>3, <1>4, <1>5, <1>6
<1>8. shows \in 0 .. MaxChanges BY <1>1, <1>5, <1>7, StreamTypes DEF Rows
<1>9. CASE Deliver /\ Takes(row)
  <2>1. /\ listed' = (listed \/ row.type = "hello") /\ index' = shows
        /\ asked' = (asked \/ row.type = "question")
    BY <1>4, <1>5, <1>9 DEF Deliver, Process
  <2>2. /\ known' = Told(row) /\ AfterReceive(Tail(outbox), FALSE)
        /\ inbox' = inbox /\ phase' = phase /\ unacked' = unacked
        /\ question' = question /\ world' = world /\ ipc' = ipc /\ timer' = timer /\ replay' = replay
        /\ published' = published /\ honoured' = honoured /\ skipped' = skipped
        /\ resyncs' = resyncs /\ faults' = faults
    BY <1>4, <1>9 DEF Deliver, runtime, link
  <2>3. /\ Tail(outbox) \in Seq(Rows) /\ Len(Tail(outbox)) <= MaxRecords
        /\ \A shown, v : Brings(outbox, 1, shown, v) => Brings(Tail(outbox), 0, shown, v)
        /\ Asks(outbox, 1) => Asks(Tail(outbox), 0)
    <3>1. /\ SubSeq(outbox, 1 + 1, Len(outbox)) \in Seq(Rows)
          /\ Len(SubSeq(outbox, 1 + 1, Len(outbox))) = Len(outbox) - 1
          /\ \A shown, v : Brings(outbox, 1, shown, v) => Brings(SubSeq(outbox, 1 + 1, Len(outbox)), 0, shown, v)
          /\ Asks(outbox, 1) => Asks(SubSeq(outbox, 1 + 1, Len(outbox)), 0)
      BY <1>3, <1>7, CutOff
    <3>2. PICK rows : rows = SubSeq(outbox, 1 + 1, Len(outbox)) OBVIOUS
    <3>3. /\ rows \in Seq(Rows) /\ Len(rows) = Len(outbox) - 1 /\ Tail(outbox) = rows
          /\ \A shown, v : Brings(outbox, 1, shown, v) => Brings(rows, 0, shown, v)
          /\ Asks(outbox, 1) => Asks(rows, 0)
      BY <1>6, <3>1, <3>2
    <3>4. Len(outbox) \in Nat BY <1>3
    <3>5. Len(rows) <= MaxRecords BY <1>3, <3>3, <3>4
    <3> QED BY <3>3, <3>5, Zenon
  <2>4. PICK rows : rows = Tail(outbox) OBVIOUS
  <2>5. /\ rows \in Seq(Rows) /\ Len(rows) <= MaxRecords /\ AfterReceive(rows, FALSE)
        /\ \A i \in DOMAIN deferred : deferred[i].type = "question"
    BY <1>1, <2>2, <2>3, <2>4 DEF Orderly
  <2>6. /\ outbox' \in Seq(Rows) /\ Len(outbox') <= MaxRecords /\ Len(outbox') \in Nat
        /\ deferred' \in Seq(Rows) /\ Len(deferred') <= DeferredLimit
        /\ \A i \in DOMAIN deferred' : deferred'[i].type = "question"
        /\ states' \in {"none", "hello", "offline"} /\ reported' \in Pressures
        /\ dropped' = dropped /\ muted' = muted /\ overflowed' = overflowed
        /\ owed' \in BOOLEAN /\ reset' \in BOOLEAN
        /\ (reset => reset') /\ (owed => owed' \/ reset' \/ ~ipc)
        /\ \A shown, v : Brings(rows, 0, shown, v) => Brings(outbox', 0, shown, v)
        /\ Asks(rows, 0) => Asks(outbox', 0)
        /\ Asks(deferred, 0) => Asks(outbox', 0) \/ Asks(deferred', 0)
    BY <1>1, <2>5, Received
  <2>7. StreamsTypeOK'
    <3>1. listed' \in BOOLEAN /\ asked' \in BOOLEAN /\ known' \in BOOLEAN
      BY <1>1, <2>1, <2>2, StreamTypes DEF Told
    <3>2. unacked' \in 0 .. Len(outbox') BY <1>3, <2>2, <2>6
    <3> QED BY <1>1, <1>8, <2>1, <2>2, <2>6, <3>1, <3>2, StreamTypes DEF StreamsTypeOK, Pressures
  <2>8. Orderly' BY <1>1, <2>2, <2>6 DEF Orderly
  <2>9. Repaired => Repaired' BY <2>2, <2>6, RepairedStays
  <2>10. Brings(outbox, 0, index, published) => Brings(outbox', 0, shows, published)
    BY <1>7, <2>3, <2>4, <2>6
  <2>11. IndexFollows' BY <1>1, <1>3, <2>1, <2>2, <2>9, <2>10 DEF IndexFollows
  <2>12. Asks(outbox, 0) => asked' \/ Asks(outbox', 0) BY <1>7, <2>1, <2>3, <2>4, <2>6
  <2>13. asked => asked' BY <2>1
  <2>14. QuestionFollows' BY <1>1, <1>3, <2>2, <2>6, <2>9, <2>12, <2>13 DEF QuestionFollows
  <2> QED BY <2>7, <2>8, <2>11, <2>14 DEF StreamsInv
<1>10. CASE Accepted /\ ((Deliver /\ ~Takes(row)) \/ HubCrash)
  <2>1. /\ inbox' = Append(inbox, row) /\ unacked' = 1 /\ phase' = "down" /\ known' = FALSE
        /\ faults' \in 0 .. MaxFaults
        /\ outbox' = outbox /\ deferred' = deferred /\ overflowed' = overflowed
        /\ dropped' = dropped /\ owed' = owed /\ reported' = reported /\ muted' = muted
        /\ states' = states /\ reset' = reset /\ listed' = listed /\ index' = index /\ asked' = asked
        /\ question' = question /\ world' = world /\ ipc' = ipc /\ timer' = timer /\ replay' = replay
        /\ published' = published /\ honoured' = honoured /\ skipped' = skipped /\ resyncs' = resyncs
    <3>1. CASE Deliver /\ ~Takes(row)
      BY <1>3, <1>4, <1>10, <3>1 DEF Deliver, Accepted, Down, runtime, queue, drops
    <3>2. CASE HubCrash
      BY <1>3, <1>4, <1>10, <3>2 DEF HubCrash, Accepted, Down, Fault, runtime, connector, node, queue, drops
    <3> QED BY <1>10, <3>1, <3>2
  <2>2. /\ Append(inbox, row) \in Seq(Rows) /\ Len(Append(inbox, row)) = Len(inbox) + 1
        /\ \A i \in DOMAIN inbox : i \in DOMAIN Append(inbox, row) /\ Append(inbox, row)[i] = inbox[i]
        /\ Len(inbox) + 1 \in DOMAIN Append(inbox, row) /\ Append(inbox, row)[Len(inbox) + 1] = row
    BY <1>3, <1>7
  <2>3. StreamsTypeOK'
    <3>1. {question', ipc', timer', replay', reset', dropped', owed', honoured', skipped', muted',
           overflowed', listed', known', asked'} \subseteq BOOLEAN
      BY <1>1, <2>1, StreamTypes
    <3>2. inbox' \in Seq(Rows) /\ unacked' \in 0 .. Len(outbox') BY <1>7, <2>1, <2>2
    <3> QED BY <1>1, <2>1, <3>1, <3>2, StreamTypes DEF StreamsTypeOK, Pressures
  <2>4. Orderly' BY <1>1, <2>1 DEF Orderly
  <2>5. Repaired => Repaired' BY <2>1, <2>2 DEF Repaired, IsStream
  <2>6. IsStream(row) => Repaired' BY <2>1, <2>2 DEF Repaired
  <2>7. CASE Repaired \/ IsStream(row)
    BY <2>3, <2>4, <2>5, <2>6, <2>7 DEF StreamsInv, IndexFollows, QuestionFollows
  <2>8. CASE ~Repaired /\ ~IsStream(row)
    <3>1. row.type # "index" /\ row.type # "question" BY <2>8 DEF IsStream
    <3>2. shows = index BY <1>5, <3>1
    <3>3. IndexFollows' BY <1>1, <1>3, <1>7, <2>1, <2>8, <3>2 DEF IndexFollows
    <3>4. QuestionFollows' BY <1>1, <1>3, <1>7, <2>1, <2>8, <3>1 DEF QuestionFollows
    <3> QED BY <2>3, <2>4, <3>3, <3>4 DEF StreamsInv
  <2> QED BY <2>7, <2>8
<1>11. CASE AcknowledgementLost
  <2>1. /\ listed' = (listed \/ row.type = "hello") /\ index' = shows
        /\ asked' = (asked \/ row.type = "question")
        /\ phase' = "down" /\ known' = FALSE /\ unacked' = 1 /\ faults' \in 0 .. MaxFaults
        /\ inbox' = inbox /\ resyncs' = resyncs
        /\ outbox' = outbox /\ deferred' = deferred /\ overflowed' = overflowed
        /\ dropped' = dropped /\ owed' = owed /\ reported' = reported /\ muted' = muted
        /\ states' = states /\ reset' = reset
        /\ question' = question /\ world' = world /\ ipc' = ipc /\ timer' = timer /\ replay' = replay
        /\ published' = published /\ honoured' = honoured /\ skipped' = skipped
    BY <1>3, <1>4, <1>5, <1>11
       DEF AcknowledgementLost, Process, Down, Fault, runtime, connector, node, queue, drops
  <2>2. StreamsTypeOK'
    <3>1. {question', ipc', timer', replay', reset', dropped', owed', honoured', skipped', muted',
           overflowed', listed', known', asked'} \subseteq BOOLEAN
      <4>1. listed' \in BOOLEAN /\ asked' \in BOOLEAN BY <1>1, <2>1, StreamTypes
      <4>2. /\ question \in BOOLEAN /\ ipc \in BOOLEAN /\ timer \in BOOLEAN /\ replay \in BOOLEAN
            /\ reset \in BOOLEAN /\ dropped \in BOOLEAN /\ owed \in BOOLEAN /\ honoured \in BOOLEAN
            /\ skipped \in BOOLEAN /\ muted \in BOOLEAN /\ overflowed \in BOOLEAN
        BY <1>1, StreamTypes
      <4>3. /\ question' = question /\ ipc' = ipc /\ timer' = timer /\ replay' = replay /\ reset' = reset
            /\ dropped' = dropped /\ owed' = owed /\ honoured' = honoured /\ skipped' = skipped
            /\ muted' = muted /\ overflowed' = overflowed /\ known' = FALSE
        BY <2>1
      <4> QED BY <4>1, <4>2, <4>3
    <3>2. unacked' \in 0 .. Len(outbox') BY <1>7, <2>1
    <3> QED BY <1>1, <1>8, <2>1, <3>1, <3>2, StreamTypes DEF StreamsTypeOK, Pressures
  <2>3. Orderly' BY <1>1, <2>1 DEF Orderly
  <2>4. Repaired => Repaired' BY <2>1, RepairedStays
  <2>5. IndexFollows' BY <1>1, <1>3, <1>7, <2>1, <2>4 DEF IndexFollows
  <2>6. asked => asked' BY <2>1
  <2>7. Asks(outbox, 0) => asked' \/ Asks(outbox', 1) BY <1>7, <2>1
  <2>8. QuestionFollows' BY <1>1, <1>3, <2>1, <2>4, <2>6, <2>7 DEF QuestionFollows
  <2> QED BY <2>2, <2>3, <2>5, <2>8 DEF StreamsInv
<1> QED BY <1>4, <1>9, <1>10, <1>11 DEF Deliver, HubCrash

LEMMA ResynchronizeKeeps ==
  ASSUME StreamsInv, Resynchronize
  PROVE  StreamsInv'
<1>1. StreamsTypeOK /\ Orderly BY DEF StreamsInv
<1>2. /\ phase # "down" /\ resyncs > 0 /\ resyncs' = resyncs - 1
      /\ AfterReceive(outbox, ~honoured)
      /\ honoured' = (honoured \/ ipc) /\ skipped' = (skipped \/ honoured)
      /\ question' = question /\ world' = world /\ ipc' = ipc /\ timer' = timer /\ replay' = replay
      /\ published' = published /\ inbox' = inbox /\ listed' = listed /\ known' = known
      /\ index' = index /\ asked' = asked /\ phase' = phase /\ unacked' = unacked /\ faults' = faults
  BY DEF Resynchronize, runtime, link
<1>3. /\ outbox \in Seq(Rows) /\ Len(outbox) <= MaxRecords /\ unacked = 0
      /\ honoured \in BOOLEAN /\ skipped \in BOOLEAN /\ ipc \in BOOLEAN /\ resyncs \in 0 .. 1
  BY <1>1, <1>2, StreamTypes DEF Orderly
<1>4. PICK resync \in BOOLEAN : resync = ~honoured BY <1>3
<1>5. /\ AfterReceive(outbox, resync) /\ \A i \in DOMAIN deferred : deferred[i].type = "question"
  BY <1>1, <1>2, <1>4 DEF Orderly
<1>6. /\ outbox' \in Seq(Rows) /\ Len(outbox') <= MaxRecords /\ Len(outbox') \in Nat
      /\ deferred' \in Seq(Rows) /\ Len(deferred') <= DeferredLimit
      /\ \A i \in DOMAIN deferred' : deferred'[i].type = "question"
      /\ states' \in {"none", "hello", "offline"} /\ reported' \in Pressures
      /\ dropped' = dropped /\ muted' = muted /\ overflowed' = overflowed
      /\ owed' \in BOOLEAN /\ reset' \in BOOLEAN /\ (resync => reset' \/ ~ipc)
  BY <1>1, <1>3, <1>5, Received
<1>7. StreamsTypeOK'
  <2>1. honoured' \in BOOLEAN /\ skipped' \in BOOLEAN BY <1>2, <1>3
  <2>2. resyncs' \in 0 .. 1 /\ unacked' \in 0 .. Len(outbox') BY <1>2, <1>3, <1>6
  <2>3. {question', ipc', timer', replay', reset', dropped', owed', honoured', skipped', muted',
         overflowed', listed', known', asked'} \subseteq BOOLEAN
    BY <1>1, <1>2, <1>6, <2>1, StreamTypes
  <2> QED BY <1>1, <1>2, <1>6, <2>2, <2>3, StreamTypes DEF StreamsTypeOK, Pressures
<1>8. Orderly' BY <1>1, <1>2, <1>6 DEF Orderly
<1>9. Repaired'
  <2>1. CASE honoured BY <1>2, <2>1 DEF Repaired
  <2>2. CASE ~honoured BY <1>2, <1>4, <1>6, <2>2 DEF Repaired
  <2> QED BY <2>1, <2>2
<1> QED BY <1>7, <1>8, <1>9 DEF StreamsInv, IndexFollows, QuestionFollows

LEMMA ReconnectKeeps ==
  ASSUME StreamsInv, Reconnect
  PROVE  StreamsInv'
<1>1. StreamsTypeOK /\ Orderly /\ IndexFollows /\ QuestionFollows BY DEF StreamsInv
<1>2. PICK rows : rows = SubSeq(outbox, unacked + 1, Len(outbox)) OBVIOUS
<1>3. PICK s : s = IF ipc THEN "hello" ELSE states OBVIOUS
<1>4. PICK told : told = Announced(rows, s) OBVIOUS
<1>5. /\ inbox' = <<>> /\ known' = KnownAt(Len(inbox) + 1) /\ listed' = (listed \/ Hellos(Len(inbox)))
      /\ resyncs' = Recovered(inbox) /\ phase' = "up" /\ unacked' = 0
      /\ states' = Waiting(rows, s) /\ Status(told)
      /\ question' = question /\ world' = world /\ ipc' = ipc /\ timer' = timer /\ replay' = replay
      /\ published' = published /\ honoured' = honoured /\ skipped' = skipped
      /\ index' = index /\ asked' = asked /\ faults' = faults
  BY <1>2, <1>3, <1>4 DEF Reconnect, runtime
<1>6. /\ outbox \in Seq(Rows) /\ Len(outbox) <= MaxRecords /\ unacked \in 0 .. Len(outbox)
      /\ Len(outbox) \in Nat /\ MaxRecords \in Nat /\ s \in {"none", "hello", "offline"}
  BY <1>1, <1>3, StreamTypes, Limits
<1>7. /\ SubSeq(outbox, unacked + 1, Len(outbox)) \in Seq(Rows)
      /\ Len(SubSeq(outbox, unacked + 1, Len(outbox))) = Len(outbox) - unacked
      /\ \A shown, v : Brings(outbox, unacked, shown, v) =>
           Brings(SubSeq(outbox, unacked + 1, Len(outbox)), 0, shown, v)
      /\ Asks(outbox, unacked) => Asks(SubSeq(outbox, unacked + 1, Len(outbox)), 0)
  BY <1>6, CutOff
<1>8. /\ rows \in Seq(Rows) /\ Len(rows) <= MaxRecords /\ 0 \in 0 .. Len(rows)
      /\ \A shown, v : Brings(outbox, unacked, shown, v) => Brings(rows, 0, shown, v)
      /\ Asks(outbox, unacked) => Asks(rows, 0)
  <2>1. /\ rows \in Seq(Rows) /\ Len(rows) = Len(outbox) - unacked
        /\ \A shown, v : Brings(outbox, unacked, shown, v) => Brings(rows, 0, shown, v)
        /\ Asks(outbox, unacked) => Asks(rows, 0)
    BY <1>2, <1>7
  <2>2. Len(rows) <= MaxRecords /\ 0 \in 0 .. Len(rows) BY <1>6, <2>1
  <2> QED BY <2>1, <2>2, Zenon
<1>9. /\ told \in Seq(Rows) /\ Len(told) <= MaxRecords
      /\ \A shown, v : Brings(rows, 0, shown, v) => Brings(told, 0, shown, v)
      /\ Asks(rows, 0) => Asks(told, 0)
      /\ states' \in {"none", "hello", "offline"}
  BY <1>4, <1>5, <1>6, <1>8, AnnouncedKeeps
<1>10. /\ outbox' \in Seq(Rows) /\ Len(outbox') <= MaxRecords /\ Len(outbox') \in Nat
       /\ deferred' = deferred /\ reported' \in Pressures
       /\ dropped' \in BOOLEAN /\ muted' = muted /\ overflowed' = overflowed
       /\ owed' \in BOOLEAN /\ reset' \in BOOLEAN
       /\ (reset => reset') /\ (owed => owed' \/ reset' \/ ~ipc)
       /\ \A shown, v : Brings(told, 0, shown, v) => Brings(outbox', 0, shown, v)
       /\ Asks(told, 0) => Asks(outbox', 0)
  BY <1>1, <1>5, <1>9, StatusKeeps
<1>11. resyncs' \in 0 .. 1 /\ (resyncs' > 0 \/ (resyncs' = resyncs /\ ~ \E i \in DOMAIN inbox : IsStream(inbox[i])))
  BY <1>1, <1>5, StreamTypes DEF Recovered
<1>12. StreamsTypeOK'
  <2>1. known' \in BOOLEAN /\ listed' \in BOOLEAN BY <1>1, <1>5, StreamTypes DEF KnownAt, Hellos
  <2>2. inbox' \in Seq(Rows) /\ unacked' \in 0 .. Len(outbox') BY <1>5, <1>10
  <2>3. {question', ipc', timer', replay', reset', dropped', owed', honoured', skipped', muted',
         overflowed', listed', known', asked'} \subseteq BOOLEAN
    BY <1>1, <1>5, <1>10, <2>1, StreamTypes
  <2> QED BY <1>1, <1>5, <1>9, <1>10, <1>11, <2>2, <2>3, StreamTypes DEF StreamsTypeOK, Pressures
<1>13. Orderly' BY <1>1, <1>5, <1>10 DEF Orderly
<1>14. Repaired => Repaired' BY <1>5, <1>10, <1>11 DEF Repaired
<1>15. Brings(outbox, unacked, index, published) => Brings(outbox', 0, index, published)
  BY <1>8, <1>9, <1>10
<1>16. IndexFollows' BY <1>1, <1>5, <1>14, <1>15 DEF IndexFollows
<1>17. Asks(outbox, unacked) => Asks(outbox', 0) BY <1>8, <1>9, <1>10
<1>18. QuestionFollows' BY <1>1, <1>5, <1>10, <1>14, <1>17 DEF QuestionFollows
<1> QED BY <1>12, <1>13, <1>16, <1>18 DEF StreamsInv

LEMMA ReconnectRefusedKeeps ==
  ASSUME StreamsInv, ReconnectRefused
  PROVE  StreamsInv'
<1>1. StreamsTypeOK /\ Orderly BY DEF StreamsInv
<1>2. inbox \in Seq(Rows) /\ Len(inbox) \in Nat /\ DOMAIN inbox = 1 .. Len(inbox)
  BY <1>1, StreamTypes
<1>3. PICK first : first = Min(Refused) OBVIOUS
<1>4. first \in Refused
  <2>1. Refused \in SUBSET Nat /\ Refused # {} BY <1>2 DEF Refused, ReconnectRefused, Stuck
  <2>2. \E m \in Refused : \A j \in Refused : m <= j BY <2>1, FirstOf
  <2> QED BY <1>3, <2>2 DEF Min
<1>5. first \in 1 .. Len(inbox) /\ IsStream(inbox[first]) BY <1>2, <1>4 DEF Refused
<1>6. PICK n : n = first - 1 OBVIOUS
<1>7. /\ inbox' = SubSeq(inbox, n + 1, Len(inbox)) /\ known' = KnownAt(n + 1)
      /\ listed' = (listed \/ Hellos(n)) /\ resyncs' = Recovered(SubSeq(inbox, 1, n))
      /\ outbox' = SubSeq(outbox, unacked + 1, Len(outbox)) /\ unacked' = 0 /\ phase' = "closing"
      /\ question' = question /\ world' = world /\ ipc' = ipc /\ timer' = timer /\ replay' = replay
      /\ reset' = reset /\ published' = published
      /\ deferred' = deferred /\ overflowed' = overflowed
      /\ dropped' = dropped /\ owed' = owed /\ reported' = reported /\ muted' = muted
      /\ states' = states /\ honoured' = honoured /\ skipped' = skipped
      /\ index' = index /\ asked' = asked /\ faults' = faults
  BY <1>3, <1>6 DEF ReconnectRefused, runtime, connector, drops
<1>8. n \in 0 .. Len(inbox) /\ n + 1 = first /\ Len(inbox) - n >= 1 BY <1>2, <1>5, <1>6
<1>9. /\ SubSeq(inbox, n + 1, Len(inbox)) \in Seq(Rows)
      /\ Len(SubSeq(inbox, n + 1, Len(inbox))) = Len(inbox) - n
      /\ \A i \in DOMAIN SubSeq(inbox, n + 1, Len(inbox)) :
           i + n \in DOMAIN inbox /\ SubSeq(inbox, n + 1, Len(inbox))[i] = inbox[i + n]
  BY <1>2, <1>8, CutOff
<1>10. inbox' \in Seq(Rows) /\ 1 \in DOMAIN inbox' /\ inbox'[1] = inbox[first]
  <2>1. /\ inbox' \in Seq(Rows) /\ Len(inbox') = Len(inbox) - n
        /\ \A i \in DOMAIN inbox' : inbox'[i] = inbox[i + n]
    BY <1>7, <1>9
  <2>2. 1 \in DOMAIN inbox' /\ 1 + n = first BY <1>2, <1>5, <1>8, <2>1
  <2> QED BY <2>1, <2>2
<1>11. Repaired' BY <1>5, <1>10 DEF Repaired, IsStream
<1>12. /\ outbox \in Seq(Rows) /\ Len(outbox) <= MaxRecords /\ unacked \in 0 .. Len(outbox)
       /\ Len(outbox) \in Nat /\ MaxRecords \in Nat
  BY <1>1, StreamTypes, Limits
<1>13. /\ SubSeq(outbox, unacked + 1, Len(outbox)) \in Seq(Rows)
       /\ Len(SubSeq(outbox, unacked + 1, Len(outbox))) = Len(outbox) - unacked
  BY <1>12, CutOff
<1>14. outbox' \in Seq(Rows) /\ Len(outbox') <= MaxRecords /\ unacked' \in 0 .. Len(outbox')
  <2>1. outbox' \in Seq(Rows) /\ Len(outbox') = Len(outbox) - unacked BY <1>7, <1>13
  <2> QED BY <1>7, <1>12, <2>1
<1>15. StreamsTypeOK'
  <2>1. known' \in BOOLEAN /\ listed' \in BOOLEAN BY <1>1, <1>7, StreamTypes DEF KnownAt, Hellos
  <2>2. {question', ipc', timer', replay', reset', dropped', owed', honoured', skipped', muted',
         overflowed', listed', known', asked'} \subseteq BOOLEAN
    BY <1>1, <1>7, <2>1, StreamTypes
  <2>3. resyncs' \in 0 .. 1 BY <1>1, <1>7, StreamTypes DEF Recovered
  <2> QED BY <1>1, <1>7, <1>10, <1>14, <2>2, <2>3, StreamTypes DEF StreamsTypeOK, Pressures
<1>16. Orderly' BY <1>1, <1>7 DEF Orderly
<1> QED BY <1>11, <1>15, <1>16 DEF StreamsInv, IndexFollows, QuestionFollows

LEMMA StreamsInvHolds == StreamsSpec => []StreamsInv
<1>1. StreamsInit => StreamsInv
  <2> SUFFICES ASSUME StreamsInit PROVE StreamsInv OBVIOUS
  <2>1. <<>> \in Seq(Rows) /\ Len(<<>>) = 0 /\ DOMAIN <<>> = {} OBVIOUS
  <2>2. StreamsTypeOK
    <3>1. {question, ipc, timer, replay, reset, dropped, owed, honoured, skipped, muted,
           overflowed, listed, known, asked} \subseteq BOOLEAN
      BY DEF StreamsInit
    <3>2. {published, index} \subseteq 0 .. MaxChanges /\ world \in 0 .. MaxChanges /\ faults \in 0 .. MaxFaults
      BY Limits DEF StreamsInit
    <3>3. /\ outbox = <<>> /\ deferred = <<>> /\ inbox = <<>> /\ unacked = 0 /\ resyncs = 0
          /\ states = "none" /\ reported = "normal" /\ phase = "down"
      BY DEF StreamsInit
    <3> QED BY <2>1, <3>1, <3>2, <3>3, Limits DEF StreamsTypeOK
  <2>3. Orderly BY <2>1 DEF StreamsInit, Orderly
  <2>4. ipc = FALSE BY DEF StreamsInit
  <2> QED BY <2>2, <2>3, <2>4 DEF StreamsInv, IndexFollows, QuestionFollows, Repaired
<1>2. StreamsInv /\ [StreamsNext]_streamsVars => StreamsInv'
  <2> SUFFICES ASSUME StreamsInv, [StreamsNext]_streamsVars PROVE StreamsInv' OBVIOUS
  <2> QED
    BY ConnectorKeeps, LinkKeeps, DeliveryKeeps, ResynchronizeKeeps, ReconnectKeeps, ReconnectRefusedKeeps
       DEF StreamsNext
<1> QED BY <1>1, <1>2, PTL DEF StreamsSpec

\* Every part of the queue, the link and the projection has its values, the
\* outbox its quota and the deferred bodies their limit.
THEOREM StreamsHaveTheirTypes == StreamsSpec => []StreamsTypeOK
<1>1. StreamsInv => StreamsTypeOK BY DEF StreamsInv
<1> QED BY <1>1, StreamsInvHolds, PTL

\* When nothing is under way, the Hub shows the index that was published last
\* and the question DSH asks, whatever was dropped, deferred, lost or recovered.
THEOREM WhatIsAtRestIsShown == StreamsSpec => []ShownAtRest
<1>1. StreamsInv => ShownAtRest
  <2> SUFFICES ASSUME StreamsInv, AtRest PROVE \/ index = published /\ (question => asked)
                                              \/ skipped \/ overflowed
    BY DEF ShownAtRest
  <2>1. DOMAIN outbox = {} /\ DOMAIN deferred = {} /\ DOMAIN inbox = {} BY DEF AtRest
  <2>2. CASE skipped \/ overflowed BY <2>2
  <2>3. CASE ~(skipped \/ overflowed)
    <3>1. ~Repaired BY <2>1, <2>3 DEF AtRest, Repaired
    <3>2. index = published BY <2>1, <3>1 DEF StreamsInv, IndexFollows, AtRest, Brings
    <3>3. question => asked BY <2>1, <3>1 DEF StreamsInv, QuestionFollows, AtRest, Asks
    <3> QED BY <3>2, <3>3
  <2> QED BY <2>2, <2>3
<1> QED BY <1>1, StreamsInvHolds, PTL
==============================================================================
