--------------------------- MODULE SessionLifecycle ---------------------------
(***************************************************************************)
(* Archiving, trashing, restoring and erasing the sessions of one Runtime  *)
(* (hub-connector/src/session-lifecycle.ts, wired in hub-connector/src/    *)
(* index.ts).  A change is split at the awaits where its effects become    *)
(* visible or durable: the archive mark, the atomic rename of the journal, *)
(* the publication of the new records in memory, the write lease, and      *)
(* every step of an erasure.  A crash, or an I/O error, may come between   *)
(* any two of them; ready() then runs again when DSH starts.               *)
(*                                                                         *)
(* DSH itself is external: its registry of archived and attached sessions  *)
(* is durable, a session it opens stays live until it exits, and a session *)
(* that does work holds the write lock of its log from then on.            *)
(*                                                                         *)
(* Bounds: MaxTime bounds the clock and so the deletions, MaxFaults the    *)
(* crashes and I/O errors.                                                 *)
(***************************************************************************)
EXTENDS Integers, FiniteSetsExt, Faults

CONSTANTS Sessions, Callers, Startup, Files, Log, MaxTime

ASSUME LifecycleAssumption ==
  /\ Startup \notin Callers
  /\ Log \in Files
  /\ MaxTime \in Nat /\ MaxFaults \in Nat

Tasks == Callers \cup {Startup}

(* A record of the trash journal; NoRecord stands for its absence.         *)
Record == [phase : {"none", "trash", "purging", "purged"},
           wasArchived : BOOLEAN, deletedAt : 0 .. MaxTime]
Entry(phase, was, at) == [phase |-> phase, wasArchived |-> was, deletedAt |-> at]
NoRecord == Entry("none", FALSE, 0)
Records == [Sessions -> Record]

VARIABLES
  (* on disk *)
  journal,       \* the manifest: [last, records]
  archived,      \* DSH's registry: sessions marked archived
  attached,      \* DSH's registry: sessions that belong to a workspace
  files,         \* the log and its historical generations, per session
  (* in the DSH process *)
  records, lastDeletedAt,
  up,            \* "down", "starting" (in ready()), "serving" or "stopped"
  task,          \* what each caller's change(), or ready(), is doing
  live, running, \* sessions DSH has opened; those with work in progress
  lock,          \* who writes each session's log: its lock admits one
  (* bookkeeping *)
  chosen,        \* history: sessions the user keeps archived
  trashed,       \* history: deletions answered and not restored since
  broken         \* history: sessions a deletion of which was cut short

disk == <<journal, archived, attached, files>>
memory == <<records, lastDeletedAt, up, task>>
dsh == <<live, running, lock>>
history == <<chosen, trashed, broken>>
vars == <<disk, memory, dsh, history, faults>>

(* A change in progress: the record it read, and the map it will save.     *)
Step == {"archive", "unarchive", "rename", "publish", "lease", "look",
         "detach", "withdraw", "unlink"}
Task == [step : Step, op : {"archive", "trash", "restore", "purge"},
         id : Sessions, record : Record, plan : Records]
Idle == [step |-> "idle"]

Init ==
  /\ journal = [last |-> 0, records |-> [s \in Sessions |-> NoRecord]]
  /\ archived \in SUBSET Sessions
  /\ attached = Sessions
  /\ files = [s \in Sessions |-> Files]
  /\ records = journal.records /\ lastDeletedAt = 0
  /\ up = "starting"
  /\ task = [c \in Tasks |-> Idle]
  /\ live = {} /\ running = {}
  /\ lock = [s \in Sessions |-> {}]
  /\ chosen = archived /\ trashed = {} /\ broken = {}
  /\ faults = 0

-----------------------------------------------------------------------------
(* Helpers.                                                                *)

Listed(s) == Log \in files[s]
Phase(s) == records[s].phase
At(c, step) == task[c] # Idle /\ task[c].step = step
Id(c) == task[c].id
Quiet(s) == s \notin running

Begin(c, op, s, step) ==
  task' = [task EXCEPT ![c] = [step |-> step, op |-> op, id |-> s,
                               record |-> records[s], plan |-> records]]
Goto(c, step) == task' = [task EXCEPT ![c].step = step]
Done(c) == task' = [task EXCEPT ![c] = Idle]
Released(c) == [lock EXCEPT ![Id(c)] = @ \ {"lifecycle"}]

\* save() is called with a copy of the records in which r stands for the id.
Save(c, r) ==
  task' = [task EXCEPT ![c].step = "rename",
                       ![c].plan = [records EXCEPT ![Id(c)] = r]]

\* Mutant: the tail forgotten: a change starts at once.
MayStartAtOnce(c) == up = "serving" /\ task[c] = Idle
\* mutate() appends every change to one tail.
MayStart(c) == up = "serving" /\ \A d \in Tasks : task[d] = Idle

-----------------------------------------------------------------------------
(* change(): the operations a client may ask for.                          *)

StartArchive(c, op, s) ==
  /\ op \in {"archive", "trash"}
  /\ MayStart(c) /\ Phase(s) = "none" /\ Listed(s) /\ Quiet(s)
  /\ Begin(c, op, s, "archive")
  /\ UNCHANGED <<disk, records, lastDeletedAt, up, dsh, history, faults>>

Unarchive(c, s) ==
  /\ MayStart(c) /\ Phase(s) = "none" /\ Listed(s)
  /\ archived' = archived \ {s} /\ chosen' = chosen \ {s}
  /\ UNCHANGED <<journal, attached, files, memory, dsh, trashed, broken, faults>>

StartRestore(c, s) ==
  /\ MayStart(c) /\ Phase(s) = "trash" /\ Listed(s)
  /\ Begin(c, "restore", s, "unarchive")
  /\ UNCHANGED <<disk, records, lastDeletedAt, up, dsh, history, faults>>

\* The request names the generation on record; any other is refused.
StartPurge(c, s) ==
  /\ MayStart(c) /\ Phase(s) \in {"trash", "purging"}
  /\ Quiet(s) /\ s \notin live
  /\ Phase(s) = "trash" => Listed(s)
  /\ Begin(c, "purge", s, "lease")
  /\ UNCHANGED <<disk, records, lastDeletedAt, up, dsh, history, faults>>

\* The archive mark is set; for a deletion, deletedAt is max(now, last + 1).
Archive(c) ==
  /\ At(c, "archive")
  /\ archived' = archived \cup {Id(c)}
  /\ \/ /\ task[c].op = "archive"
        /\ Done(c)
        /\ chosen' = chosen \cup {Id(c)} /\ UNCHANGED lastDeletedAt
     \/ /\ task[c].op = "trash"
        /\ \E at \in lastDeletedAt + 1 .. MaxTime :
             /\ lastDeletedAt' = at
             /\ Save(c, Entry("trash", Id(c) \in archived, at))
        /\ UNCHANGED chosen
  /\ UNCHANGED <<journal, attached, files, records, up, dsh, trashed, broken, faults>>

\* Mutant: the mark the trash put on the session is left where it is.
RestoredMarkKept(c) == archived
RestoredMark(c) ==
  IF task[c].record.wasArchived THEN archived ELSE archived \ {Id(c)}

Restore(c) ==
  /\ At(c, "unarchive")
  /\ archived' = RestoredMark(c)
  /\ Save(c, NoRecord)
  /\ UNCHANGED <<journal, attached, files, records, lastDeletedAt, up, dsh, history, faults>>

-----------------------------------------------------------------------------
(* save(): the temporary file replaces the journal, then memory follows.   *)

Rename(c) ==
  /\ At(c, "rename")
  /\ journal' = [last |-> lastDeletedAt, records |-> task[c].plan]
  /\ Goto(c, "publish")
  /\ trashed' = IF task[c].op = "restore" THEN trashed \ {Id(c)} ELSE trashed
  /\ UNCHANGED <<archived, attached, files, records, lastDeletedAt, up, dsh,
                 chosen, broken, faults>>

Publish(c) ==
  /\ At(c, "publish")
  /\ records' = task[c].plan
  /\ CASE task[c].plan[Id(c)].phase = "purging" ->
            Goto(c, "detach") /\ UNCHANGED <<lock, trashed>>
       [] task[c].plan[Id(c)].phase = "purged" ->
            Done(c) /\ lock' = Released(c) /\ UNCHANGED trashed
       [] task[c].plan[Id(c)].phase = "trash" ->
            Done(c) /\ trashed' = trashed \cup {Id(c)} /\ UNCHANGED lock
       [] OTHER ->
            Done(c) /\ UNCHANGED <<lock, trashed>>
  /\ UNCHANGED <<disk, lastDeletedAt, up, live, running, chosen, broken, faults>>

-----------------------------------------------------------------------------
(* erase() and finishErasure(), for a purge or for ready().                *)

\* Mutant: the lease is not asked for.
CanAlwaysLease(s) == TRUE
CanLease(s) == lock[s] = {}

AcquireWriteLease(c) ==
  /\ At(c, "lease") /\ CanLease(Id(c))
  /\ lock' = [lock EXCEPT ![Id(c)] = @ \cup {"lifecycle"}]
  /\ Goto(c, "look")
  /\ UNCHANGED <<disk, records, lastDeletedAt, up, live, running, history, faults>>

\* Mutant: the erasure goes ahead without its intent in the journal.
IntendAs(c) ==
  /\ At(c, "look") /\ Id(c) \notin live
  /\ Goto(c, "detach")
  /\ UNCHANGED <<disk, records, lastDeletedAt, up, dsh, history, faults>>
\* Under the lease the session must still be closed; then the intent is saved.
Intend(c) ==
  /\ At(c, "look") /\ Id(c) \notin live
  /\ Save(c, [task[c].record EXCEPT !.phase = "purging"])
  /\ UNCHANGED <<disk, records, lastDeletedAt, up, dsh, history, faults>>

Detach(c) ==
  /\ At(c, "detach")
  /\ attached' = attached \ {Id(c)}
  /\ Goto(c, "withdraw")
  /\ UNCHANGED <<journal, archived, files, records, lastDeletedAt, up, dsh, history, faults>>

Withdraw(c) ==
  /\ At(c, "withdraw")
  /\ archived' = archived \ {Id(c)}
  /\ Goto(c, "unlink")
  /\ UNCHANGED <<journal, attached, files, records, lastDeletedAt, up, dsh, history, faults>>

Unlink(c, f) ==
  /\ At(c, "unlink") /\ f \in files[Id(c)]
  /\ files' = [files EXCEPT ![Id(c)] = @ \ {f}]
  /\ UNCHANGED <<journal, archived, attached, memory, dsh, history, faults>>

\* Mutant: the current log is taken for the whole directory.
ErasedLog(s) == Log \notin files[s]
Erased(s) == files[s] = {}

FinishErasure(c) ==
  /\ At(c, "unlink") /\ Erased(Id(c))
  /\ attached' = attached \ {Id(c)} /\ archived' = archived \ {Id(c)}
  /\ Save(c, Entry("purged", FALSE, task[c].record.deletedAt))
  /\ UNCHANGED <<journal, files, records, lastDeletedAt, up, dsh, history, faults>>

(* An error ends the change, and the connector when it comes from ready(). *)

CutShort(c) == task[c].op = "trash" /\ task[c].step \in {"rename", "publish"}
StoppedBy(c) == IF c = Startup THEN "stopped" ELSE up
EndWithError(c) ==
  /\ Done(c) /\ lock' = Released(c) /\ up' = StoppedBy(c)
  /\ broken' = IF CutShort(c) THEN broken \cup {Id(c)} ELSE broken
  /\ UNCHANGED <<disk, records, lastDeletedAt, live, running, chosen, trashed>>

\* The lock is held by a writer, or the session has just been opened.
Refuse(c) ==
  /\ \/ At(c, "lease") /\ ~ CanLease(Id(c))
     \/ At(c, "look") /\ Id(c) \in live
  /\ EndWithError(c) /\ UNCHANGED faults

\* A call fails: before the rename, or after it, in syncDirectory().
Fail(c) ==
  /\ task[c] # Idle /\ Fault /\ EndWithError(c)

-----------------------------------------------------------------------------
(* ready().                                                                *)

Stamps == {journal.records[s].deletedAt : s \in Sessions}
LatestOnDisk == Max({journal.last} \cup Stamps)

Load ==
  /\ up = "down"
  /\ records' = journal.records /\ lastDeletedAt' = LatestOnDisk
  /\ up' = "starting"
  /\ UNCHANGED <<disk, task, dsh, history, faults>>

Starting == up = "starting" /\ task[Startup] = Idle
Interrupted == {s \in Sessions : Phase(s) = "purging"}

ResumePurge(s) ==
  /\ Starting /\ s \in Interrupted /\ s \notin live /\ Quiet(s)
  /\ Begin(Startup, "purge", s, "lease")
  /\ UNCHANGED <<disk, records, lastDeletedAt, up, dsh, history, faults>>

RefuseStart ==
  /\ Starting /\ Interrupted \cap live # {}
  /\ up' = "stopped"
  /\ UNCHANGED <<disk, records, lastDeletedAt, task, dsh, history, faults>>

\* The journal cannot be read, or DSH refuses a call of ready().
FailStart ==
  /\ Starting /\ Fault /\ up' = "stopped"
  /\ UNCHANGED <<disk, records, lastDeletedAt, task, dsh, history>>

\* Trashed sessions that lost their archive mark to an interrupted restore.
Unmarked == {s \in Sessions : Phase(s) = "trash" /\ Listed(s)} \ archived
Resumed == Interrupted = {}

Reassert(s) ==
  /\ Starting /\ Resumed /\ s \in Unmarked
  /\ archived' = archived \cup {s}
  /\ UNCHANGED <<journal, attached, files, memory, dsh, history, faults>>

Serve ==
  /\ Starting /\ Resumed /\ Unmarked = {}
  /\ up' = "serving"
  /\ UNCHANGED <<disk, records, lastDeletedAt, task, dsh, history, faults>>

-----------------------------------------------------------------------------
(* DSH and other processes of the machine.                                 *)

Open(s) ==
  /\ up # "down" /\ Listed(s)
  /\ live' = live \cup {s}
  /\ UNCHANGED <<disk, memory, running, lock, history, faults>>

Work(s) ==
  /\ up # "down" /\ Listed(s) /\ lock[s] \subseteq {"dsh"}
  /\ live' = live \cup {s} /\ running' = running \cup {s}
  /\ lock' = [lock EXCEPT ![s] = {"dsh"}]
  /\ UNCHANGED <<disk, memory, history, faults>>

Rest(s) ==
  /\ s \in running
  /\ running' = running \ {s}
  /\ UNCHANGED <<disk, memory, live, lock, history, faults>>

ForeignWriter(s) ==
  /\ \/ lock[s] = {} /\ lock' = [lock EXCEPT ![s] = {"foreign"}]
     \/ "foreign" \in lock[s] /\ lock' = [lock EXCEPT ![s] = @ \ {"foreign"}]
  /\ UNCHANGED <<disk, memory, live, running, history, faults>>

Crash ==
  /\ up # "down" /\ Fault /\ up' = "down"
  /\ task' = [c \in Tasks |-> Idle]
  /\ live' = {} /\ running' = {}
  /\ lock' = [s \in Sessions |-> lock[s] \cap {"foreign"}]
  /\ broken' = broken \cup {task[c].id : c \in {d \in Tasks : task[d] # Idle /\ CutShort(d)}}
  /\ UNCHANGED <<disk, records, lastDeletedAt, chosen, trashed>>

Next ==
  \/ \E c \in Callers, s \in Sessions :
       \/ StartArchive(c, "archive", s) \/ StartArchive(c, "trash", s)
       \/ Unarchive(c, s) \/ StartRestore(c, s) \/ StartPurge(c, s)
  \/ \E c \in Tasks :
       \/ Archive(c) \/ Restore(c) \/ Rename(c) \/ Publish(c)
       \/ AcquireWriteLease(c) \/ Intend(c) \/ Detach(c) \/ Withdraw(c)
       \/ \E f \in Files : Unlink(c, f)
       \/ FinishErasure(c) \/ Refuse(c) \/ Fail(c)
  \/ Load \/ RefuseStart \/ FailStart \/ Serve \/ Crash
  \/ \E s \in Sessions :
       \/ ResumePurge(s) \/ Reassert(s)
       \/ Open(s) \/ Work(s) \/ Rest(s) \/ ForeignWriter(s)

Spec == Init /\ [][Next]_vars

-----------------------------------------------------------------------------
(* Properties.                                                             *)

\* The values the state may take.
TypeOK ==
  /\ journal \in [last : 0 .. MaxTime, records : Records]
  /\ archived \subseteq Sessions /\ attached \subseteq Sessions
  /\ files \in [Sessions -> SUBSET Files]
  /\ records \in Records /\ lastDeletedAt \in 0 .. MaxTime
  /\ up \in {"down", "starting", "serving", "stopped"}
  /\ task \in [Tasks -> Task \cup {Idle}]
  /\ live \subseteq Sessions /\ running \subseteq live
  /\ lock \in [Sessions -> SUBSET {"lifecycle", "dsh", "foreign"}]
  /\ {chosen, trashed, broken} \subseteq SUBSET Sessions
  /\ faults \in 0 .. MaxFaults

OnDisk(s) == journal.records[s].phase

\* Nothing of a session is taken away before the journal says on disk that its
\* erasure has begun, whatever crash or error intervenes (erase(), 212-220).
IntentComesFirst ==
  \A s \in Sessions :
    (files[s] # Files \/ s \notin attached) => OnDisk(s) \in {"purging", "purged"}

\* The tombstone is written last: a session recorded as purged has no log of
\* any generation, no workspace and no archive mark left (213-228).
PurgedIsErased ==
  \A s \in Sessions :
    OnDisk(s) = "purged" => files[s] = {} /\ s \notin attached \cup archived

\* A log is never unlinked while anyone else may write it (207-209, 217-219).
EraserHoldsTheLog ==
  [][\A s \in Sessions : files'[s] # files[s] =>
       lock[s] = {"lifecycle"} /\ s \notin running]_vars

\* A deletion is stamped later than all the journal ever recorded, across
\* restores, restarts and a clock that runs backwards, so a confirmation of an
\* earlier deletion of the session cannot erase a later one (77, 147, 179).  A
\* record that memory still holds, a restore of it having failed, is no new one.
GenerationsRise ==
  [][/\ journal'.last >= journal.last
     /\ \A s \in Sessions :
          (OnDisk(s) = "none" /\ journal'.records[s].phase = "trash")
             => \/ journal'.records[s].deletedAt > journal.last
                \/ journal'.records[s] = records[s]]_vars

\* Restore brings a session back where its user had it, in the active list or
\* among the archived, unless a deletion of it was cut short by an error or a
\* crash before (150-155, 176-182).
RestoreKeepsPlace ==
  [][\A s \in Sessions \ broken :
       (OnDisk(s) = "trash" /\ journal'.records[s] = NoRecord)
          => (s \in archived <=> s \in chosen)]_vars

\* A deletion that was answered stays in the journal until it is restored,
\* whatever is done to other sessions meanwhile (120-124, 181-182).
TrashSurvives == \A s \in trashed : OnDisk(s) # "none"

\* ready() lets the connector serve only when no erasure is left half done on
\* disk (79-85); and ready() itself meets the archive mark of every trashed
\* session again (86-91).
StartsClean ==
  [][up = "starting" /\ up' = "serving" =>
       \A s \in Sessions : /\ OnDisk(s) # "purging"
                           /\ OnDisk(s) = "trash" => s \in archived]_vars

\* The write lease is given back whichever way an erasure ends: while nobody is
\* erasing a session, DSH can have its lock (208, 223).
LeaseIsReturned ==
  \A s \in Sessions : "lifecycle" \in lock[s] =>
    \E c \in Tasks : task[c] # Idle /\ Id(c) = s /\ task[c].op = "purge"
=============================================================================
