---------------------------- MODULE NodeSupervisor ----------------------------
(***************************************************************************)
(* HubNodeSupervisor (hub-node-agent/src/supervisor.ts): plugin changes,   *)
(* snapshots and file writes, one at a time, on one managed profile, with  *)
(* the console that asks for them and the crashes of the Node Agent.       *)
(***************************************************************************)
EXTENDS PluginChanges, ProfileSnapshots

Capability == INSTANCE Capabilities

vars == <<profile, queue, job, faults, plugins, snapshots>>

Init == ProfileInit /\ PluginsInit /\ SnapshotsInit

Blank == [mut |-> 0, op |-> "create", plugin |-> "none", to |-> 0,
          target |-> 0, type |-> "fleet", expect |-> Nothing]

\* The pages of the console: an update of a listed plugin, a rollback of a
\* change the history shows as applied, snapshots and the file editor.
AskApply == \E p \in Plugins, v \in Version \ {0, 1} :
  /\ UpdateOffered(disk, p, v)
  /\ Submit([Blank EXCEPT !.op = "apply", !.plugin = p, !.to = v, !.expect = LockHash(disk)])
AskRollback == \E i \in DOMAIN changes :
  /\ changes[i].status = "applied"
  /\ Submit([Blank EXCEPT !.op = "rollback", !.target = i, !.expect = LockHash(disk)])
AskCreate == \E t \in SnapshotTypes : Submit([Blank EXCEPT !.type = t])
AskRestore == \E i \in DOMAIN rows : \E e \in {Nothing, Collected(rows[i].type)} :
  Submit([Blank EXCEPT !.op = "restore", !.target = i, !.expect = e])
AskWrite == \E v \in {0, 1} :
  /\ disk["cordis"] # Composition(v)
  /\ Submit([Blank EXCEPT !.op = "write", !.to = v, !.expect = [Nothing EXCEPT !["cordis"] = disk["cordis"]]])
Ask == /\ AskApply \/ AskRollback \/ AskCreate \/ AskRestore \/ AskWrite
       /\ UNCHANGED <<plugins, snapshots>>

ClassOf(r) == CASE r.op = "apply" -> Capability!plugins.apply
                [] r.op = "rollback" -> Capability!plugins.rollback
                [] r.op = "create" -> Capability!snapshots.create
                [] r.op = "restore" -> Capability!snapshots.restore
                [] r.op = "write" -> Capability!files.write

\* invoke(): the next operation starts when the one before has ended.
CanStart == Idle
Dispatch(r) ==
  /\ CanStart /\ r \in owed
  /\ \/ r.op = "apply" /\ (StartApply(r) \/ RepeatApply(r)) /\ UNCHANGED snapshots
     \/ r.op = "rollback" /\ StartRollback(r) /\ UNCHANGED snapshots
     \/ r.op = "create" /\ StartCreate(r) /\ UNCHANGED plugins
     \/ r.op = "restore" /\ StartRestore(r) /\ UNCHANGED plugins
     \/ r.op = "write" /\ StartWrite(r) /\ UNCHANGED plugins

\* The Node Agent stops: the request comes back if its class lets it; a
\* download that was being written leaves what it had.
Crash ==
  /\ Fault /\ ~Idle /\ job' = {}
  /\ owed' = {r \in owed : \A j \in job : r # j.req \/ Capability!Repeatable(ClassOf(r))}
  /\ artifacts' \in {artifacts} \cup {[artifacts EXCEPT ![<<j.req.plugin, j.req.to>>] = "torn"] :
                      j \in {k \in At("fetch") : artifacts[<<k.req.plugin, k.req.to>>] = "absent"}}
  /\ UNCHANGED <<profile, requests, changes, kept, guard, snapshots>>

Work == \/ \E r \in owed : Dispatch(r)
        \/ PluginStep /\ UNCHANGED snapshots
        \/ SnapshotStep /\ UNCHANGED plugins
        \/ Reply /\ UNCHANGED <<plugins, snapshots>>

Next == \/ Ask \/ Work \/ Crash
        \/ Edit /\ UNCHANGED <<plugins, snapshots>>

\* Every step of an operation is taken by the running process.
Spec == Init /\ [][Next]_vars /\ WF_vars(Work)

TypeOK ==
  /\ disk \in [SavedFile \cup {"modules"} -> Slot]
  /\ requests \in 0 .. MaxRequests /\ faults \in 0 .. MaxFaults /\ edits \in 0 .. MaxEdits
  /\ \A r \in owed : r.mut \in 1 .. requests /\ r.op \in {"apply", "rollback", "create", "restore", "write"}
  /\ Cardinality(job) <= 1
  /\ \A j \in job : j.req \in owed /\ j.n \in 0 .. Len(Order) /\ j.placed \subseteq SavedFile
  /\ \A i \in DOMAIN changes : changes[i].status \in Status
  /\ kept \in [1 .. MaxRequests -> [SavedFile -> Slot]] /\ guard \in [SavedFile -> Slot]
  /\ artifacts \in [Plugins \X Version -> {"absent", "torn", "whole"}]
  /\ archives \subseteq [SavedFile -> Slot]
  /\ \A i \in DOMAIN rows : rows[i].files \in archives /\ rows[i].type \in DOMAIN Scope

\* Whatever stage an update was stopped at, what it is to be undone with is
\* complete: a recorded change has its whole backup, and nothing of the
\* profile is touched before.
PointOfReturn ==
  /\ \A i \in DOMAIN changes : LockHash(kept[i]) = changes[i].before
  /\ \A j \in At("add") : kept[Current] = Saved(disk)

\* The history says what is on disk: an applied change is installed and
\* healthy, a change rolled back by itself or on request has left the
\* dependency files, the record of managed plugins and the installed
\* packages as they were before it.
Becomes(i, s) == i \in DOMAIN changes /\ changes[i].status # s /\ changes'[i].status = s
Unchanged(i) == /\ \A f \in SavedFile \ ProfileFile : disk'[f] = kept[i][f]
                /\ disk'["modules"] = disk'["lock"]
HistoryIsTrue == [][\A i \in 1 .. MaxRequests :
  /\ Becomes(i, "applied") => InPlace(changes[i])
  /\ Becomes(i, "failed-rolled-back") \/ Becomes(i, "rolled-back") => Unchanged(i)]_vars

\* A restoration that ends with an error leaves every file it covers as it
\* was, or every one as in the snapshot, unless DSH wrote meanwhile or undoing
\* failed as well.
AllOrNothing ==
  \A j \in At("failed") : j.req.op = "restore" /\ j.base # Nothing /\ j.quiet =>
    \/ \A f \in SavedFile : disk[f] = j.base[f]
    \/ \A f \in SavedFile : disk[f] = IF j.got[f] # {} THEN j.got[f] ELSE j.base[f]

\* No file is moved aside before its content is in a protection snapshot of
\* this request; what a repeated attempt replaces may be what the attempt
\* before it had put there.
ProtectedFirst ==
  \A j \in At("swap") \cup At("place") : j.req.op = "restore" =>
    \E i \in DOMAIN rows :
      /\ rows[i].mut = Protection(j.req) /\ rows[i].files \in archives
      /\ j.own /\ j.quiet => \A f \in Scope[rows[i].type] : rows[i].files[f] = j.base[f]
=============================================================================
