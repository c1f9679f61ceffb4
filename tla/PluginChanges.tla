---------------------------- MODULE PluginChanges ----------------------------
(***************************************************************************)
(* Plugin updates and their rollback (plugins(), fetchArtifact(),          *)
(* backupDependencyState() and restoreDependencyState() of supervisor.ts). *)
(* The loops over the saved files take one file per step; the commands     *)
(* `dsh plugin add` and `dsh plugin install --frozen-lockfile` are outside *)
(* the repository: they may fail after having changed any of their files.  *)
(***************************************************************************)
EXTENDS ManagedProfile

VARIABLES
  changes,   \* plugin-changes.json
  kept,      \* transactions/<change>: the saved files before each change
  guard,     \* transactions/<change>-rollback-<mutation>
  artifacts  \* artifacts/: "absent", "torn" or "whole" for plugin and version

plugins == <<changes, kept, guard, artifacts>>

Status == {"applying", "applied", "failed-rolled-back", "rollback-failed", "rolled-back"}

PluginsInit ==
  /\ changes = <<>> /\ guard = Nothing
  /\ kept = [i \in 1 .. MaxRequests |-> Nothing]
  /\ artifacts = [x \in Plugins \X Version |-> "absent"]

Change(r) == [mut |-> r.mut, plugin |-> r.plugin, to |-> r.to,
              before |-> r.expect, after |-> {}, status |-> "applying"]
Mark(i, s) == changes' = [changes EXCEPT ![i].status = s]
MarkApplied(i) == changes' = [changes EXCEPT ![i].status = "applied", ![i].after = {LockHash(disk)}]

\* The plugin a change installs is there, recorded and healthy.
InPlace(c) == /\ Healthy(disk, c.plugin)
              /\ Names(disk["modules"], c.plugin) = c.to
              /\ Names(disk["managed"], c.plugin) = c.to

Prior(r) == {i \in DOMAIN changes : changes[i].mut = r.mut}

\* apply, first time: the lock must be the one the page has read.
StartApply(r) ==
  /\ Prior(r) = {}
  /\ job' = {Running(r, IF LockHash(disk) = r.expect THEN "fetch" ELSE "failed")}
  /\ UNCHANGED <<profile, queue, faults, plugins>>

\* apply, invoked again: an installation that got through is recorded, any
\* other outcome of the first time is an error.
RepeatApply(r) ==
  /\ \E i \in Prior(r) :
       LET good == InPlace(changes[i]) /\ changes[i].status \in {"applying", "applied"} IN
       /\ IF good /\ changes[i].status = "applying" THEN MarkApplied(i) ELSE UNCHANGED changes
       /\ job' = {Running(r, IF good THEN "done" ELSE "failed")}
  /\ UNCHANGED <<profile, queue, faults, kept, guard, artifacts>>

\* The registry may refuse; a cached artifact must have the hash it is named by.
FetchArtifact ==
  /\ \E j \in At("fetch") :
       LET x == <<j.req.plugin, j.req.to>> IN
       \/ Throws(j) /\ UNCHANGED artifacts
       \/ /\ artifacts[x] # "torn" /\ Goes(j, "backup")
          /\ artifacts' = [artifacts EXCEPT ![x] = "whole"]
  /\ UNCHANGED <<profile, queue, faults, changes, kept, guard>>

Saving(old, j) ==
  [f \in SavedFile |-> IF f = Order[j.n + 1] THEN disk[f] ELSE IF j.n = 0 THEN {} ELSE old[f]]

BackupNext ==
  /\ \E j \in At("backup") :
       /\ j.n < Len(Order) /\ NextFile(j)
       /\ kept' = [kept EXCEPT ![Len(changes) + 1] = Saving(@, j)]
  /\ UNCHANGED <<profile, queue, faults, changes, guard, artifacts>>

\* Mutant: the change is recorded once the first file is saved.
RecordChangeEarly ==
  /\ \E j \in At("backup") :
       /\ j.n = 1 /\ Goes(j, "add")
       /\ changes' = Append(changes, Change(j.req))
  /\ UNCHANGED <<profile, queue, faults, kept, guard, artifacts>>
RecordChange ==
  /\ \E j \in At("backup") :
       /\ j.n = Len(Order) /\ Goes(j, "add")
       /\ changes' = Append(changes, Change(j.req))
  /\ UNCHANGED <<profile, queue, faults, kept, guard, artifacts>>

Current == Len(changes)
With(slot, r) == {[p \in Plugins |-> IF p = r.plugin THEN r.to ELSE Names(slot, p)]}
Overwrite(files, slot) == disk' = [f \in DOMAIN disk |-> IF f \in files THEN slot ELSE disk[f]]
Added == {"manifest", "lock", "modules"}

\* dsh plugin add, then dsh --dump-config.  A package may carry another
\* version than it is published as: then nothing new is installed.
AddPlugin ==
  /\ \E j \in At("add") :
       \/ /\ \E files \in {Added, Added \ {"modules"}} : Overwrite(files, With(disk["manifest"], j.req))
          /\ Goes(j, "manage") /\ UNCHANGED faults
       \/ /\ \E files \in SUBSET Added : Overwrite(files, With(disk["manifest"], j.req))
          /\ Goes(j, "undo") /\ Fault
  /\ UNCHANGED <<queue, edits, plugins>>

WriteManaged ==
  /\ \E j \in At("manage") :
       /\ Overwrite({"managed"}, With(disk["managed"], j.req)) /\ Goes(j, "validate")
  /\ UNCHANGED <<queue, edits, faults, plugins>>

\* Mutant: what the command reports is taken for what is installed.
ValidateApplyAlways ==
  /\ \E j \in At("validate") : MarkApplied(Current) /\ Succeeds(j)
  /\ UNCHANGED <<profile, queue, faults, kept, guard, artifacts>>
ValidateApply ==
  /\ \E j \in At("validate") :
       IF Healthy(disk, j.req.plugin) THEN MarkApplied(Current) /\ Succeeds(j)
       ELSE Goes(j, "undo") /\ UNCHANGED changes
  /\ UNCHANGED <<profile, queue, faults, kept, guard, artifacts>>

PutBack(from, j) == disk' = [disk EXCEPT ![Order[j.n + 1]] = from[Order[j.n + 1]]]

\* The frozen installation refuses a lock file that is not the manifest's.
Mismatch == disk["manifest"] # disk["lock"]
Installed == /\ ~Mismatch
             /\ disk' = [disk EXCEPT !["modules"] = disk["lock"]]

\* The catch block of apply.
UndoNext ==
  /\ \E j \in At("undo") :
       /\ j.n < Len(Order)
       /\ \/ PutBack(kept[Current], j) /\ NextFile(j) /\ UNCHANGED <<changes, faults>>
          \/ Fault /\ Mark(Current, "rollback-failed") /\ Throws(j) /\ UNCHANGED disk
  /\ UNCHANGED <<queue, edits, kept, guard, artifacts>>

UndoInstall ==
  /\ \E j \in At("undo") :
       /\ j.n = Len(Order) /\ Throws(j)
       /\ \/ Installed /\ Mark(Current, "failed-rolled-back") /\ UNCHANGED faults
          \/ Mismatch /\ Mark(Current, "rollback-failed") /\ UNCHANGED <<disk, faults>>
          \/ Fault /\ Mark(Current, "rollback-failed") /\ UNCHANGED disk
  /\ UNCHANGED <<queue, edits, kept, guard, artifacts>>

\* rollback: the guards, in the order of the code.
RolledBack(i) == changes[i].status = "rolled-back" /\ LockHash(disk) = changes[i].before
MayRollBack(r) == /\ LockHash(disk) = r.expect
                  /\ changes[r.target].after \subseteq {LockHash(disk)}
StartRollback(r) ==
  /\ job' = {Running(r, IF RolledBack(r.target) THEN "done"
                        ELSE IF MayRollBack(r) THEN "guard" ELSE "failed")}
  /\ UNCHANGED <<profile, queue, faults, plugins>>

GuardNext ==
  /\ \E j \in At("guard") :
       /\ j.n < Len(Order)
       /\ guard' = Saving(guard, j)
       /\ IF j.n + 1 = Len(Order) THEN Goes(j, "restore") ELSE NextFile(j)
  /\ UNCHANGED <<profile, queue, faults, changes, kept, artifacts>>

RestoreNext ==
  /\ \E j \in At("restore") :
       /\ j.n < Len(Order)
       /\ \/ PutBack(kept[j.req.target], j) /\ NextFile(j) /\ UNCHANGED faults
          \/ Fault /\ Goes(j, "unguard") /\ UNCHANGED disk
  /\ UNCHANGED <<queue, edits, plugins>>

RestoreInstall ==
  /\ \E j \in At("restore") :
       /\ j.n = Len(Order)
       /\ \/ Installed /\ Goes(j, "check") /\ UNCHANGED faults
          \/ Mismatch /\ Goes(j, "unguard") /\ UNCHANGED <<disk, faults>>
          \/ Fault /\ Goes(j, "unguard") /\ UNCHANGED disk
  /\ UNCHANGED <<queue, edits, plugins>>

Restored(i) == LockHash(disk) = changes[i].before /\ AllHealthy(disk)
CheckRollback ==
  /\ \E j \in At("check") :
       IF Restored(j.req.target) THEN Mark(j.req.target, "rolled-back") /\ Succeeds(j)
       ELSE Goes(j, "unguard") /\ UNCHANGED changes
  /\ UNCHANGED <<profile, queue, faults, kept, guard, artifacts>>

\* The catch block of rollback: what fails in it leaves the record alone.
UnguardNext ==
  /\ \E j \in At("unguard") :
       /\ j.n < Len(Order)
       /\ \/ PutBack(guard, j) /\ NextFile(j) /\ UNCHANGED faults
          \/ Fault /\ Throws(j) /\ UNCHANGED disk
  /\ UNCHANGED <<queue, edits, plugins>>

UnguardInstall ==
  /\ \E j \in At("unguard") :
       /\ j.n = Len(Order) /\ Throws(j)
       /\ \/ Installed /\ Mark(j.req.target, "rollback-failed") /\ UNCHANGED faults
          \/ Mismatch /\ UNCHANGED <<disk, changes, faults>>
          \/ Fault /\ UNCHANGED <<disk, changes>>
  /\ UNCHANGED <<queue, edits, kept, guard, artifacts>>

PluginStep == \/ FetchArtifact \/ BackupNext \/ RecordChange \/ AddPlugin \/ WriteManaged
              \/ ValidateApply \/ UndoNext \/ UndoInstall \/ GuardNext \/ RestoreNext
              \/ RestoreInstall \/ CheckRollback \/ UnguardNext \/ UnguardInstall
=============================================================================
