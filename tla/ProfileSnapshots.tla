--------------------------- MODULE ProfileSnapshots ---------------------------
(***************************************************************************)
(* Snapshots of the managed scope, their restoration and the conditional   *)
(* file write (snapshots(), createSnapshot(), collectSnapshot(),           *)
(* restoreSnapshot() and files() of supervisor.ts).                        *)
(*                                                                         *)
(* A restoration stages every file beside its destination, then moves each *)
(* old file aside and the new one into place, one rename per step; it      *)
(* moves them back when a rename fails.  The names of the files set aside  *)
(* are random: another attempt does not find them.                         *)
(***************************************************************************)
EXTENDS ManagedProfile

VARIABLES
  archives,  \* snapshots/<hash>.json
  rows       \* snapshots/index.json

snapshots == <<archives, rows>>

Scope == [configuration |-> ProfileFile, dependency |-> DependencyFile,
          fleet |-> ProfileFile \cup DependencyFile]
Collected(type) == [f \in SavedFile |-> IF f \in Scope[type] THEN disk[f] ELSE {}]

SnapshotsInit == archives = {} /\ rows = <<>>

\* The mutation of a snapshot: restoring takes one named after its own.
Manual(r) == <<r.mut, "manual">>
Protection(r) == <<r.mut, "pre-restore">>
Mutation(r) == IF r.op = "restore" THEN Protection(r) ELSE Manual(r)
Taken(m) == \E i \in DOMAIN rows : rows[i].mut = m
TypeOf(r) == IF r.op = "restore" THEN rows[r.target].type ELSE r.type

\* Mutant: the index row is written before the archive it names.
StartCreateIndexed(r) ==
  /\ job' = {IF Taken(Manual(r)) THEN Running(r, "done")
             ELSE [Running(r, "index") EXCEPT !.got = Collected(r.type)]}
  /\ UNCHANGED <<profile, queue, faults, snapshots>>
\* create: the same mutation has one snapshot.
StartCreate(r) ==
  /\ job' = {IF Taken(Manual(r)) THEN Running(r, "done")
             ELSE [Running(r, "store") EXCEPT !.got = Collected(r.type)]}
  /\ UNCHANGED <<profile, queue, faults, snapshots>>

StoreArchive ==
  /\ \E j \in At("store") : archives' = archives \cup {j.got} /\ Goes(j, "index")
  /\ UNCHANGED <<profile, queue, faults, rows>>

IndexSnapshot ==
  /\ \E j \in At("index") :
       /\ rows' = Append(rows, [mut |-> Mutation(j.req), type |-> TypeOf(j.req), files |-> j.got])
       /\ job' = {[j EXCEPT !.at = IF j.req.op = "restore" THEN "open" ELSE "done", !.own = TRUE]}
  /\ UNCHANGED <<profile, queue, faults, archives>>

\* Mutant: no protection snapshot.
StartRestoreBare(r) ==
  /\ job' = {Running(r, IF r.expect \in {Nothing, Collected(rows[r.target].type)} THEN "open" ELSE "failed")}
  /\ UNCHANGED <<profile, queue, faults, snapshots>>
\* restore: the precondition is optional, the protection snapshot is not.
StartRestore(r) ==
  /\ LET type == rows[r.target].type IN
     job' = {IF r.expect \notin {Nothing, Collected(type)} THEN Running(r, "failed")
             ELSE IF Taken(Protection(r)) THEN Running(r, "open")
             ELSE [Running(r, "store") EXCEPT !.got = Collected(type)]}
  /\ UNCHANGED <<profile, queue, faults, snapshots>>

\* The archive is read and every target examined.
OpenArchive ==
  /\ \E j \in At("open") :
       IF rows[j.req.target].files \in archives
       THEN job' = {[j EXCEPT !.at = "swap", !.n = 0, !.got = rows[j.req.target].files,
                              !.base = Saved(disk)]}
       ELSE Throws(j)
  /\ UNCHANGED <<profile, queue, faults, snapshots>>

\* The entries of the archive, in the order collectSnapshot() walks the names,
\* which are not in place yet.
First(files) == IF "cordis" \in files THEN "cordis"
                ELSE IF "manifest" \in files THEN "manifest" ELSE "lock"
Last(files) == IF "lock" \in files THEN "lock"
               ELSE IF "manifest" \in files THEN "manifest" ELSE "cordis"
Entries(j) == {f \in Scope.fleet : j.got[f] # {}} \ j.placed
Entry(j) == First(Entries(j))
Existed(j, f) == j.base[f] # {}

\* Staging a file, or moving the old one aside, fails: nothing of it is to be
\* undone but the entries before it.
EntryFails ==
  /\ \E j \in At("swap") :
       /\ Entries(j) # {} /\ Goes(j, "unswap")
       /\ \/ Fault
          \/ Existed(j, Entry(j)) /\ disk[Entry(j)] = {} /\ UNCHANGED faults
  /\ UNCHANGED <<profile, queue, snapshots>>

SetAside ==
  /\ \E j \in At("swap") :
       /\ Entries(j) # {} /\ Existed(j, Entry(j)) /\ disk[Entry(j)] # {}
       /\ job' = {[j EXCEPT !.at = "place", !.aside[Entry(j)] = disk[Entry(j)]]}
       /\ disk' = [disk EXCEPT ![Entry(j)] = {}]
  /\ UNCHANGED <<queue, edits, faults, snapshots>>

Place ==
  /\ \E j \in At("place") \cup {k \in At("swap") : Entries(k) # {} /\ ~Existed(k, Entry(k))} :
       /\ disk' = [disk EXCEPT ![Entry(j)] = j.got[Entry(j)]]
       /\ job' = {[j EXCEPT !.at = "swap", !.placed = @ \cup {Entry(j)}]}
  /\ UNCHANGED <<queue, edits, faults, snapshots>>

\* The new file cannot be moved into place; the old one is moved back, and if
\* that fails too its entry is not among those the outer handler undoes.
PlaceFails ==
  /\ \E j \in At("place") :
       /\ \/ /\ Fault /\ Goes(j, "unswap")
             /\ disk' = [disk EXCEPT ![Entry(j)] = j.aside[Entry(j)]]
          \/ /\ Fault /\ UNCHANGED disk
             /\ job' = {[j EXCEPT !.at = "unswap", !.quiet = FALSE]}
  /\ UNCHANGED <<queue, edits, snapshots>>

\* Mutant: the new files are removed, the old ones stay aside.
UnswapHalf ==
  /\ \E j \in At("unswap") :
       IF j.placed = {} THEN Throws(j) /\ UNCHANGED disk
       ELSE /\ disk' = [f \in DOMAIN disk |-> IF f \in j.placed THEN {} ELSE disk[f]]
            /\ job' = {[j EXCEPT !.placed = {}]}
  /\ UNCHANGED <<queue, edits, faults, snapshots>>
\* The rollback of the renames, last entry first; an error does not end it.
Unswap ==
  /\ \E j \in At("unswap") :
       IF j.placed = {} THEN Throws(j) /\ UNCHANGED <<disk, faults>>
       ELSE LET f == Last(j.placed) IN
            \/ /\ job' = {[j EXCEPT !.placed = @ \ {f}]}
               /\ disk' = [disk EXCEPT ![f] = j.aside[f]] /\ UNCHANGED faults
            \/ /\ job' = {[j EXCEPT !.placed = @ \ {f}, !.quiet = FALSE]}
               /\ Fault /\ disk' = [disk EXCEPT ![f] = {}]
  /\ UNCHANGED <<queue, edits, snapshots>>

\* The files set aside are removed last; an error there fails the request.
DropAside ==
  /\ \E j \in At("swap") :
       /\ Entries(j) = {}
       /\ \/ Succeeds(j) /\ UNCHANGED faults
          \/ Fault /\ Throws(j)
  /\ UNCHANGED <<profile, queue, snapshots>>

\* files.write: the precondition, then a temporary file renamed over the target.
StartWrite(r) ==
  /\ job' = {Running(r, IF disk["cordis"] = r.expect["cordis"] THEN "write" ELSE "failed")}
  /\ UNCHANGED <<profile, queue, faults, snapshots>>

WriteFile ==
  /\ \E j \in At("write") :
       \/ disk' = [disk EXCEPT !["cordis"] = Composition(j.req.to)] /\ Succeeds(j) /\ UNCHANGED faults
       \/ Fault /\ Throws(j) /\ UNCHANGED disk
  /\ UNCHANGED <<queue, edits, snapshots>>

SnapshotStep == \/ StoreArchive \/ IndexSnapshot \/ OpenArchive \/ EntryFails \/ SetAside
                \/ Place \/ PlaceFails \/ Unswap \/ DropAside \/ WriteFile
=============================================================================
