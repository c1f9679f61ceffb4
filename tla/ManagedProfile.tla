---------------------------- MODULE ManagedProfile ----------------------------
(***************************************************************************)
(* The managed DSH profile and the queue of privileged operations on it    *)
(* (hub-node-agent/src/supervisor.ts).                                     *)
(*                                                                         *)
(* A file records a version per plugin; that is all the program reads out  *)
(* of package.json, the lock file, cordis.yml, managed-plugins.json and    *)
(* node_modules.  A file that does not exist is the empty set, one that    *)
(* exists the set of its content.                                          *)
(*                                                                         *)
(* invoke() runs one operation at a time.  A request is owed until its     *)
(* result is in the Node Agent's journal: a crash loses the operation, not *)
(* the request, which the recovery pass of agent.ts invokes again.         *)
(*                                                                         *)
(* Bounds: MaxRequests requests in all, MaxFaults crashes, failed commands *)
(* and failed file operations, MaxEdits changes made outside the Hub.      *)
(***************************************************************************)
EXTENDS Integers, Sequences, FiniteSets

CONSTANTS Plugins, Disabled, SnapshotTypes, MaxVersion, MaxRequests, MaxFaults, MaxEdits

ASSUME ProfileAssumption ==
  /\ Disabled \subseteq Plugins
  /\ SnapshotTypes \subseteq {"configuration", "dependency", "fleet"}
  /\ {MaxRequests, MaxFaults, MaxEdits} \subseteq Nat /\ MaxVersion \in Nat \ {0}

Version == 0 .. MaxVersion
Content == [Plugins -> Version]
Slot == {{}} \cup {{c} : c \in Content}

DependencyFile == {"manifest", "lock"}
ProfileFile == {"cordis"}
SavedFile == DependencyFile \cup ProfileFile \cup {"managed"}
Order == <<"manifest", "lock", "cordis", "managed">>

VARIABLES
  disk,      \* the files, and "modules": what is installed
  owed,      \* requests without a recorded result
  job,       \* the operation invoke() is running, a set of at most one
  requests,  \* how many requests there have been
  faults, edits

profile == <<disk, edits>>
queue == <<owed, requests>>

Names(slot, p) == IF slot = {} THEN 0 ELSE (CHOOSE c \in slot : TRUE)[p]
LockHash(d) == [f \in DependencyFile |-> d[f]]
Saved(d) == [f \in SavedFile |-> d[f]]
Nothing == [f \in SavedFile |-> {}]

\* inventory(): what is listed and when it is healthy.
Listed(d, p) == \/ Names(d["managed"], p) # 0
                \/ Names(d["manifest"], p) # 0 /\ Names(d["modules"], p) # 0
Healthy(d, p) ==
  /\ Names(d["modules"], p) # 0
  /\ Names(d["manifest"], p) # 0 /\ p \notin Disabled
  /\ Names(d["managed"], p) \in {0, Names(d["modules"], p)}
\* check-updates: the registry has another version of a listed plugin.
UpdateOffered(d, p, latest) == Listed(d, p) /\ Names(d["modules"], p) # latest
AllHealthy(d) == \A p \in Plugins : Listed(d, p) => Healthy(d, p)

(* The operation being run: where it stands, how many files its loop has    *)
(* done, what collectSnapshot() read, restoreSnapshot()'s entries, whether  *)
(* it took its snapshot itself, and whether nobody wrote beside it and      *)
(* nothing failed while it undid its own work.                              *)
Running(r, stage) == [req |-> r, at |-> stage, n |-> 0, got |-> Nothing,
                      base |-> Nothing, aside |-> Nothing, placed |-> {},
                      own |-> FALSE, quiet |-> TRUE]
Idle == job = {}
At(stage) == {j \in job : j.at = stage}
Goes(j, stage) == job' = {[j EXCEPT !.at = stage, !.n = 0]}
NextFile(j) == job' = {[j EXCEPT !.n = @ + 1]}
Succeeds(j) == Goes(j, "done")
Throws(j) == Goes(j, "failed")
Fault == faults < MaxFaults /\ faults' = faults + 1

ProfileInit ==
  /\ disk = [f \in SavedFile \cup {"modules"} |->
               IF f = "managed" THEN {} ELSE {[p \in Plugins |-> IF f = "cordis" THEN 0 ELSE 1]}]
  /\ owed = {} /\ job = {} /\ requests = 0 /\ faults = 0 /\ edits = 0

\* A request reaches the Node Agent's inbox.  A page sends what it has read:
\* the request may be carried out long after.
Submit(r) ==
  /\ requests < MaxRequests
  /\ requests' = requests + 1
  /\ owed' = owed \cup {[r EXCEPT !.mut = requests']}
  /\ UNCHANGED <<profile, job, faults>>

\* The result reaches the journal; the chain goes on whatever it was.
Reply ==
  /\ \E j \in At("done") \cup At("failed") : owed' = owed \ {j.req}
  /\ job' = {}
  /\ UNCHANGED <<profile, requests, faults>>

\* A composition file another program or the file editor writes.
Composition(v) == {[p \in Plugins |-> v]}

\* DSH, an editor or an agent rewrites the composition file beside a snapshot
\* operation; between operations that is what a file request does.
Edit ==
  /\ edits < MaxEdits /\ edits' = edits + 1
  /\ \E j \in job : j.req.op \in {"create", "restore", "write"}
  /\ \E v \in {0, 1} : /\ disk["cordis"] \notin {{}, Composition(v)}
                        /\ disk' = [disk EXCEPT !["cordis"] = Composition(v)]
  /\ job' = {[j EXCEPT !.quiet = FALSE] : j \in job}
  /\ UNCHANGED <<queue, faults>>
=============================================================================
