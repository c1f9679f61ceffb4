-------------------------- MODULE ConnectorCommands --------------------------
(***************************************************************************)
(* How the Connector executes the Hub's commands on its DSH                *)
(* (hub-connector/src/index.ts): two bounded lanes per connection, session *)
(* mutations made of several DSH calls, settings updates, and the fencing  *)
(* of answers to the connection that asked.                                *)
(*                                                                         *)
(* The Node Agent sends a command again as long as it has no answer        *)
(* (hub-node-agent/src/agent.ts), on the same connection or a later one,   *)
(* while earlier executions are still at work: an execution is a task.     *)
(* DSH is external: a session it has is listed, a prompt with an identity  *)
(* it has admitted is admitted once, a settings write that names a         *)
(* namespace revision is refused when the namespace has moved on.          *)
(*                                                                         *)
(* Bounds: MaxTasks executions, MaxFaults lost connections or failed calls,*)
(* MaxLocal writes of a local client.                                      *)
(***************************************************************************)
EXTENDS Integers, Sequences, FiniteSets, Faults

CONSTANTS Appends,      \* message.append and message.steer
          Creates,      \* create with a first message
          Fetches,      \* session.prompt through the official Web protocol
          Guarded,      \* settings updates that name a namespace revision
          Bare,         \* settings updates that do not
          Reads,        \* bulk reads, which may never end
          InteractiveSlots, BulkSlots,
          MaxTasks, MaxLocal

Updates == Guarded \cup Bare
Prompts == Appends \cup Creates \cup Fetches
Commands == Prompts \cup Updates \cup Reads

Local == "local"    \* who writes settings beside the commands

ASSUME ConnectorAssumption ==
  /\ {InteractiveSlots, BulkSlots} \subseteq Nat \ {0}
  /\ {MaxTasks, MaxFaults, MaxLocal} \subseteq Nat
  /\ Appends \cap (Creates \cup Fetches) = {} /\ Creates \cap Fetches = {}
  /\ Guarded \cap Bare = {} /\ Prompts \cap Updates = {}
  /\ Reads \cap (Prompts \cup Updates) = {} /\ Local \notin Commands

VARIABLES
  phase, carrier,     \* the IPC connection: "down", "proving" or "up"; its number
  tasks,              \* every execution: its command, connection and next call
  base,               \* the settings revision a command's sender had read
  answer,             \* what the Node Agent has accepted for a command
  sessions, named,    \* DSH: sessions of Creates that exist, or have their title
  prompted,           \* DSH: how often it admitted the message of a command
  settings            \* DSH: who wrote the settings, in order

ipc == <<phase, carrier>>
dsh == <<sessions, named, prompted, settings>>
vars == <<ipc, tasks, base, answer, dsh, faults>>

Bulk == "bulk"
Interactive == "interactive"

Init ==
  /\ phase = "down" /\ carrier = 0
  /\ tasks = <<>> /\ base = [c \in Commands |-> 0] /\ answer = [c \in Commands |-> "none"]
  /\ sessions = {} /\ named = {}
  /\ prompted = [c \in Prompts |-> 0] /\ settings = <<>>
  /\ faults = 0

-----------------------------------------------------------------------------
(* The scheduler. *)

\* Mutant: reads share the lane of the commands a person waits for.
LaneShared(c) == Interactive
\* invocationPriority().
Lane(c) == IF c \in Reads THEN Bulk ELSE Interactive

Slots(lane) == IF lane = Bulk THEN BulkSlots ELSE InteractiveSlots

\* The first DSH call of a command.
First(c) == CASE c \in Appends -> "look"
              [] c \in Creates -> "list"
              [] c \in Fetches -> "prompt"
              [] c \in Updates -> "compare"
              [] OTHER -> "read"

Task(c) == [cmd |-> c, on |-> carrier, at |-> "queued"]
Running(t) == t.at \notin {"queued", "done"}
Beside(ts, i) == {j \in DOMAIN ts : ts[j].on = ts[i].on /\ Lane(ts[j].cmd) = Lane(ts[i].cmd)}

\* Mutant: a task is not counted before it runs.
AheadRunning(ts, i) == {j \in Beside(ts, i) : Running(ts[j])}
\* The tasks that take a slot of the lane before this one.
Ahead(ts, i) == {j \in Beside(ts, i) : Running(ts[j]) \/ (ts[j].at = "queued" /\ j < i)}

\* pump(): the scheduler of each connection fills its slots, oldest first.
Pumped(ts) ==
  [i \in DOMAIN ts |->
     IF ts[i].at = "queued" /\ Cardinality(Ahead(ts, i)) < Slots(Lane(ts[i].cmd))
     THEN [ts[i] EXCEPT !.at = First(ts[i].cmd)] ELSE ts[i]]

\* A command without an answer reaches the Connector.  A sender of a settings
\* update has read the settings before.
Deliver(c) ==
  /\ phase = "up" /\ answer[c] = "none" /\ Len(tasks) < MaxTasks
  /\ tasks' = Pumped(Append(tasks, Task(c)))
  /\ base' = IF \E i \in DOMAIN tasks : tasks[i].cmd = c THEN base
             ELSE [base EXCEPT ![c] = Len(settings)]
  /\ UNCHANGED <<ipc, answer, dsh, faults>>

-----------------------------------------------------------------------------
(* One call of a task. *)

Goto(i, at) == tasks' = [tasks EXCEPT ![i].at = at]
Own(i) == phase = "up" /\ tasks[i].on = carrier

\* handleBody(): the result goes to the connection that asked, if it is still
\* the current one; the Node Agent keeps the first answer.
Finish(i, status) ==
  LET c == tasks[i].cmd IN
  /\ tasks' = Pumped([tasks EXCEPT ![i].at = "done"])
  /\ answer' = IF Own(i) /\ answer[c] = "none" THEN [answer EXCEPT ![c] = status] ELSE answer

Continue(i, at) == Goto(i, at) /\ UNCHANGED answer

\* create: a session that is listed is not created again.
List(i) ==
  LET c == tasks[i].cmd IN
  /\ tasks[i].at = "list"
  /\ Continue(i, IF c \in sessions THEN "name" ELSE "create")
  /\ UNCHANGED <<ipc, base, dsh, faults>>

\* DSH refuses a second session with one identity.
Create(i) ==
  LET c == tasks[i].cmd IN
  /\ tasks[i].at = "create"
  /\ IF c \in sessions THEN Finish(i, "error") ELSE Continue(i, "name")
  /\ sessions' = sessions \cup {c}
  /\ UNCHANGED <<ipc, base, named, prompted, settings, faults>>

\* Mutant: a session whose title is set is taken for complete.
NameIsLast(i) ==
  LET c == tasks[i].cmd IN
  /\ tasks[i].at = "name" /\ named' = named \cup {c}
  /\ IF c \in named THEN Finish(i, "ok") ELSE Continue(i, "look")
  /\ UNCHANGED <<ipc, base, sessions, prompted, settings, faults>>
\* selectModel and rename.
Name(i) ==
  LET c == tasks[i].cmd IN
  /\ tasks[i].at = "name" /\ named' = named \cup {c}
  /\ Continue(i, "look")
  /\ UNCHANGED <<ipc, base, sessions, prompted, settings, faults>>

\* hasMutation().
Look(i) ==
  LET c == tasks[i].cmd IN
  /\ tasks[i].at = "look"
  /\ Continue(i, IF prompted[c] > 0 THEN "view" ELSE "prompt")
  /\ UNCHANGED <<ipc, base, dsh, faults>>

\* Mutant: the prompt carries no identity.
AdmittedAgain(c) == prompted[c] + 1
\* DSH admits an identity once.
Admitted(c) == 1

Prompt(i) ==
  LET c == tasks[i].cmd IN
  /\ tasks[i].at = "prompt"
  /\ prompted' = [prompted EXCEPT ![c] = Admitted(c)]
  /\ IF c \in Fetches THEN Finish(i, "ok") ELSE Continue(i, "view")
  /\ UNCHANGED <<ipc, base, sessions, named, settings, faults>>

\* currentSession().
View(i) ==
  /\ tasks[i].at = "view" /\ Finish(i, "ok")
  /\ UNCHANGED <<ipc, base, dsh, faults>>

\* The settings are read and compared with the sender's revision ...
Compare(i) ==
  LET c == tasks[i].cmd IN
  /\ tasks[i].at = "compare"
  /\ IF Len(settings) = base[c] THEN Continue(i, "write") ELSE Finish(i, "error")
  /\ UNCHANGED <<ipc, base, dsh, faults>>

\* Mutant: the namespace revision is not handed on to DSH.
WritableBare(c) == TRUE
\* ... and written by a later call, which DSH refuses when the patch names a
\* revision that is not the current one.
Writable(c) == c \in Guarded => Len(settings) = base[c]

Write(i) ==
  LET c == tasks[i].cmd IN
  /\ tasks[i].at = "write"
  /\ IF Writable(c)
     THEN settings' = Append(settings, c) /\ Continue(i, "announce")
     ELSE UNCHANGED settings /\ Finish(i, "error")
  /\ UNCHANGED <<ipc, base, sessions, named, prompted, faults>>

\* The change is announced on the connection of the moment: a frame that comes
\* before a proof makes the Node Agent close it.
Announce(i) ==
  /\ tasks[i].at = "announce"
  /\ phase' = IF phase = "proving" THEN "down" ELSE phase
  /\ Finish(i, IF phase = "up" THEN "ok" ELSE "error")
  /\ UNCHANGED <<carrier, base, dsh, faults>>

\* A read ends, if it ends.
Read(i) ==
  /\ tasks[i].at = "read" /\ Finish(i, "ok")
  /\ UNCHANGED <<ipc, base, dsh, faults>>

\* A DSH call is refused; the official Web reads a refusal in an ok answer.
Refuse(i) ==
  /\ Running(tasks[i]) /\ Fault
  /\ Finish(i, IF tasks[i].cmd \in Fetches THEN "refused" ELSE "error")
  /\ UNCHANGED <<ipc, base, dsh>>

Call(i) == \/ List(i) \/ Create(i) \/ Name(i) \/ Look(i) \/ Prompt(i)
           \/ View(i) \/ Compare(i) \/ Write(i) \/ Announce(i)

-----------------------------------------------------------------------------
(* The connection, and the other clients of DSH. *)

Connect ==
  /\ phase = "down" /\ phase' = "proving" /\ carrier' = carrier + 1
  /\ UNCHANGED <<tasks, base, answer, dsh, faults>>

Accepted ==
  /\ phase = "proving" /\ phase' = "up"
  /\ UNCHANGED <<carrier, tasks, base, answer, dsh, faults>>

\* Tasks of a lost connection go on, queued ones too.
Lose ==
  /\ phase # "down" /\ Fault /\ phase' = "down"
  /\ UNCHANGED <<carrier, tasks, base, answer, dsh>>

LocalWrite ==
  /\ Cardinality({n \in DOMAIN settings : settings[n] = Local}) < MaxLocal
  /\ settings' = Append(settings, Local)
  /\ UNCHANGED <<ipc, tasks, base, answer, sessions, named, prompted, faults>>

CallOf(n) == \E i \in DOMAIN tasks : i = n /\ Call(i)

Next ==
  \/ \E c \in Commands : Deliver(c)
  \/ \E i \in DOMAIN tasks : Call(i) \/ Read(i) \/ Refuse(i)
  \/ Connect \/ Accepted \/ Lose \/ LocalWrite

\* The Connector reconnects and DSH answers the calls of mutations and settings;
\* nothing makes a bulk read end.
Fairness ==
  /\ WF_vars(Connect) /\ WF_vars(Accepted)
  /\ \A i \in 1 .. MaxTasks : WF_vars(CallOf(i))

Spec == Init /\ [][Next]_vars /\ Fairness

-----------------------------------------------------------------------------
Calls == {"list", "create", "name", "look", "prompt", "view", "compare", "write", "announce", "read"}

\* Each connection keeps to its slots and runs a queue in order, besides types.
TypeOK ==
  /\ phase \in {"down", "proving", "up"} /\ carrier \in 0 .. MaxFaults + MaxTasks + 1
  /\ tasks \in Seq([cmd : Commands, on : 1 .. carrier, at : {"queued", "done"} \cup Calls])
  /\ answer \in [Commands -> {"none", "ok", "refused", "error"}]
  /\ base \in [Commands -> 0 .. Len(settings)]
  /\ settings \in Seq(Updates \cup {Local}) /\ prompted \in [Prompts -> Nat]
  /\ named \subseteq sessions /\ sessions \subseteq Creates
  /\ \A i \in DOMAIN tasks :
       /\ Cardinality({j \in Beside(tasks, i) : Running(tasks[j])}) <= Slots(Lane(tasks[i].cmd))
       /\ tasks[i].at = "queued" =>
            \A j \in Beside(tasks, i) : j > i => tasks[j].at = "queued"

\* However often a message is sent and however its executions overlap, DSH
\* admits it once; a command answered ok has left its message, and a session
\* with its title where it promised one.
MessageExactlyOnce ==
  \A c \in Prompts :
    /\ prompted[c] <= 1
    /\ answer[c] = "ok" => prompted[c] = 1 /\ (c \in Creates => c \in named)

\* An update that names a revision is applied at most once and only over the
\* settings its sender had read: a local write in between is not lost.
GuardedWriteIsSeen ==
  \A n \in DOMAIN settings : settings[n] \in Guarded => n = base[settings[n]] + 1

Queued(n) == \E i \in DOMAIN tasks : i = n /\ tasks[i].at = "queued"
Interactively(n) == \E i \in DOMAIN tasks : i = n /\ tasks[i].cmd \notin Reads

\* Reads that never end keep no other command waiting.
InteractiveStarts ==
  \A n \in 1 .. MaxTasks : (Queued(n) /\ Interactively(n)) ~> ~Queued(n)
=============================================================================
