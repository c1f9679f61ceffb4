---------------------------- MODULE ConnectorProofs ----------------------------
(***************************************************************************)
(* Theorems about the two parts of a Connector: ConnectorCommands, for any *)
(* commands, slots, executions and faults, and ModelTransfer, for any      *)
(* number of transfers, receivers, local edits and faults.                 *)
(***************************************************************************)
EXTENDS ConnectorCommands, ModelTransfer, FiniteSetTheorems, TLAPS

-----------------------------------------------------------------------------
(* Commands: the inductive invariant *)

Places == {"queued", "done"} \cup Calls
Tasks == [cmd : Commands, on : Nat, at : Places]

Typed ==
  /\ carrier \in Nat /\ tasks \in Seq(Tasks)
  /\ answer \in [Commands -> {"none", "ok", "refused", "error"}]
  /\ base \in [Commands -> Nat] /\ settings \in Seq(Updates \cup {Local})
  /\ prompted \in [Prompts -> {0, 1}]

\* A task makes the calls of its command, and has a reason for each of them.
TaskInOrder(t) ==
  /\ t.at \in {"list", "create", "name"} => t.cmd \in Creates
  /\ t.at \in {"look", "view"} => t.cmd \in Appends \cup Creates
  /\ t.at = "prompt" => t.cmd \in Prompts
  /\ t.at \in {"look", "prompt", "view"} => t.cmd \notin Creates \/ t.cmd \in named
  /\ t.at = "view" => prompted[t.cmd] = 1
  /\ t.at \in {"compare", "write", "announce"} => t.cmd \in Updates
  /\ t.at = "read" => t.cmd \in Reads

TasksInOrder == \A i \in DOMAIN tasks : TaskInOrder(tasks[i])

\* A command answered ok has done what it promises.
AnswersAreTrue ==
  \A c \in Prompts : answer[c] = "ok" => prompted[c] = 1 /\ (c \in Creates => c \in named)

\* What wrote the settings was executed.
WritersAreTasks ==
  \A n \in DOMAIN settings : settings[n] \in Updates => \E i \in DOMAIN tasks : tasks[i].cmd = settings[n]

IInv == Typed /\ TasksInOrder /\ AnswersAreTrue /\ WritersAreTasks /\ GuardedWriteIsSeen

-----------------------------------------------------------------------------
LEMMA Kinds ==
  /\ Appends \cap Creates = {} /\ Appends \cap Fetches = {} /\ Creates \cap Fetches = {}
  /\ Prompts \cap Updates = {} /\ Prompts \cap Reads = {} /\ Updates \cap Reads = {}
  /\ Guarded \cap Bare = {} /\ Local \notin Commands
BY ConnectorAssumption DEF ConnectorAssumption, Commands, Prompts, Updates

\* The scheduler starts what is queued and leaves the rest alone.
Pumps(us, ts) ==
  /\ us \in Seq(Tasks) /\ DOMAIN us = DOMAIN ts
  /\ \A i \in DOMAIN ts :
       /\ us[i].cmd = ts[i].cmd
       /\ us[i].at = ts[i].at \/ (ts[i].at = "queued" /\ us[i].at = First(ts[i].cmd))

LEMMA FirstIsPlace == \A c \in Commands : First(c) \in Calls
BY DEF First, Calls

LEMMA PumpedPumps == ASSUME NEW ts \in Seq(Tasks) PROVE Pumps(Pumped(ts), ts)
<1> DEFINE us == Pumped(ts)
<1>1. us = [i \in DOMAIN ts |-> us[i]] /\ DOMAIN us = DOMAIN ts BY DEF Pumped
<1>2. ASSUME NEW i \in DOMAIN ts
      PROVE  /\ us[i] \in Tasks /\ us[i].cmd = ts[i].cmd
             /\ us[i].at = ts[i].at \/ (ts[i].at = "queued" /\ us[i].at = First(ts[i].cmd))
  <2>1. ts[i] \in Tasks OBVIOUS
  <2>2. First(ts[i].cmd) \in Places BY <2>1, FirstIsPlace DEF Tasks, Places
  <2>3. us[i] = ts[i] \/ (ts[i].at = "queued" /\ us[i] = [ts[i] EXCEPT !.at = First(ts[i].cmd)])
    BY DEF Pumped
  <2> QED BY <2>1, <2>2, <2>3 DEF Tasks
<1>3. DOMAIN ts = 1 .. Len(ts) /\ Len(ts) \in Nat OBVIOUS
<1> HIDE DEF us
<1>4. us \in Seq(Tasks) BY <1>1, <1>2, <1>3
<1> QED BY <1>1, <1>2, <1>4 DEF Pumps, us

\* The tasks after a call: one has moved on, and the scheduler may have run.
Moves(i, step) ==
  /\ tasks' \in Seq(Tasks) /\ DOMAIN tasks' = DOMAIN tasks
  /\ \A j \in DOMAIN tasks :
       /\ tasks'[j].cmd = tasks[j].cmd
       /\ \/ j # i /\ tasks'[j].at = tasks[j].at
          \/ j = i /\ tasks'[j].at = step
          \/ tasks[j].at = "queued" /\ j # i /\ tasks'[j].at = First(tasks[j].cmd)

LEMMA GotoMoves ==
  ASSUME Typed, NEW i \in DOMAIN tasks, NEW step \in Calls, Goto(i, step)
  PROVE  Moves(i, step)
<1>1. tasks \in Seq(Tasks) /\ tasks[i] \in Tasks BY DEF Typed
<1>2. [tasks[i] EXCEPT !.at = step] \in Tasks BY <1>1 DEF Tasks, Places
<1>3. tasks' = [tasks EXCEPT ![i] = [tasks[i] EXCEPT !.at = step]] BY <1>1 DEF Goto
<1>4. tasks' \in Seq(Tasks) BY <1>1, <1>2, <1>3
<1>5. [tasks[i] EXCEPT !.at = step].cmd = tasks[i].cmd /\ [tasks[i] EXCEPT !.at = step].at = step
  BY <1>1 DEF Tasks
<1> QED BY <1>1, <1>3, <1>4, <1>5 DEF Moves

LEMMA FinishMoves ==
  ASSUME Typed, NEW i \in DOMAIN tasks, NEW status, Finish(i, status)
  PROVE  Moves(i, "done")
<1> DEFINE ts == [tasks EXCEPT ![i] = [tasks[i] EXCEPT !.at = "done"]]
<1>1. tasks \in Seq(Tasks) /\ tasks[i] \in Tasks BY DEF Typed
<1>2. [tasks[i] EXCEPT !.at = "done"] \in Tasks BY <1>1 DEF Tasks, Places
<1>3. tasks' = Pumped(ts) BY <1>1 DEF Finish
<1>4. ts \in Seq(Tasks) /\ DOMAIN ts = DOMAIN tasks BY <1>1, <1>2
<1>5. [tasks[i] EXCEPT !.at = "done"].cmd = tasks[i].cmd /\ [tasks[i] EXCEPT !.at = "done"].at = "done"
  BY <1>1 DEF Tasks
<1>6. \A j \in DOMAIN tasks : /\ ts[j].cmd = tasks[j].cmd
                              /\ ts[j].at = IF j = i THEN "done" ELSE tasks[j].at
  BY <1>1, <1>5
<1> HIDE DEF ts
<1>7. Pumps(tasks', ts) BY <1>3, <1>4, PumpedPumps
<1> QED BY <1>4, <1>6, <1>7 DEF Moves, Pumps

LEMMA AnswerAt ==
  ASSUME Typed, NEW i \in DOMAIN tasks, NEW status \in {"ok", "refused", "error"}, Finish(i, status)
  PROVE  /\ answer' \in [Commands -> {"none", "ok", "refused", "error"}]
         /\ \A c \in Commands : answer'[c] = answer[c] \/ (c = tasks[i].cmd /\ answer'[c] = status)
<1>0. tasks[i] \in Tasks BY DEF Typed
<1>1. tasks[i].cmd \in Commands BY <1>0 DEF Tasks
<1> QED BY <1>1 DEF Finish, Typed

\* What a queued task may start with.
LEMMA FirstInOrder ==
  ASSUME NEW t \in Tasks, NEW u, u.cmd = t.cmd, u.at = First(t.cmd)
  PROVE  TaskInOrder(u)
<1>1. t.cmd \in Commands BY DEF Tasks
<1> QED BY <1>1, Kinds DEF First, TaskInOrder, Commands, Prompts

\* The other tasks stay in order while DSH learns and forgets nothing.
LEMMA OthersInOrder ==
  ASSUME Typed, TasksInOrder, NEW i \in DOMAIN tasks, NEW step, Moves(i, step),
         named \subseteq named', \A c \in Prompts : prompted[c] = 1 => prompted'[c] = 1,
         TaskInOrder(tasks[i])'
  PROVE  TasksInOrder'
<1> SUFFICES ASSUME NEW j \in DOMAIN tasks PROVE TaskInOrder(tasks[j])' BY DEF TasksInOrder, Moves
<1>1. tasks[j] \in Tasks /\ TaskInOrder(tasks[j]) BY DEF Typed, TasksInOrder
<1>2. CASE j = i BY <1>2
<1>3. CASE j # i /\ tasks'[j].cmd = tasks[j].cmd /\ tasks'[j].at = tasks[j].at
  <2>1. tasks[j].at = "view" => tasks[j].cmd \in Prompts BY <1>1 DEF TaskInOrder, Prompts
  <2> QED BY <1>1, <1>3, <2>1 DEF TaskInOrder
<1>4. CASE j # i /\ tasks'[j].cmd = tasks[j].cmd /\ tasks'[j].at = First(tasks[j].cmd)
  <2>1. tasks[j].cmd \in Commands BY <1>1 DEF Tasks
  <2> QED BY <1>4, <2>1, Kinds DEF First, TaskInOrder, Commands, Prompts
<1> QED BY <1>2, <1>3, <1>4 DEF Moves

LEMMA WritersStay ==
  ASSUME WritersAreTasks, NEW i, NEW step, Moves(i, step), settings' = settings
  PROVE  WritersAreTasks'
BY DEF WritersAreTasks, Moves

-----------------------------------------------------------------------------
LEMMA InitHolds == Init => IInv
<1> SUFFICES ASSUME Init PROVE IInv OBVIOUS
<1>1. Typed BY DEF Init, Typed
<1>2. TasksInOrder /\ WritersAreTasks /\ GuardedWriteIsSeen
  BY DEF Init, TasksInOrder, WritersAreTasks, GuardedWriteIsSeen
<1>3. AnswersAreTrue
  <2>1. \A c \in Prompts : answer[c] = "none" BY DEF Init, Commands
  <2> QED BY <2>1 DEF AnswersAreTrue
<1> QED BY <1>1, <1>2, <1>3 DEF IInv

\* A call that goes on to another, and changes at DSH what it says.
LEMMA Continues ==
  ASSUME IInv, NEW i \in DOMAIN tasks, NEW step \in Calls, Continue(i, step),
         carrier' = carrier, UNCHANGED <<base, settings>>,
         prompted' \in [Prompts -> {0, 1}], named \subseteq named',
         \A c \in Prompts : prompted[c] = 1 => prompted'[c] = 1,
         \A t : t.cmd = tasks[i].cmd /\ t.at = step => TaskInOrder(t)'
  PROVE  IInv'
<1> USE DEF IInv
<1>1. Moves(i, step) /\ answer' = answer BY GotoMoves DEF Continue
<1>2. TaskInOrder(tasks[i])' BY <1>1 DEF Moves, TaskInOrder
<1>3. Typed' BY <1>1 DEF Typed, Moves
<1>4. TasksInOrder' BY <1>1, <1>2, OthersInOrder
<1>5. AnswersAreTrue' BY <1>1 DEF AnswersAreTrue
<1>6. WritersAreTasks' BY <1>1, WritersStay
<1>7. GuardedWriteIsSeen' BY DEF GuardedWriteIsSeen
<1> QED BY <1>3, <1>4, <1>5, <1>6, <1>7

\* A call that ends its task.
LEMMA Finishes ==
  ASSUME IInv, NEW i \in DOMAIN tasks, NEW status \in {"ok", "refused", "error"}, Finish(i, status),
         carrier' = carrier, UNCHANGED <<base, settings>>,
         prompted' \in [Prompts -> {0, 1}], named \subseteq named',
         \A c \in Prompts : prompted[c] = 1 => prompted'[c] = 1,
         status = "ok" /\ tasks[i].cmd \in Prompts =>
           prompted'[tasks[i].cmd] = 1 /\ (tasks[i].cmd \in Creates => tasks[i].cmd \in named')
  PROVE  IInv'
<1> USE DEF IInv
<1>1. Moves(i, "done") BY FinishMoves
<1>2. /\ answer' \in [Commands -> {"none", "ok", "refused", "error"}]
      /\ \A c \in Commands : answer'[c] = answer[c] \/ (c = tasks[i].cmd /\ answer'[c] = status)
  BY AnswerAt
<1>3. Typed' BY <1>1, <1>2 DEF Typed, Moves
<1>4. TaskInOrder(tasks[i])'
  <2>1. tasks'[i].at = "done" BY <1>1 DEF Moves
  <2> QED BY <2>1 DEF TaskInOrder
<1>5. TasksInOrder' BY <1>1, <1>4, OthersInOrder
<1>6. AnswersAreTrue' BY <1>2 DEF AnswersAreTrue, Commands
<1>7. WritersAreTasks' BY <1>1, WritersStay
<1>8. GuardedWriteIsSeen' BY DEF GuardedWriteIsSeen
<1> QED BY <1>3, <1>5, <1>6, <1>7, <1>8

LEMMA CallsKnown == {"list", "create", "name", "look", "prompt", "view", "compare", "write", "announce", "read"} = Calls
BY DEF Calls

\* The calls of a session mutation, one after another.
LEMMA SessionStep ==
  ASSUME IInv, NEW i \in DOMAIN tasks,
         List(i) \/ Create(i) \/ Name(i) \/ Look(i) \/ Prompt(i) \/ View(i)
  PROVE  IInv'
<1> DEFINE c == tasks[i].cmd
<1>b. tasks[i] \in Tasks BY DEF IInv, Typed
<1>0. /\ tasks[i] \in Tasks /\ TaskInOrder(tasks[i]) /\ c \in Commands
      /\ prompted \in [Prompts -> {0, 1}]
  BY <1>b DEF IInv, Typed, TasksInOrder, Tasks
<1>a. \A step \in {"name", "create", "look", "view", "prompt"} : step \in Calls BY DEF Calls
<1>1. CASE List(i)
  <2>0. c \in Creates BY <1>0, <1>1 DEF List, TaskInOrder
  <2>1. PICK step \in {"name", "create"} : Continue(i, step) BY <1>1 DEF List
  <2>2. \A t : t.cmd = c /\ t.at = step => TaskInOrder(t)' BY <2>0 DEF TaskInOrder
  <2>3. UNCHANGED <<carrier, base, settings, prompted, named>> BY <1>1 DEF List, ipc, dsh
  <2> QED BY <1>0, <1>a, <2>1, <2>2, <2>3, Continues
<1>2. CASE Create(i)
  <2>0. c \in Creates BY <1>0, <1>2 DEF Create, TaskInOrder
  <2>3. UNCHANGED <<carrier, base, settings, prompted, named>> BY <1>2 DEF Create, ipc
  <2>4. CASE Continue(i, "name")
    <3>2. \A t : t.cmd = c /\ t.at = "name" => TaskInOrder(t)' BY <2>0 DEF TaskInOrder
    <3> QED BY <1>0, <1>a, <2>3, <2>4, <3>2, Continues
  <2>5. CASE Finish(i, "error") BY <1>0, <2>3, <2>5, Finishes
  <2> QED BY <1>2, <2>4, <2>5 DEF Create
<1>3. CASE Name(i)
  <2>0. c \in Creates BY <1>0, <1>3 DEF Name, TaskInOrder
  <2>1. Continue(i, "look") /\ named' = named \cup {c} BY <1>3 DEF Name
  <2>2. \A t : t.cmd = c /\ t.at = "look" => TaskInOrder(t)' BY <2>0, <2>1 DEF TaskInOrder
  <2>3. UNCHANGED <<carrier, base, settings, prompted>> BY <1>3 DEF Name, ipc
  <2> QED BY <1>0, <1>a, <2>1, <2>2, <2>3, Continues
<1>4. CASE Look(i)
  <2>0. c \in Appends \cup Creates /\ (c \notin Creates \/ c \in named) /\ c \in Prompts
    BY <1>0, <1>4 DEF Look, TaskInOrder, Prompts
  <2>3. UNCHANGED <<carrier, base, settings, prompted, named>> BY <1>4 DEF Look, ipc, dsh
  <2>4. CASE prompted[c] > 0
    <3>1. Continue(i, "view") BY <1>4, <2>4 DEF Look
    <3>2. prompted[c] = 1 BY <1>0, <2>0, <2>4
    <3>3. \A t : t.cmd = c /\ t.at = "view" => TaskInOrder(t)' BY <2>0, <2>3, <3>2 DEF TaskInOrder
    <3> QED BY <1>0, <1>a, <2>3, <3>1, <3>3, Continues
  <2>5. CASE ~(prompted[c] > 0)
    <3>1. Continue(i, "prompt") BY <1>4, <2>5 DEF Look
    <3>3. \A t : t.cmd = c /\ t.at = "prompt" => TaskInOrder(t)' BY <2>0, <2>3 DEF TaskInOrder
    <3> QED BY <1>0, <1>a, <2>3, <3>1, <3>3, Continues
  <2> QED BY <2>4, <2>5
<1>5. CASE Prompt(i)
  <2>0. c \in Prompts /\ (c \notin Creates \/ c \in named) BY <1>0, <1>5 DEF Prompt, TaskInOrder
  <2>1. prompted' = [prompted EXCEPT ![c] = 1] BY <1>5 DEF Prompt, Admitted
  <2>2. /\ prompted' \in [Prompts -> {0, 1}] /\ prompted'[c] = 1
        /\ \A d \in Prompts : prompted[d] = 1 => prompted'[d] = 1
    BY <1>0, <2>0, <2>1
  <2>3. UNCHANGED <<carrier, base, settings, named>> BY <1>5 DEF Prompt, ipc
  <2>4. CASE c \in Fetches
    <3>1. Finish(i, "ok") BY <1>5, <2>4 DEF Prompt
    <3> QED BY <2>0, <2>2, <2>3, <3>1, Finishes
  <2>5. CASE c \notin Fetches
    <3>1. Continue(i, "view") BY <1>5, <2>5 DEF Prompt
    <3>2. \A t : t.cmd = c /\ t.at = "view" => TaskInOrder(t)'
      BY <2>0, <2>2, <2>3, <2>5 DEF TaskInOrder, Prompts
    <3> QED BY <1>a, <2>2, <2>3, <3>1, <3>2, Continues
  <2> QED BY <2>4, <2>5
<1>6. CASE View(i)
  <2>1. c \in Appends \cup Creates /\ prompted[c] = 1 /\ (c \in Creates => c \in named)
    BY <1>0, <1>6 DEF View, TaskInOrder
  <2>2. Finish(i, "ok") /\ UNCHANGED <<carrier, base, settings, prompted, named>> BY <1>6 DEF View, ipc, dsh
  <2> QED BY <1>0, <2>1, <2>2, Finishes
<1> QED BY <1>1, <1>2, <1>3, <1>4, <1>5, <1>6

\* Somebody writes the settings: the invariants speak of one writer more.
LEMMA Written ==
  ASSUME IInv, NEW w \in Updates \cup {Local}, settings' = Append(settings, w)
  PROVE  /\ settings' \in Seq(Updates \cup {Local})
         /\ \A n \in DOMAIN settings' : \/ n \in DOMAIN settings /\ settings'[n] = settings[n]
                                        \/ n = Len(settings) + 1 /\ settings'[n] = w
BY DEF IInv, Typed

\* The calls of a settings update.
LEMMA SettingsStep ==
  ASSUME IInv, NEW i \in DOMAIN tasks, Compare(i) \/ Write(i) \/ Announce(i)
  PROVE  IInv'
<1> DEFINE c == tasks[i].cmd
<1>a. tasks[i] \in Tasks /\ TaskInOrder(tasks[i]) /\ prompted \in [Prompts -> {0, 1}]
  BY DEF IInv, Typed, TasksInOrder
<1>b. c \in Updates BY <1>a DEF TaskInOrder, Compare, Write, Announce
<1>0. /\ tasks[i] \in Tasks /\ TaskInOrder(tasks[i]) /\ c \in Updates /\ c \in Commands /\ c \notin Prompts
      /\ prompted \in [Prompts -> {0, 1}]
  BY <1>a, <1>b, Kinds DEF Commands
<1>1. UNCHANGED <<carrier, base, prompted, named>> BY DEF Compare, Write, Announce, ipc, dsh
<1>2. \A t, step : step \in {"write", "announce"} /\ t.cmd = c /\ t.at = step => TaskInOrder(t)'
  BY <1>0 DEF TaskInOrder
<1>3. "write" \in Calls /\ "announce" \in Calls BY DEF Calls
<1>4. ASSUME NEW status \in {"ok", "error"}, Finish(i, status), settings' = settings PROVE IInv'
  BY <1>0, <1>1, <1>4, Finishes
<1>5. CASE Compare(i)
  <2>1. settings' = settings /\ (Continue(i, "write") \/ Finish(i, "error")) BY <1>5 DEF Compare, dsh
  <2>2. CASE Continue(i, "write") BY <1>0, <1>1, <1>2, <1>3, <2>1, <2>2, Continues
  <2> QED BY <1>4, <2>1, <2>2
<1>6. CASE Announce(i)
  <2>1. settings' = settings /\ (Finish(i, "ok") \/ Finish(i, "error")) BY <1>6 DEF Announce, dsh
  <2> QED BY <1>4, <2>1
<1>7. CASE Write(i)
  <2>1. CASE ~Writable(c) BY <1>4, <1>7, <2>1 DEF Write
  <2>2. CASE Writable(c)
    <3> USE DEF IInv
    <3>1. settings' = Append(settings, c) /\ Continue(i, "announce") BY <1>7, <2>2 DEF Write
    <3>2. Moves(i, "announce") /\ answer' = answer BY <1>3, <3>1, GotoMoves DEF Continue
    <3>3. /\ settings' \in Seq(Updates \cup {Local})
          /\ \A n \in DOMAIN settings' : \/ n \in DOMAIN settings /\ settings'[n] = settings[n]
                                         \/ n = Len(settings) + 1 /\ settings'[n] = c
      BY <1>0, <3>1, Written
    <3>4. Typed' BY <1>1, <3>2, <3>3 DEF Typed, Moves
    <3>5. TaskInOrder(tasks[i])' BY <1>0, <3>2 DEF Moves, TaskInOrder
    <3>6. TasksInOrder' BY <1>1, <3>2, <3>5, OthersInOrder
    <3>7. AnswersAreTrue' BY <1>1, <3>2 DEF AnswersAreTrue
    <3>8. WritersAreTasks' BY <3>2, <3>3 DEF WritersAreTasks, Moves
    <3>9. c \in Guarded => Len(settings) + 1 = base[c] + 1 BY <2>2 DEF Writable
    <3>10. GuardedWriteIsSeen' BY <1>1, <3>3, <3>9 DEF GuardedWriteIsSeen
    <3> QED BY <3>4, <3>6, <3>7, <3>8, <3>10
  <2> QED BY <2>1, <2>2
<1> QED BY <1>5, <1>6, <1>7

LEMMA EndStep ==
  ASSUME IInv, NEW i \in DOMAIN tasks, Read(i) \/ Refuse(i)
  PROVE  IInv'
<1>1. prompted \in [Prompts -> {0, 1}] BY DEF IInv, Typed
<1>2. UNCHANGED <<carrier, base, settings, prompted, named>> BY DEF Read, Refuse, ipc, dsh
<1>3. CASE Read(i)
  <2>1. tasks[i].cmd \in Reads BY <1>3 DEF IInv, TasksInOrder, TaskInOrder, Read
  <2>2. tasks[i].cmd \notin Prompts BY <2>1, Kinds
  <2> QED BY <1>1, <1>2, <1>3, <2>2, Finishes DEF Read
<1>4. CASE Refuse(i)
  <2>1. PICK status \in {"refused", "error"} : Finish(i, status) BY <1>4 DEF Refuse
  <2> QED BY <1>1, <1>2, <2>1, Finishes
<1> QED BY <1>3, <1>4

\* A new execution does not touch what a sender has read before.
LEMMA DeliverStep ==
  ASSUME IInv, NEW c \in Commands, Deliver(c)
  PROVE  IInv'
<1> USE DEF IInv
<1> DEFINE ts == Append(tasks, Task(c))
<1>1. UNCHANGED <<carrier, answer, prompted, named, settings>> BY DEF Deliver, ipc, dsh
<1>2. Task(c) \in Tasks /\ Task(c).cmd = c /\ Task(c).at = "queued"
  BY DEF Task, Tasks, Places, Typed
<1>3. tasks \in Seq(Tasks) /\ Len(tasks) \in Nat BY DEF Typed
<1>4. /\ ts \in Seq(Tasks)
      /\ \A i \in DOMAIN tasks : i \in DOMAIN ts /\ ts[i] = tasks[i]
      /\ \A i \in DOMAIN ts : i \in DOMAIN tasks \/ (i \notin DOMAIN tasks /\ ts[i] = Task(c))
  BY <1>2, <1>3
<1>5. tasks' = Pumped(ts) BY DEF Deliver
<1> HIDE DEF ts
<1>6. Pumps(tasks', ts) BY <1>4, <1>5, PumpedPumps
<1>7. base' \in [Commands -> Nat] BY <1>1 DEF Deliver, Typed
<1>8. Typed' BY <1>1, <1>6, <1>7 DEF Typed, Pumps
<1>9. ASSUME NEW i \in DOMAIN ts PROVE TaskInOrder(tasks[i])'
  <2>5. ts[i] \in Tasks BY <1>4
  <2>1. ts[i] \in Tasks /\ ts[i].cmd \in Commands BY <2>5 DEF Tasks
  <2>2. TaskInOrder(ts[i])
    <3>1. CASE i \in DOMAIN tasks BY <1>4, <3>1 DEF TasksInOrder
    <3>2. CASE ts[i] = Task(c) BY <1>2, <3>2 DEF TaskInOrder
    <3> QED BY <1>4, <3>1, <3>2
  <2>3. CASE tasks'[i].cmd = ts[i].cmd /\ tasks'[i].at = ts[i].at BY <1>1, <2>2, <2>3 DEF TaskInOrder
  <2>4. CASE tasks'[i].cmd = ts[i].cmd /\ tasks'[i].at = First(ts[i].cmd)
    BY <2>1, <2>4, Kinds DEF First, TaskInOrder, Commands, Prompts
  <2> QED BY <1>6, <2>3, <2>4 DEF Pumps
<1>10. TasksInOrder' BY <1>6, <1>9 DEF TasksInOrder, Pumps
<1>11. AnswersAreTrue' BY <1>1 DEF AnswersAreTrue
<1>12. \A i \in DOMAIN tasks : i \in DOMAIN tasks' /\ tasks'[i].cmd = tasks[i].cmd BY <1>4, <1>6 DEF Pumps
<1>13. WritersAreTasks' BY <1>1, <1>12 DEF WritersAreTasks
<1>14. \A n \in DOMAIN settings : settings[n] \in Guarded => base'[settings[n]] = base[settings[n]]
  <2> SUFFICES ASSUME NEW n \in DOMAIN settings, settings[n] \in Guarded
               PROVE  base'[settings[n]] = base[settings[n]]
    OBVIOUS
  <2>1. settings[n] \in Updates /\ settings[n] \in Commands BY DEF Updates, Commands
  <2>2. PICK i \in DOMAIN tasks : tasks[i].cmd = settings[n] BY <2>1 DEF WritersAreTasks
  <2>3. CASE settings[n] = c BY <2>2, <2>3 DEF Deliver
  <2>4. CASE settings[n] # c BY <2>1, <2>4 DEF Deliver, Typed
  <2> QED BY <2>3, <2>4
<1>15. GuardedWriteIsSeen' BY <1>1, <1>14 DEF GuardedWriteIsSeen
<1> QED BY <1>8, <1>10, <1>11, <1>13, <1>15

LEMMA OutsideStep ==
  ASSUME IInv, Connect \/ Accepted \/ Lose \/ LocalWrite
  PROVE  IInv'
<1> USE DEF IInv
<1>1. UNCHANGED <<tasks, base, answer, prompted, named>> BY DEF Connect, Accepted, Lose, LocalWrite, dsh
<1>2. carrier' \in Nat BY DEF Connect, Accepted, Lose, LocalWrite, ipc, Typed
<1>3. TasksInOrder' /\ AnswersAreTrue' BY <1>1 DEF TasksInOrder, TaskInOrder, AnswersAreTrue
<1>4. CASE settings' = settings
  BY <1>1, <1>2, <1>3, <1>4 DEF Typed, WritersAreTasks, GuardedWriteIsSeen
<1>5. CASE settings' = Append(settings, Local)
  <2>1. Local \in Updates \cup {Local} /\ Local \notin Updates /\ Local \notin Guarded
    BY Kinds DEF Commands, Updates
  <2>2. /\ settings' \in Seq(Updates \cup {Local})
        /\ \A n \in DOMAIN settings' : \/ n \in DOMAIN settings /\ settings'[n] = settings[n]
                                       \/ n = Len(settings) + 1 /\ settings'[n] = Local
    BY <1>5, <2>1, Written
  <2>3. Typed' BY <1>1, <1>2, <2>2 DEF Typed
  <2>4. WritersAreTasks' BY <1>1, <2>1, <2>2 DEF WritersAreTasks
  <2>5. GuardedWriteIsSeen' BY <1>1, <2>1, <2>2 DEF GuardedWriteIsSeen
  <2> QED BY <1>3, <2>3, <2>4, <2>5
<1> QED BY <1>4, <1>5 DEF Connect, Accepted, Lose, LocalWrite, dsh

LEMMA StepHolds == IInv /\ [Next]_vars => IInv'
<1> SUFFICES ASSUME IInv, [Next]_vars PROVE IInv' OBVIOUS
<1>1. CASE UNCHANGED vars
  BY <1>1 DEF vars, ipc, dsh, IInv, Typed, TasksInOrder, TaskInOrder, AnswersAreTrue, WritersAreTasks, GuardedWriteIsSeen
<1>2. ASSUME NEW i \in DOMAIN tasks, Call(i) PROVE IInv' BY <1>2, SessionStep, SettingsStep DEF Call
<1> QED BY <1>1, <1>2, EndStep, DeliverStep, OutsideStep DEF Next

LEMMA ConnectorInvariant == Spec => []IInv
<1> QED BY InitHolds, StepHolds, PTL DEF Spec

\* createSession(), appendMessage() and the official prompt of index.ts: however
\* often they are executed, DSH admits a message once, and an ok is true.
THEOREM MessagesEnterOnce == Spec => []MessageExactlyOnce
<1>1. IInv => MessageExactlyOnce
  <2> SUFFICES ASSUME IInv, NEW c \in Prompts
               PROVE  /\ prompted[c] <= 1
                      /\ answer[c] = "ok" => prompted[c] = 1 /\ (c \in Creates => c \in named)
    BY DEF MessageExactlyOnce
  <2>1. prompted[c] \in {0, 1} BY DEF IInv, Typed
  <2>2. prompted[c] <= 1 BY <2>1
  <2> QED BY <2>2 DEF IInv, AnswersAreTrue
<1> QED BY <1>1, ConnectorInvariant, PTL

\* updateSettings() of index.ts: an update that names a namespace revision is
\* applied over what its sender has read, and once.
THEOREM NoWriteIsLost == Spec => []GuardedWriteIsSeen
<1>1. IInv => GuardedWriteIsSeen BY DEF IInv
<1> QED BY <1>1, ConnectorInvariant, PTL

-----------------------------------------------------------------------------
(* Commands: lanes, connections and bounds *)

Busy(ts, i) == {j \in Beside(ts, i) : Running(ts[j])}

\* A lane never runs more than its slots, and starts its tasks in order.
WithinSlots(ts) == \A i \in DOMAIN ts : Cardinality(Busy(ts, i)) <= Slots(Lane(ts[i].cmd))
InTurn(ts) == \A i \in DOMAIN ts : ts[i].at = "queued" =>
                \A j \in Beside(ts, i) : j > i => ts[j].at = "queued"

Over(ts) == {i \in DOMAIN ts : ts[i].at = "done"}

\* A connection number costs a fault or a task that ends.
Counted ==
  /\ phase \in {"down", "proving", "up"} /\ faults \in 0 .. MaxFaults /\ Len(tasks) <= MaxTasks
  /\ phase # "down" => carrier >= 1
  /\ carrier + (IF phase = "down" THEN 1 ELSE 0) <= faults + Cardinality(Over(tasks)) + 1
  /\ \A i \in DOMAIN tasks : tasks[i].on \in 1 .. carrier

\* Only sessions that exist get a title.
NamesExist ==
  /\ named \subseteq sessions /\ sessions \subseteq Creates
  /\ \A i \in DOMAIN tasks : tasks[i].at = "name" => tasks[i].cmd \in sessions

ReadBefore == base \in [Commands -> 0 .. Len(settings)]

Scheduled == WithinSlots(tasks) /\ InTurn(tasks) /\ Counted /\ NamesExist /\ ReadBefore

LEMMA FewTasks ==
  ASSUME NEW ts \in Seq(Tasks)
  PROVE  /\ Len(ts) \in Nat /\ DOMAIN ts = 1 .. Len(ts)
         /\ \A S \in SUBSET DOMAIN ts : IsFiniteSet(S) /\ Cardinality(S) \in Nat /\ Cardinality(S) <= Len(ts)
<1>1. Len(ts) \in Nat /\ DOMAIN ts = 1 .. Len(ts) OBVIOUS
<1>2. IsFiniteSet(DOMAIN ts) /\ Cardinality(DOMAIN ts) <= Len(ts) BY <1>1, FS_Interval
<1>3. ASSUME NEW S \in SUBSET DOMAIN ts
      PROVE  IsFiniteSet(S) /\ Cardinality(S) \in Nat /\ Cardinality(S) <= Len(ts)
  <2>1. IsFiniteSet(S) /\ Cardinality(S) <= Cardinality(DOMAIN ts) BY <1>2, FS_Subset
  <2>2. Cardinality(S) \in Nat /\ Cardinality(DOMAIN ts) \in Nat BY <1>2, <2>1, FS_CardinalityType
  <2> QED BY <1>1, <1>2, <2>1, <2>2
<1> QED BY <1>1, <1>3

LEMMA SlotsAreNumbers == \A l : Slots(l) \in Nat \ {0}
BY ConnectorAssumption DEF ConnectorAssumption, Slots

\* What the scheduler does to each task.
LEMMA PumpedAt ==
  ASSUME NEW ts \in Seq(Tasks), NEW i \in DOMAIN ts
  PROVE  /\ DOMAIN Pumped(ts) = DOMAIN ts
         /\ Pumped(ts)[i].cmd = ts[i].cmd /\ Pumped(ts)[i].on = ts[i].on
         /\ IF ts[i].at = "queued" /\ Cardinality(Ahead(ts, i)) < Slots(Lane(ts[i].cmd))
            THEN Pumped(ts)[i].at = First(ts[i].cmd) /\ Running(Pumped(ts)[i])
            ELSE Pumped(ts)[i] = ts[i]
<1>1. ts[i] \in Tasks OBVIOUS
<1>2. First(ts[i].cmd) \in Calls BY <1>1, FirstIsPlace DEF Tasks
<1>3. First(ts[i].cmd) \notin {"queued", "done"} BY <1>2 DEF Calls
<1>4. CASE ts[i].at = "queued" /\ Cardinality(Ahead(ts, i)) < Slots(Lane(ts[i].cmd))
  <2>1. Pumped(ts)[i] = [ts[i] EXCEPT !.at = First(ts[i].cmd)] BY <1>4 DEF Pumped
  <2>2. PICK u : u = [ts[i] EXCEPT !.at = First(ts[i].cmd)] OBVIOUS
  <2>3. u.cmd = ts[i].cmd /\ u.on = ts[i].on /\ u.at = First(ts[i].cmd) BY <1>1, <2>2 DEF Tasks
  <2>4. Running(u) BY <1>3, <2>3 DEF Running
  <2>5. DOMAIN Pumped(ts) = DOMAIN ts BY DEF Pumped
  <2> QED BY <1>4, <2>1, <2>2, <2>3, <2>4, <2>5
<1>5. CASE ~(ts[i].at = "queued" /\ Cardinality(Ahead(ts, i)) < Slots(Lane(ts[i].cmd)))
  BY <1>5 DEF Pumped
<1> QED BY <1>4, <1>5

\* A set of indices that is not empty has a last one.
LEMMA LastOf ==
  ASSUME NEW n \in Nat, NEW S \in SUBSET (1 .. n), S # {}
  PROVE  \E m \in S : \A j \in S : j <= m
<1> DEFINE After(m) == {k \in S : k > m}
           T == {After(m) : m \in S}
           R == StrictSubsetOrdering(S)
<1>1. IsFiniteSet(S)
  <2>1. IsFiniteSet(1 .. n) BY FS_Interval
  <2> QED BY <2>1, FS_Subset
<1>2. T \subseteq FiniteSubsetsOf(S) /\ T # {}
  <2>1. \A m \in S : IsFiniteSet(After(m)) BY <1>1, FS_Subset
  <2> QED BY <2>1 DEF FiniteSubsetsOf
<1>3. PICK x \in T : \A y \in T : ~(<<y, x>> \in R)
  <2>1. IsWellFoundedOn(R, FiniteSubsetsOf(S)) BY <1>1, FS_StrictSubsetOrderingWellFounded
  <2> HIDE DEF T, R
  <2> QED BY <1>2, <2>1, WFMin
<1>4. PICK m \in S : x = After(m) OBVIOUS
<1>5. ASSUME NEW j \in S, j > m PROVE FALSE
  <2>0. \A k \in S : k \in Nat OBVIOUS
  <2>3. After(j) \in T OBVIOUS
  <2>4. After(j) \subseteq After(m)
    <3> SUFFICES ASSUME NEW k \in After(j) PROVE k > m OBVIOUS
    <3> QED BY <1>5, <2>0
  <2>5. j \in After(m) /\ j \notin After(j) BY <1>5, <2>0
  <2>1. After(j) \in T /\ After(j) \subseteq After(m) /\ j \in After(m) /\ j \notin After(j)
    BY <2>3, <2>4, <2>5
  <2>2. <<After(j), After(m)>> \in R BY <2>1 DEF StrictSubsetOrdering
  <2> QED BY <1>3, <1>4, <2>1, <2>2
<1>6. \A k \in S : k \in Nat OBVIOUS
<1> QED BY <1>5, <1>6

\* pump() of index.ts keeps every lane within its slots and in order: a task
\* starts when fewer tasks than slots are ahead of it.
LEMMA PumpedKeepsLanes ==
  ASSUME NEW ts \in Seq(Tasks), WithinSlots(ts), InTurn(ts)
  PROVE  WithinSlots(Pumped(ts)) /\ InTurn(Pumped(ts)) /\ Over(Pumped(ts)) = Over(ts)
<1> DEFINE Starts(i) == ts[i].at = "queued" /\ Cardinality(Ahead(ts, i)) < Slots(Lane(ts[i].cmd))
<1>0. PICK us : us = Pumped(ts) OBVIOUS
<1>1. /\ DOMAIN us = DOMAIN ts
      /\ \A i \in DOMAIN ts : /\ us[i].cmd = ts[i].cmd /\ us[i].on = ts[i].on
                              /\ Starts(i) => us[i].at = First(ts[i].cmd) /\ Running(us[i])
                              /\ ~Starts(i) => us[i] = ts[i]
  <2>1. DOMAIN us = DOMAIN ts BY <1>0 DEF Pumped
  <2> QED BY <1>0, <2>1, PumpedAt
<1>2. \A i \in DOMAIN ts : Beside(us, i) = Beside(ts, i) BY <1>1 DEF Beside
<1>3. \A i, j \in DOMAIN ts : j \in Beside(ts, i) =>
        Beside(ts, j) = Beside(ts, i) /\ Lane(ts[j].cmd) = Lane(ts[i].cmd)
  BY DEF Beside
<1>4. Len(ts) \in Nat /\ DOMAIN ts = 1 .. Len(ts)
      /\ \A S \in SUBSET DOMAIN ts : IsFiniteSet(S) /\ Cardinality(S) \in Nat
  BY FewTasks
<1>5. \A i, j \in DOMAIN ts : j \in Beside(ts, i) /\ i < j /\ ts[i].at = "queued" /\ Starts(j) => Starts(i)
  <2> SUFFICES ASSUME NEW i \in DOMAIN ts, NEW j \in DOMAIN ts, j \in Beside(ts, i), i < j,
                      ts[i].at = "queued", Starts(j)
               PROVE  Starts(i)
    OBVIOUS
  <2>1. Ahead(ts, i) \subseteq Ahead(ts, j)
    <3> SUFFICES ASSUME NEW k \in Ahead(ts, i) PROVE k \in Ahead(ts, j) OBVIOUS
    <3>1. k \in Beside(ts, j) /\ k \in DOMAIN ts BY <1>3 DEF Ahead, Beside
    <3>2. k < i => k < j BY <1>4, <3>1
    <3> QED BY <3>1, <3>2 DEF Ahead
  <2>2. Ahead(ts, j) \subseteq DOMAIN ts BY DEF Ahead, Beside
  <2>3. Cardinality(Ahead(ts, i)) <= Cardinality(Ahead(ts, j)) BY <1>4, <2>1, <2>2, FS_Subset
  <2>4. Cardinality(Ahead(ts, i)) \in Nat /\ Cardinality(Ahead(ts, j)) \in Nat BY <1>4, <2>1, <2>2
  <2> QED BY <1>3, <2>3, <2>4, SlotsAreNumbers
<1>6. InTurn(us)
  <2> SUFFICES ASSUME NEW i \in DOMAIN ts, us[i].at = "queued", NEW j \in Beside(ts, i), j > i
               PROVE  us[j].at = "queued"
    BY <1>1, <1>2 DEF InTurn
  <2>1. ~Starts(i) /\ ts[i].at = "queued" BY <1>1 DEF Running
  <2>2. j \in DOMAIN ts /\ ts[j].at = "queued" BY <2>1 DEF InTurn, Beside
  <2>3. i < j BY <1>4, <2>2
  <2>4. ~Starts(j) BY <1>5, <2>1, <2>2, <2>3
  <2> QED BY <1>1, <2>2, <2>4
<1>7. WithinSlots(us)
  <2> SUFFICES ASSUME NEW i \in DOMAIN ts
               PROVE  Cardinality(Busy(us, i)) <= Slots(Lane(ts[i].cmd))
    BY <1>1 DEF WithinSlots
  <2> DEFINE New == {j \in Beside(ts, i) : Starts(j)}
  <2>1. \A j \in Beside(ts, i) : j \in DOMAIN ts BY DEF Beside
  <2>2. Busy(us, i) = Busy(ts, i) \cup New
    <3>1. \A j \in Beside(ts, i) : Starts(j) => ~Running(ts[j]) BY DEF Running
    <3> QED BY <1>1, <1>2, <2>1, <3>1 DEF Busy
  <2>3. CASE New = {} BY <2>2, <2>3 DEF WithinSlots
  <2>4. CASE New # {}
    <3>1. New \in SUBSET DOMAIN ts BY <2>1
    <3>2. PICK m \in New : \A j \in New : j <= m BY <1>4, <2>4, <3>1, LastOf
    <3>3. m \in DOMAIN ts /\ m \in Beside(ts, i) /\ Starts(m) BY <3>1, <3>2
    <3>4. Busy(us, i) \ {m} \subseteq Ahead(ts, m)
      <4> SUFFICES ASSUME NEW j \in Busy(us, i), j # m PROVE j \in Ahead(ts, m) OBVIOUS
      <4>1. j \in Beside(ts, m) /\ j \in DOMAIN ts BY <1>2, <1>3, <2>1, <3>3 DEF Busy
      <4>2. CASE Running(ts[j]) BY <4>1, <4>2 DEF Ahead
      <4>3. CASE j \in New
        <5>1. j <= m BY <3>2, <4>3
        <5>2. j < m BY <1>4, <3>3, <4>1, <5>1
        <5> QED BY <4>1, <4>3, <5>2 DEF Ahead
      <4> QED BY <2>2, <4>2, <4>3 DEF Busy
    <3>5. Ahead(ts, m) \subseteq DOMAIN ts /\ Busy(us, i) \subseteq DOMAIN ts
      BY <1>2, <2>1 DEF Ahead, Beside, Busy
    <3>6. Cardinality(Busy(us, i) \ {m}) <= Cardinality(Ahead(ts, m)) BY <1>4, <3>4, <3>5, FS_Subset
    <3>7. Cardinality(Busy(us, i)) <= Cardinality(Busy(us, i) \ {m}) + 1
      <4>1. IsFiniteSet(Busy(us, i)) /\ Cardinality(Busy(us, i)) \in Nat BY <1>4, <3>5
      <4>2. Cardinality(Busy(us, i) \ {m}) =
              IF m \in Busy(us, i) THEN Cardinality(Busy(us, i)) - 1 ELSE Cardinality(Busy(us, i))
        BY <4>1, FS_RemoveElement
      <4> QED BY <4>1, <4>2
    <3>8. /\ Cardinality(Busy(us, i)) \in Nat /\ Cardinality(Ahead(ts, m)) \in Nat
          /\ Cardinality(Busy(us, i) \ {m}) \in Nat
      BY <1>4, <3>5
    <3>9. Cardinality(Ahead(ts, m)) < Slots(Lane(ts[i].cmd)) BY <1>3, <3>3
    <3> QED BY <3>6, <3>7, <3>8, <3>9, SlotsAreNumbers
  <2> QED BY <2>3, <2>4
<1>8. Over(us) = Over(ts)
  <2>1. \A i \in DOMAIN ts : us[i].at = "done" <=> ts[i].at = "done" BY <1>1 DEF Running
  <2> QED BY <1>1, <2>1 DEF Over
<1> QED BY <1>0, <1>6, <1>7, <1>8

-----------------------------------------------------------------------------
(* Commands: the steps keep the lanes *)

\* A step of a task: it goes on to another call, or ends.
GoesOn(i) == Running(tasks[i]) /\ \E step \in Calls : Goto(i, step)
Ends(i) == Running(tasks[i]) /\ tasks' = Pumped([tasks EXCEPT ![i].at = "done"])

LEMMA CallGoes ==
  ASSUME NEW i, Call(i) \/ Read(i) \/ Refuse(i)
  PROVE  GoesOn(i) \/ Ends(i)
<1>1. ASSUME NEW step \in Calls, Continue(i, step), Running(tasks[i]) PROVE GoesOn(i)
  BY <1>1 DEF GoesOn, Continue
<1>2. ASSUME NEW status, Finish(i, status), Running(tasks[i]) PROVE Ends(i)
  BY <1>2 DEF Ends, Finish
<1>3. tasks[i].at \in Calls => Running(tasks[i]) BY DEF Running, Calls
<1>4. {"list", "create", "name", "look", "prompt", "view", "compare", "write", "announce", "read"} = Calls
  BY CallsKnown
<1>5. CASE List(i) \/ Create(i) \/ Name(i) \/ Look(i)
  BY <1>1, <1>2, <1>3, <1>4, <1>5 DEF List, Create, Name, Look
<1>6. CASE Prompt(i) \/ View(i) \/ Compare(i)
  BY <1>1, <1>2, <1>3, <1>4, <1>6 DEF Prompt, View, Compare
<1>7. CASE Write(i) \/ Announce(i) \/ Read(i)
  BY <1>1, <1>2, <1>3, <1>4, <1>7 DEF Write, Announce, Read
<1>8. CASE Refuse(i) BY <1>2, <1>8 DEF Refuse
<1> QED BY <1>5, <1>6, <1>7, <1>8 DEF Call

Placed(ts, i, step) == [ts EXCEPT ![i].at = step]

\* One task at another place, and no queued task touched.
LEMMA Replaced ==
  ASSUME NEW ts \in Seq(Tasks), NEW i \in DOMAIN ts, Running(ts[i]),
         NEW step \in {"done"} \cup Calls, WithinSlots(ts), InTurn(ts),
         NEW us, us = Placed(ts, i, step)
  PROVE  /\ us \in Seq(Tasks) /\ DOMAIN us = DOMAIN ts
         /\ \A j \in DOMAIN ts : us[j].cmd = ts[j].cmd /\ us[j].on = ts[j].on
                                 /\ us[j].at = IF j = i THEN step ELSE ts[j].at
         /\ WithinSlots(us) /\ InTurn(us)
         /\ Over(us) = Over(ts) \cup (IF step = "done" THEN {i} ELSE {}) /\ i \notin Over(ts)
<1>1. ts[i] \in Tasks OBVIOUS
<1>2. us = [ts EXCEPT ![i] = [ts[i] EXCEPT !.at = step]] BY DEF Placed
<1>3. PICK u : u = [ts[i] EXCEPT !.at = step] OBVIOUS
<1>4. u \in Tasks /\ u.cmd = ts[i].cmd /\ u.on = ts[i].on /\ u.at = step
  BY <1>1, <1>3 DEF Tasks, Places
<1>5. us \in Seq(Tasks) /\ DOMAIN us = DOMAIN ts BY <1>2, <1>3, <1>4
<1>6. \A j \in DOMAIN ts : us[j] = IF j = i THEN u ELSE ts[j] BY <1>2, <1>3
<1>7. \A j \in DOMAIN ts : us[j].cmd = ts[j].cmd /\ us[j].on = ts[j].on
                           /\ us[j].at = IF j = i THEN step ELSE ts[j].at
  BY <1>4, <1>6
<1>8. step # "queued" /\ ts[i].at \notin {"queued", "done"} BY DEF Calls, Running
<1>9. \A j \in DOMAIN ts : Beside(us, j) = Beside(ts, j) BY <1>5, <1>7 DEF Beside
<1>10. InTurn(us)
  <2> SUFFICES ASSUME NEW k \in DOMAIN ts, us[k].at = "queued", NEW j \in Beside(ts, k), j > k
               PROVE  us[j].at = "queued"
    BY <1>5, <1>9 DEF InTurn
  <2>1. k # i /\ ts[k].at = "queued" BY <1>7, <1>8
  <2>2. j \in DOMAIN ts /\ ts[j].at = "queued" BY <2>1 DEF InTurn, Beside
  <2> QED BY <1>7, <1>8, <2>2
<1>11. WithinSlots(us)
  <2> SUFFICES ASSUME NEW k \in DOMAIN ts
               PROVE  Cardinality(Busy(us, k)) <= Slots(Lane(ts[k].cmd))
    BY <1>5, <1>7 DEF WithinSlots
  <2>1. Busy(us, k) \subseteq Busy(ts, k)
    <3> SUFFICES ASSUME NEW j \in Busy(us, k) PROVE j \in Busy(ts, k) OBVIOUS
    <3>1. j \in Beside(ts, k) /\ j \in DOMAIN ts /\ Running(us[j]) BY <1>9 DEF Busy, Beside
    <3>2. Running(ts[j]) BY <1>7, <3>1 DEF Running
    <3> QED BY <3>1, <3>2 DEF Busy
  <2>2. Busy(ts, k) \subseteq DOMAIN ts BY DEF Busy, Beside
  <2>3. IsFiniteSet(Busy(ts, k)) /\ Cardinality(Busy(ts, k)) \in Nat /\ Cardinality(Busy(us, k)) \in Nat
    BY <2>1, <2>2, FewTasks
  <2>4. Cardinality(Busy(us, k)) <= Cardinality(Busy(ts, k)) BY <2>1, <2>3, FS_Subset
  <2>5. Cardinality(Busy(ts, k)) <= Slots(Lane(ts[k].cmd)) BY DEF WithinSlots
  <2> QED BY <2>3, <2>4, <2>5, SlotsAreNumbers
<1>12. Over(us) = Over(ts) \cup (IF step = "done" THEN {i} ELSE {}) /\ i \notin Over(ts)
  <2>1. step = "done" \/ step \notin {"done"} OBVIOUS
  <2>2. \A j \in DOMAIN ts : us[j].at = "done" <=> (ts[j].at = "done" \/ (j = i /\ step = "done"))
    BY <1>7, <1>8
  <2> QED BY <1>5, <1>8, <2>2 DEF Over
<1> QED BY <1>5, <1>7, <1>10, <1>11, <1>12

\* What a step of a task leaves of the lanes, connections and ended tasks.
TasksGoOn(i) ==
  /\ WithinSlots(tasks)' /\ InTurn(tasks)' /\ Len(tasks') = Len(tasks) /\ DOMAIN tasks' = DOMAIN tasks
  /\ \A j \in DOMAIN tasks : tasks'[j].on = tasks[j].on /\ tasks'[j].cmd = tasks[j].cmd
  /\ \/ GoesOn(i) /\ Over(tasks') = Over(tasks)
     \/ Ends(i) /\ Over(tasks') = Over(tasks) \cup {i}
  /\ i \notin Over(tasks)

LEMMA LanesKept ==
  ASSUME Typed, Scheduled, NEW i \in DOMAIN tasks, GoesOn(i) \/ Ends(i)
  PROVE  TasksGoOn(i)
<1>1. tasks \in Seq(Tasks) /\ WithinSlots(tasks) /\ InTurn(tasks) /\ Running(tasks[i])
  BY DEF Typed, Scheduled, GoesOn, Ends
<1>2. CASE GoesOn(i)
  <2>1. PICK step \in Calls : tasks' = Placed(tasks, i, step) BY <1>2 DEF GoesOn, Goto, Placed
  <2>2. step \in {"done"} \cup Calls /\ step # "done" BY DEF Calls
  <2>3. /\ tasks' \in Seq(Tasks) /\ DOMAIN tasks' = DOMAIN tasks
        /\ \A j \in DOMAIN tasks : tasks'[j].cmd = tasks[j].cmd /\ tasks'[j].on = tasks[j].on
        /\ WithinSlots(tasks') /\ InTurn(tasks') /\ Over(tasks') = Over(tasks) /\ i \notin Over(tasks)
    <3>1. PICK us : us = Placed(tasks, i, step) OBVIOUS
    <3>2. /\ us \in Seq(Tasks) /\ DOMAIN us = DOMAIN tasks
          /\ \A j \in DOMAIN tasks : us[j].cmd = tasks[j].cmd /\ us[j].on = tasks[j].on
          /\ WithinSlots(us) /\ InTurn(us) /\ i \notin Over(tasks)
          /\ Over(us) = Over(tasks) \cup (IF step = "done" THEN {i} ELSE {})
      BY <1>1, <2>2, <3>1, Replaced
    <3> QED BY <2>1, <2>2, <3>1, <3>2
  <2>4. Len(tasks') = Len(tasks) BY <1>1, <2>3
  <2> QED BY <1>2, <2>3, <2>4 DEF TasksGoOn
<1>3. CASE Ends(i)
  <2>1. PICK us : us = Placed(tasks, i, "done") OBVIOUS
  <2>2. /\ us \in Seq(Tasks) /\ DOMAIN us = DOMAIN tasks
        /\ \A j \in DOMAIN tasks : us[j].cmd = tasks[j].cmd /\ us[j].on = tasks[j].on
        /\ WithinSlots(us) /\ InTurn(us) /\ Over(us) = Over(tasks) \cup {i} /\ i \notin Over(tasks)
    BY <1>1, <2>1, Replaced
  <2>3. tasks' = Pumped(us) BY <1>3, <2>1 DEF Ends, Placed
  <2>4. WithinSlots(tasks') /\ InTurn(tasks') /\ Over(tasks') = Over(us)
    BY <2>2, <2>3, PumpedKeepsLanes
  <2>5. /\ \A j \in DOMAIN us : tasks'[j].cmd = us[j].cmd /\ tasks'[j].on = us[j].on
        /\ DOMAIN tasks' = DOMAIN us
    BY <2>2, <2>3, PumpedAt, <1>1
  <2>6. tasks' \in Seq(Tasks) BY <2>2, <2>3, PumpedPumps DEF Pumps
  <2>7. Len(tasks') = Len(tasks) BY <1>1, <2>2, <2>5, <2>6
  <2> QED BY <1>3, <2>2, <2>4, <2>5, <2>7 DEF TasksGoOn
<1> QED BY <1>2, <1>3

\* A number of connections that a fault, or a task that ends, pays for.
LEMMA CallCounted ==
  ASSUME Typed, Scheduled, NEW i \in DOMAIN tasks, Call(i) \/ Read(i) \/ Refuse(i)
  PROVE  Counted'
<1>0. TasksGoOn(i) BY CallGoes, LanesKept
<1>1. carrier' = carrier /\ faults' \in {faults, faults + 1} /\ faults' \in 0 .. MaxFaults
  <2>1. carrier' = carrier
    BY DEF Call, List, Create, Name, Look, Prompt, View, Compare, Write, Announce, Read, Refuse, ipc
  <2>2. faults' = faults \/ Fault
    BY DEF Call, List, Create, Name, Look, Prompt, View, Compare, Write, Announce, Read, Refuse
  <2>3. faults \in 0 .. MaxFaults /\ MaxFaults \in Nat
    BY ConnectorAssumption DEF Scheduled, Counted, ConnectorAssumption
  <2> QED BY <2>1, <2>2, <2>3 DEF Fault
<1>2. phase' = phase \/ (phase = "proving" /\ phase' = "down" /\ Ends(i))
  <2>1. CASE Announce(i)
    <3>1. Ends(i) BY <2>1 DEF Announce, Finish, Ends, Running
    <3> QED BY <2>1, <3>1 DEF Announce
  <2>2. CASE List(i) \/ Create(i) \/ Name(i) \/ Look(i) \/ Prompt(i) \/ View(i) \/ Compare(i) \/ Write(i)
             \/ Read(i) \/ Refuse(i)
    BY <2>2 DEF List, Create, Name, Look, Prompt, View, Compare, Write, Read, Refuse, ipc
  <2> QED BY <2>1, <2>2 DEF Call
<1>3. \A S \in SUBSET DOMAIN tasks : IsFiniteSet(S) /\ Cardinality(S) \in Nat BY FewTasks DEF Typed
<1>4. Over(tasks) \subseteq DOMAIN tasks BY DEF Over
<1>5. /\ Cardinality(Over(tasks)) \in Nat /\ Cardinality(Over(tasks')) \in Nat
      /\ Cardinality(Over(tasks')) >= Cardinality(Over(tasks))
      /\ phase' # phase => Cardinality(Over(tasks')) = Cardinality(Over(tasks)) + 1
  <2>1. IsFiniteSet(Over(tasks)) /\ Cardinality(Over(tasks)) \in Nat BY <1>3, <1>4
  <2>2. /\ i \notin Over(tasks)
        /\ Cardinality(Over(tasks) \cup {i}) = Cardinality(Over(tasks)) + 1
    BY <1>0, <2>1, FS_AddElement DEF TasksGoOn
  <2>3. ~(GoesOn(i) /\ Over(tasks') = Over(tasks)) => Over(tasks') = Over(tasks) \cup {i}
    BY <1>0 DEF TasksGoOn
  <2>4. phase' # phase => ~GoesOn(i)
    <3> SUFFICES ASSUME phase' # phase, GoesOn(i) PROVE FALSE OBVIOUS
    <3>1. Over(tasks') = Over(tasks) \/ Over(tasks') = Over(tasks) \cup {i} BY <1>0 DEF TasksGoOn
    <3>2. PICK step \in Calls : tasks' = [tasks EXCEPT ![i].at = step] BY DEF GoesOn, Goto
    <3>3. i \notin Over(tasks')
      <4>1. tasks[i] \in Tasks BY DEF Typed
      <4>2. [tasks[i] EXCEPT !.at = step].at = step BY <4>1 DEF Tasks
      <4>3. tasks'[i].at = step /\ step # "done" BY <3>2, <4>2 DEF Calls, Typed
      <4> QED BY <4>3 DEF Over
    <3>4. i \in Over(tasks')
      <4>1. tasks' = Pumped([tasks EXCEPT ![i].at = "done"]) /\ Running(tasks[i]) BY <1>2 DEF Ends
      <4>2. tasks \in Seq(Tasks) /\ WithinSlots(tasks) /\ InTurn(tasks) BY DEF Typed, Scheduled
      <4>3. PICK us : us = Placed(tasks, i, "done") OBVIOUS
      <4>4. us \in Seq(Tasks) /\ WithinSlots(us) /\ InTurn(us) /\ Over(us) = Over(tasks) \cup {i}
        BY <4>1, <4>2, <4>3, Replaced
      <4>5. Over(tasks') = Over(us)
        <5>1. tasks' = Pumped(us) BY <4>1, <4>3 DEF Placed
        <5> QED BY <4>4, <5>1, PumpedKeepsLanes
      <4> QED BY <4>4, <4>5
    <3> QED BY <3>3, <3>4
  <2>5. CASE GoesOn(i) /\ Over(tasks') = Over(tasks) BY <2>1, <2>4, <2>5
  <2>6. CASE Over(tasks') = Over(tasks) \cup {i} BY <2>1, <2>2, <2>6
  <2> QED BY <2>3, <2>5, <2>6
<1>6. \A j \in DOMAIN tasks' : tasks'[j].on \in 1 .. carrier'
  BY <1>0, <1>1 DEF TasksGoOn, Scheduled, Counted
<1>7. Len(tasks') <= MaxTasks BY <1>0 DEF TasksGoOn, Scheduled, Counted
<1>8. carrier \in Nat /\ faults \in Nat BY DEF Typed, Scheduled, Counted
<1>9. /\ phase' \in {"down", "proving", "up"} /\ (phase' # "down" => carrier' >= 1)
      /\ carrier' + (IF phase' = "down" THEN 1 ELSE 0) <= faults' + Cardinality(Over(tasks')) + 1
  BY <1>1, <1>2, <1>5, <1>8 DEF Scheduled, Counted
<1> QED BY <1>1, <1>6, <1>7, <1>9 DEF Counted

LEMMA CallNames ==
  ASSUME Typed, TasksInOrder, Scheduled, NEW i \in DOMAIN tasks, Call(i) \/ Read(i) \/ Refuse(i)
  PROVE  NamesExist'
<1>0. TasksGoOn(i) BY CallGoes, LanesKept
<1>a. tasks \in Seq(Tasks) /\ tasks[i] \in Tasks BY DEF Typed
<1>1. tasks \in Seq(Tasks) /\ tasks[i] \in Tasks /\ tasks[i].cmd \in Commands BY <1>a DEF Tasks
<1>2. \A j \in DOMAIN tasks : tasks[j] \in Tasks /\ First(tasks[j].cmd) # "name" BY <1>1 DEF First
<1>3. sessions \subseteq sessions' /\ sessions' \subseteq Creates
  <2>1. CASE Create(i)
    <3>1. tasks[i].cmd \in Creates BY <2>1 DEF Create, TasksInOrder, TaskInOrder
    <3> QED BY <2>1, <3>1 DEF Create, Scheduled, NamesExist
  <2>2. CASE sessions' = sessions BY <2>2 DEF Scheduled, NamesExist
  <2>3. Create(i) \/ sessions' = sessions
    BY DEF Call, List, Name, Look, Prompt, View, Compare, Write, Announce, Read, Refuse, dsh
  <2> QED BY <2>1, <2>2, <2>3
<1>4. named' \subseteq sessions'
  <2>1. CASE Name(i)
    <3>1. tasks[i].cmd \in sessions BY <2>1 DEF Name, Scheduled, NamesExist
    <3> QED BY <1>3, <2>1, <3>1 DEF Name, Scheduled, NamesExist
  <2>2. CASE named' = named BY <1>3, <2>2 DEF Scheduled, NamesExist
  <2>3. Name(i) \/ named' = named
    BY DEF Call, List, Create, Look, Prompt, View, Compare, Write, Announce, Read, Refuse, dsh
  <2> QED BY <2>1, <2>2, <2>3
<1>5. \A j \in DOMAIN tasks : tasks'[j].at = "name" => tasks[j].at = "name" \/ (j = i /\ Goto(i, "name"))
  <2>1. CASE GoesOn(i)
    <3>1. PICK step \in Calls : Goto(i, step) BY <2>1 DEF GoesOn
    <3>2. Moves(i, step) BY <3>1, GotoMoves
    <3>3. \A j \in DOMAIN tasks : tasks'[j].at = "name" => tasks[j].at = "name" \/ (j = i /\ step = "name")
      BY <1>2, <3>2 DEF Moves
    <3> QED BY <3>1, <3>3
  <2>2. CASE Ends(i)
    <3>1. PICK us : us = Placed(tasks, i, "done") OBVIOUS
    <3>2. /\ us \in Seq(Tasks) /\ DOMAIN us = DOMAIN tasks
          /\ \A j \in DOMAIN tasks : us[j].cmd = tasks[j].cmd /\ us[j].at = IF j = i THEN "done" ELSE tasks[j].at
      BY <1>1, <2>2, <3>1, Replaced DEF Scheduled, Ends
    <3>3. Pumps(tasks', us) BY <2>2, <3>1, <3>2, PumpedPumps DEF Ends, Placed
    <3> QED BY <1>2, <3>2, <3>3 DEF Pumps
  <2> QED BY <2>1, <2>2, CallGoes
<1>6. Goto(i, "name") => tasks[i].cmd \in sessions'
  <2>0. SUFFICES ASSUME Goto(i, "name") PROVE tasks[i].cmd \in sessions' OBVIOUS
  <2>1. [tasks[i] EXCEPT !.at = "name"].at = "name" BY <1>1 DEF Tasks
  <2>2. tasks'[i].at = "name" BY <1>1, <2>0, <2>1 DEF Goto
  <2>3. ASSUME NEW step \in Calls \ {"name"} PROVE ~Goto(i, step)
    <3>1. [tasks[i] EXCEPT !.at = step].at = step BY <1>1 DEF Tasks
    <3> QED BY <1>1, <2>2, <2>3, <3>1 DEF Goto
  <2>4. ASSUME NEW status PROVE ~Finish(i, status)
    <3>1. SUFFICES ASSUME Finish(i, status) PROVE FALSE OBVIOUS
    <3>2. Moves(i, "done") BY <3>1, FinishMoves
    <3> QED BY <2>2, <3>2 DEF Moves
  <2>5. \A step \in {"create", "look", "view", "prompt", "write", "announce"} : ~Continue(i, step)
    BY <2>3 DEF Continue, Calls
  <2>6. CASE List(i) BY <2>5, <2>6, <1>3 DEF List
  <2>7. CASE Create(i) BY <2>7 DEF Create
  <2>8. CASE Name(i) \/ Look(i) \/ Prompt(i) \/ View(i) BY <2>4, <2>5, <2>8 DEF Name, Look, Prompt, View
  <2>9. CASE Compare(i) \/ Write(i) \/ Announce(i) BY <2>4, <2>5, <2>9 DEF Compare, Write, Announce
  <2>10. CASE Read(i) \/ Refuse(i) BY <2>4, <2>10 DEF Read, Refuse
  <2> QED BY <2>6, <2>7, <2>8, <2>9, <2>10 DEF Call
<1>7. \A j \in DOMAIN tasks' : tasks'[j].at = "name" => tasks'[j].cmd \in sessions'
  BY <1>0, <1>3, <1>5, <1>6 DEF TasksGoOn, Scheduled, NamesExist
<1> QED BY <1>3, <1>4, <1>7 DEF NamesExist

\* The settings only grow.
LEMMA SettingsGrow ==
  ASSUME Typed, ReadBefore, base' = base,
         settings' = settings \/ \E w : settings' = Append(settings, w)
  PROVE  ReadBefore'
<1>1. Len(settings) \in Nat /\ Len(settings') \in Nat /\ Len(settings') >= Len(settings) BY DEF Typed
<1> QED BY <1>1 DEF ReadBefore

LEMMA CallScheduled ==
  ASSUME IInv, Scheduled, NEW i \in DOMAIN tasks, Call(i) \/ Read(i) \/ Refuse(i)
  PROVE  Scheduled'
<1>0. Typed /\ TasksInOrder BY DEF IInv
<1>1. TasksGoOn(i) BY <1>0, CallGoes, LanesKept
<1>2. WithinSlots(tasks)' /\ InTurn(tasks)' BY <1>1 DEF TasksGoOn
<1>3. Counted' /\ NamesExist' BY <1>0, CallCounted, CallNames
<1>4. base' = base
  BY DEF Call, List, Create, Name, Look, Prompt, View, Compare, Write, Announce, Read, Refuse
<1>5. settings' = settings \/ \E w : settings' = Append(settings, w)
  BY DEF Call, List, Create, Name, Look, Prompt, View, Compare, Write, Announce, Read, Refuse, dsh
<1>6. ReadBefore' BY <1>0, <1>4, <1>5, SettingsGrow DEF Scheduled
<1> QED BY <1>2, <1>3, <1>6 DEF Scheduled

LEMMA DeliverScheduled ==
  ASSUME IInv, Scheduled, NEW c \in Commands, Deliver(c)
  PROVE  Scheduled'
<1>0. Typed /\ tasks \in Seq(Tasks) /\ Len(tasks) \in Nat /\ WithinSlots(tasks) /\ InTurn(tasks)
  BY DEF IInv, Typed, Scheduled
<1>1. /\ phase = "up" /\ Len(tasks) < MaxTasks /\ tasks' = Pumped(Append(tasks, Task(c)))
      /\ UNCHANGED <<phase, carrier, faults, settings, sessions, named>>
  BY DEF Deliver, ipc, dsh
<1>2. PICK t : t = Task(c) OBVIOUS
<1>3. t \in Tasks /\ t.cmd = c /\ t.at = "queued" /\ t.on = carrier /\ ~Running(t)
  BY <1>0, <1>2 DEF Task, Tasks, Places, Typed, Running
<1>4. PICK us : us = Append(tasks, t) OBVIOUS
<1>5. /\ us \in Seq(Tasks) /\ Len(us) = Len(tasks) + 1 /\ DOMAIN us = 1 .. Len(tasks) + 1
      /\ DOMAIN tasks = 1 .. Len(tasks)
      /\ \A j \in DOMAIN tasks : us[j] = tasks[j]
      /\ us[Len(tasks) + 1] = t
  BY <1>0, <1>3, <1>4
<1>6. \A j \in DOMAIN us : j = Len(tasks) + 1 \/ j \in DOMAIN tasks BY <1>5
<1>7. \A j \in DOMAIN tasks : Beside(us, j) \subseteq Beside(tasks, j) \cup {Len(tasks) + 1}
  BY <1>5, <1>6 DEF Beside
<1>8. InTurn(us)
  <2> SUFFICES ASSUME NEW k \in DOMAIN us, us[k].at = "queued", NEW j \in Beside(us, k), j > k
               PROVE  us[j].at = "queued"
    BY DEF InTurn
  <2>1. j \in DOMAIN us BY DEF Beside
  <2>2. CASE j = Len(tasks) + 1 BY <1>3, <1>5, <2>2
  <2>3. CASE j \in DOMAIN tasks
    <3>1. k \in DOMAIN tasks BY <1>5, <2>3
    <3>2. j \in Beside(tasks, k) BY <1>5, <2>3, <3>1 DEF Beside
    <3> QED BY <1>0, <1>5, <2>3, <3>1, <3>2 DEF InTurn
  <2> QED BY <1>6, <2>1, <2>2, <2>3
<1>9. WithinSlots(us)
  <2> SUFFICES ASSUME NEW k \in DOMAIN us
               PROVE  Cardinality(Busy(us, k)) <= Slots(Lane(us[k].cmd))
    BY DEF WithinSlots
  <2>1. Busy(us, k) \subseteq DOMAIN tasks /\ \A j \in Busy(us, k) : Running(tasks[j])
    <3> SUFFICES ASSUME NEW j \in Busy(us, k) PROVE j \in DOMAIN tasks /\ Running(tasks[j]) OBVIOUS
    <3>1. j \in DOMAIN us /\ Running(us[j]) BY DEF Busy, Beside
    <3>2. j # Len(tasks) + 1 BY <1>3, <1>5, <3>1
    <3> QED BY <1>5, <1>6, <3>1, <3>2
  <2>2. CASE Busy(us, k) = {}
    <3>1. Cardinality(Busy(us, k)) = 0 BY <2>2, FS_EmptySet
    <3> QED BY <3>1, SlotsAreNumbers
  <2>3. CASE Busy(us, k) # {}
    <3>1. PICK m : m \in Busy(us, k) BY <2>3
    <3>2. m \in DOMAIN tasks /\ us[m].on = us[k].on /\ Lane(us[m].cmd) = Lane(us[k].cmd)
      BY <2>1, <3>1 DEF Busy, Beside
    <3>3. Busy(us, k) \subseteq Busy(tasks, m)
      <4> SUFFICES ASSUME NEW j \in Busy(us, k) PROVE j \in Busy(tasks, m) OBVIOUS
      <4>1. j \in DOMAIN tasks /\ Running(tasks[j]) BY <2>1
      <4>2. us[j].on = us[k].on /\ Lane(us[j].cmd) = Lane(us[k].cmd) BY DEF Busy, Beside
      <4> QED BY <1>5, <3>2, <4>1, <4>2 DEF Busy, Beside
    <3>4. Busy(tasks, m) \subseteq DOMAIN tasks BY DEF Busy, Beside
    <3>5. IsFiniteSet(Busy(tasks, m)) /\ Cardinality(Busy(tasks, m)) \in Nat /\ Cardinality(Busy(us, k)) \in Nat
      BY <1>0, <2>1, <3>4, FewTasks
    <3>6. Cardinality(Busy(us, k)) <= Cardinality(Busy(tasks, m)) BY <3>3, <3>5, FS_Subset
    <3>7. Cardinality(Busy(tasks, m)) <= Slots(Lane(tasks[m].cmd)) BY <1>0, <3>2 DEF WithinSlots
    <3>8. Lane(tasks[m].cmd) = Lane(us[k].cmd) BY <1>5, <3>2
    <3> QED BY <3>5, <3>6, <3>7, <3>8, SlotsAreNumbers
  <2> QED BY <2>2, <2>3
<1>10. WithinSlots(tasks') /\ InTurn(tasks') /\ Over(tasks') = Over(us)
  BY <1>1, <1>2, <1>4, <1>5, <1>8, <1>9, PumpedKeepsLanes
<1>11. /\ DOMAIN tasks' = DOMAIN us /\ tasks' \in Seq(Tasks)
       /\ \A j \in DOMAIN us : /\ tasks'[j].cmd = us[j].cmd /\ tasks'[j].on = us[j].on
                               /\ tasks'[j].at = us[j].at \/ tasks'[j].at = First(us[j].cmd)
  <2>1. tasks' = Pumped(us) BY <1>1, <1>2, <1>4
  <2>2. Pumps(tasks', us) BY <1>5, <2>1, PumpedPumps
  <2> QED BY <1>5, <2>1, <2>2, PumpedAt DEF Pumps
<1>12. Over(us) = Over(tasks)
  <2>1. \A j \in DOMAIN us : us[j].at = "done" <=> (j \in DOMAIN tasks /\ tasks[j].at = "done")
    <3> SUFFICES ASSUME NEW j \in DOMAIN us
                 PROVE  us[j].at = "done" <=> (j \in DOMAIN tasks /\ tasks[j].at = "done")
      OBVIOUS
    <3>1. CASE j = Len(tasks) + 1 BY <1>3, <1>5, <3>1
    <3>2. CASE j \in DOMAIN tasks BY <1>5, <3>2
    <3> QED BY <1>6, <3>1, <3>2
  <2>2. DOMAIN tasks \subseteq DOMAIN us BY <1>5
  <2> QED BY <2>1, <2>2 DEF Over
<1>13. Counted'
  <2>1. Len(tasks') = Len(tasks) + 1 BY <1>5, <1>11
  <2>2. MaxTasks \in Nat BY ConnectorAssumption DEF ConnectorAssumption
  <2>3. carrier \in Nat /\ carrier >= 1 BY <1>0, <1>1 DEF Scheduled, Counted, Typed
  <2>4. \A j \in DOMAIN us : us[j].on \in 1 .. carrier
    <3> SUFFICES ASSUME NEW j \in DOMAIN us PROVE us[j].on \in 1 .. carrier OBVIOUS
    <3>1. CASE j = Len(tasks) + 1 BY <1>3, <1>5, <2>3, <3>1
    <3>2. CASE j \in DOMAIN tasks BY <1>5, <3>2 DEF Scheduled, Counted
    <3> QED BY <1>6, <3>1, <3>2
  <2>5. \A j \in DOMAIN tasks' : tasks'[j].on \in 1 .. carrier' BY <1>1, <1>11, <2>4
  <2>6. Len(tasks') <= MaxTasks BY <1>0, <1>1, <2>1, <2>2
  <2>7. Over(tasks') = Over(tasks) BY <1>10, <1>12
  <2> QED BY <1>1, <2>5, <2>6, <2>7 DEF Scheduled, Counted
<1>14. NamesExist'
  <2>1. \A j \in DOMAIN us : us[j].at = "name" => us[j].cmd \in sessions
    <3> SUFFICES ASSUME NEW j \in DOMAIN us, us[j].at = "name" PROVE us[j].cmd \in sessions OBVIOUS
    <3>1. j # Len(tasks) + 1 BY <1>3, <1>5
    <3> QED BY <1>5, <1>6, <3>1 DEF Scheduled, NamesExist
  <2>2. \A x : First(x) # "name" BY DEF First
  <2> QED BY <1>1, <1>11, <2>1, <2>2 DEF Scheduled, NamesExist
<1>15. ReadBefore'
  <2>1. Len(settings) \in 0 .. Len(settings) BY <1>0 DEF Typed
  <2>2. base' = base \/ base' = [base EXCEPT ![c] = Len(settings)] BY DEF Deliver
  <2> QED BY <1>1, <2>1, <2>2 DEF Scheduled, ReadBefore
<1> QED BY <1>10, <1>13, <1>14, <1>15 DEF Scheduled

LEMMA OutsideScheduled ==
  ASSUME IInv, Scheduled, Connect \/ Accepted \/ Lose \/ LocalWrite
  PROVE  Scheduled'
<1>0. Typed /\ MaxFaults \in Nat BY ConnectorAssumption DEF IInv, ConnectorAssumption
<1>1. UNCHANGED <<tasks, base, sessions, named>> BY DEF Connect, Accepted, Lose, LocalWrite, dsh
<1>2. WithinSlots(tasks)' /\ InTurn(tasks)' /\ NamesExist' /\ Over(tasks)' = Over(tasks)
  BY <1>1 DEF Scheduled, NamesExist
<1>3. ReadBefore'
  <2>1. settings' = settings \/ \E w : settings' = Append(settings, w)
    BY DEF Connect, Accepted, Lose, LocalWrite, dsh
  <2> QED BY <1>0, <1>1, <2>1, SettingsGrow DEF Scheduled
<1>4. Cardinality(Over(tasks)) \in Nat
  <2>1. Over(tasks) \subseteq DOMAIN tasks BY DEF Over
  <2> QED BY <1>0, <2>1, FewTasks DEF Typed
<1>5. carrier \in Nat /\ faults \in Nat BY <1>0 DEF Typed, Scheduled, Counted
<1>6. Counted'
  <2>0. Counted /\ Cardinality(Over(tasks')) = Cardinality(Over(tasks)) /\ tasks' = tasks
    BY <1>1, <1>2 DEF Scheduled
  <2>1. CASE Connect
    <3>1. phase = "down" /\ phase' = "proving" /\ carrier' = carrier + 1 /\ faults' = faults BY <2>1 DEF Connect
    <3>2. \A j \in DOMAIN tasks : tasks[j].on \in 1 .. carrier + 1 BY <1>5, <2>0 DEF Counted
    <3> QED BY <1>4, <1>5, <2>0, <3>1, <3>2 DEF Counted
  <2>2. CASE Accepted
    <3>1. phase = "proving" /\ phase' = "up" /\ carrier' = carrier /\ faults' = faults BY <2>2 DEF Accepted
    <3> QED BY <2>0, <3>1 DEF Counted
  <2>3. CASE Lose
    <3>1. phase # "down" /\ phase' = "down" /\ carrier' = carrier /\ faults < MaxFaults /\ faults' = faults + 1
      BY <2>3 DEF Lose, Fault
    <3> QED BY <1>0, <1>4, <1>5, <2>0, <3>1 DEF Counted
  <2>4. CASE LocalWrite
    <3>1. UNCHANGED <<phase, carrier, faults>> BY <2>4 DEF LocalWrite, ipc
    <3> QED BY <2>0, <3>1 DEF Counted
  <2> QED BY <2>1, <2>2, <2>3, <2>4
<1> QED BY <1>2, <1>3, <1>6 DEF Scheduled

LEMMA ScheduledStep == IInv /\ Scheduled /\ [Next]_vars => Scheduled'
<1> SUFFICES ASSUME IInv, Scheduled, [Next]_vars PROVE Scheduled' OBVIOUS
<1>1. CASE UNCHANGED vars
  BY <1>1 DEF vars, ipc, dsh, Scheduled, Counted, NamesExist, ReadBefore
<1> QED BY <1>1, CallScheduled, DeliverScheduled, OutsideScheduled DEF Next

LEMMA ScheduledInit == Init => Scheduled
<1> SUFFICES ASSUME Init PROVE Scheduled OBVIOUS
<1>1. Over(tasks) = {} BY DEF Init, Over
<1>2. Cardinality(Over(tasks)) = 0 BY <1>1, FS_EmptySet
<1>3. MaxFaults \in Nat /\ MaxTasks \in Nat BY ConnectorAssumption DEF ConnectorAssumption
<1>4. Counted BY <1>2, <1>3 DEF Init, Counted
<1>5. WithinSlots(tasks) /\ InTurn(tasks) /\ NamesExist /\ ReadBefore
  BY DEF Init, WithinSlots, InTurn, NamesExist, ReadBefore
<1> QED BY <1>4, <1>5 DEF Scheduled

\* The scheduler of index.ts: on every connection each lane runs at most as many
\* tasks as it has slots and starts them in the order of their arrival; sessions
\* are named only after they exist, and a connection costs a fault or an execution.
THEOREM LanesKeepTheirSlots == Spec => []TypeOK
<1>1. Spec => []Scheduled BY ConnectorInvariant, ScheduledInit, ScheduledStep, PTL DEF Spec
<1>2. IInv /\ Scheduled => TypeOK
  <2> SUFFICES ASSUME IInv, Scheduled PROVE TypeOK OBVIOUS
  <2>1. tasks \in Seq(Tasks) /\ Typed BY DEF IInv, Typed
  <2>2. Cardinality(Over(tasks)) \in Nat /\ Cardinality(Over(tasks)) <= Len(tasks) /\ Len(tasks) \in Nat
    <3>1. Over(tasks) \subseteq DOMAIN tasks BY DEF Over
    <3> QED BY <2>1, <3>1, FewTasks
  <2>3. carrier \in 0 .. MaxFaults + MaxTasks + 1
    <3>1. MaxFaults \in Nat /\ MaxTasks \in Nat BY ConnectorAssumption DEF ConnectorAssumption
    <3>2. /\ carrier \in Nat /\ faults \in 0 .. MaxFaults /\ Len(tasks) <= MaxTasks
          /\ carrier + (IF phase = "down" THEN 1 ELSE 0) <= faults + Cardinality(Over(tasks)) + 1
      BY DEF Scheduled, Counted, IInv, Typed
    <3> QED BY <2>2, <3>1, <3>2
  <2>4. tasks \in Seq([cmd : Commands, on : 1 .. carrier, at : {"queued", "done"} \cup Calls])
    <3>1. ASSUME NEW i \in DOMAIN tasks
          PROVE  tasks[i] \in [cmd : Commands, on : 1 .. carrier, at : {"queued", "done"} \cup Calls]
      <4>1. tasks[i] \in Tasks BY <2>1
      <4>2. tasks[i].on \in 1 .. carrier BY DEF Scheduled, Counted
      <4> QED BY <4>1, <4>2 DEF Tasks, Places
    <3>2. tasks = [i \in 1 .. Len(tasks) |-> tasks[i]] /\ Len(tasks) \in Nat /\ DOMAIN tasks = 1 .. Len(tasks)
      BY <2>1
    <3> DEFINE S == [cmd : Commands, on : 1 .. carrier, at : {"queued", "done"} \cup Calls]
    <3>3. \A i \in 1 .. Len(tasks) : tasks[i] \in S BY <3>1, <3>2
    <3> HIDE DEF S
    <3>4. tasks \in Seq(S) BY <3>2, <3>3
    <3> QED BY <3>4 DEF S
  <2>5. /\ answer \in [Commands -> {"none", "ok", "refused", "error"}]
        /\ settings \in Seq(Updates \cup {Local}) /\ prompted \in [Prompts -> Nat]
    BY <2>1 DEF Typed
  <2>6. /\ phase \in {"down", "proving", "up"} /\ base \in [Commands -> 0 .. Len(settings)]
        /\ named \subseteq sessions /\ sessions \subseteq Creates
    BY DEF Scheduled, Counted, NamesExist, ReadBefore
  <2>7. \A i \in DOMAIN tasks :
          /\ Cardinality({j \in Beside(tasks, i) : Running(tasks[j])}) <= Slots(Lane(tasks[i].cmd))
          /\ tasks[i].at = "queued" => \A j \in Beside(tasks, i) : j > i => tasks[j].at = "queued"
    BY DEF Scheduled, WithinSlots, InTurn, Busy
  <2> QED BY <2>3, <2>4, <2>5, <2>6, <2>7 DEF TypeOK
<1> QED BY <1>1, <1>2, ConnectorInvariant, PTL

-----------------------------------------------------------------------------
(* Transfers: the inductive invariant *)

FewReceivers == IsFiniteSet(receivers)

\* A credential that fits the provider of the moment.
Fits(c) == /\ provider \in Transfers => c = provider
           /\ provider = None => c = None

\* What a write has done to the credential, and what it would give back.
WriteCanBeUndone ==
  ~torn =>
    /\ at \in {"idle", "resolve"} => Fits(credential)
    /\ at = "set" => Fits(credential) /\ before = credential
    /\ at = "mutate" => Fits(before) /\ credential = Current
    /\ at = "undo" => Fits(before) /\ credential \in {before, Current}

\* While the configuration is at the revision a write has seen, its provider is
\* one the write may replace.
SeenIsCurrent ==
  at # "idle" => /\ seen <= revision
                 /\ seen = revision => provider = None \/ Current \in Replacing

\* The requests of a transfer: one prepare, and nothing after it is cancelled.
CancelIsLast ==
  /\ \A t \in Transfers : hub[t] = "idle" =>
       t \notin cancelled /\ \A i \in DOMAIN requests : requests[i].transfer # t
  /\ \A i \in DOMAIN requests : requests[i].op = "prepare" =>
       /\ requests[i].transfer \notin cancelled
       /\ \A k \in DOMAIN requests : k < i => requests[k] # Request(requests[i].transfer, "cancel")
  /\ cancelled \cap receivers = {}

TransferIInv == TransferTypeOK /\ FewReceivers /\ WriteCanBeUndone /\ SeenIsCurrent /\ CancelIsLast

-----------------------------------------------------------------------------
LEMMA Apart == Replacing \subseteq Transfers /\ None \notin Transfers /\ Editor \notin Transfers
BY TransferAssumption DEF TransferAssumption

LEMMA HeadTail ==
  ASSUME NEW S, NEW q \in Seq(S), q # <<>>
  PROVE  Head(q) \in S /\ Tail(q) \in Seq(S) /\ Head(q) = q[1] /\ 1 \in DOMAIN q
OBVIOUS

\* Removing receivers keeps them few.
LEMMA Fewer ==
  ASSUME TransferTypeOK, FewReceivers, NEW R \in SUBSET receivers
  PROVE  IsFiniteSet(R) /\ Cardinality(R) <= MaxReceivers
<1>1. MaxReceivers \in Nat BY TransferAssumption DEF TransferAssumption
<1>2. IsFiniteSet(R) /\ Cardinality(R) <= Cardinality(receivers)
  BY FS_Subset DEF FewReceivers
<1>3. Cardinality(R) \in Nat /\ Cardinality(receivers) \in Nat
  BY <1>2, FS_CardinalityType DEF FewReceivers
<1> QED BY <1>1, <1>2, <1>3 DEF TransferTypeOK

LEMMA OneMore ==
  ASSUME TransferTypeOK, FewReceivers, HasRoom, NEW t \in Transfers
  PROVE  IsFiniteSet(receivers \cup {t}) /\ Cardinality(receivers \cup {t}) <= MaxReceivers
<1>1. MaxReceivers \in Nat BY TransferAssumption DEF TransferAssumption
<1>2. Cardinality(receivers) \in Nat BY FS_CardinalityType DEF FewReceivers
<1>3. /\ IsFiniteSet(receivers \cup {t})
      /\ Cardinality(receivers \cup {t}) \in {Cardinality(receivers), Cardinality(receivers) + 1}
  BY FS_AddElement DEF FewReceivers
<1> QED BY <1>1, <1>2, <1>3 DEF HasRoom

LEMMA TransferInitHolds == TransferInit => TransferIInv
<1> SUFFICES ASSUME TransferInit PROVE TransferIInv OBVIOUS
<1>1. IsFiniteSet({}) /\ Cardinality({}) = 0 BY FS_EmptySet
<1>2. MaxReceivers \in Nat BY TransferAssumption DEF TransferAssumption
<1>3. TransferTypeOK BY <1>1, <1>2 DEF TransferInit, TransferTypeOK, Writers
<1>4. FewReceivers /\ SeenIsCurrent /\ CancelIsLast
  BY <1>1 DEF TransferInit, FewReceivers, SeenIsCurrent, CancelIsLast
<1>5. WriteCanBeUndone BY Apart DEF TransferInit, WriteCanBeUndone, Fits
<1> QED BY <1>3, <1>4, <1>5 DEF TransferIInv

-----------------------------------------------------------------------------
(* Transfers: types *)

\* The writer's step ends, and its reply is under way.
LEMMA EndedIsTyped ==
  ASSUME TransferTypeOK, writing # <<>>, NEW ok \in BOOLEAN, Ended(ok)
  PROVE  /\ writing' \in Seq(Transfers) /\ at' = "idle" /\ seen' \in Nat /\ before' \in Writers
         /\ replies' \subseteq [transfer : Transfers, op : Ops, ok : BOOLEAN]
<1>1. Current \in Transfers /\ Tail(writing) \in Seq(Transfers) BY DEF TransferTypeOK, Current
<1>2. Reply(Current, "apply", ok) \in [transfer : Transfers, op : Ops, ok : BOOLEAN]
  BY <1>1 DEF Reply, Ops
<1> QED BY <1>1, <1>2 DEF TransferTypeOK, Ended, Say, Writers

\* Asking and closing lengthen the queue of requests.
LEMMA AskIsTyped ==
  ASSUME TransferTypeOK, NEW t \in Transfers, NEW op \in Ops
  PROVE  Append(requests, Request(t, op)) \in Seq([transfer : Transfers, op : Ops])
<1>1. Request(t, op) \in [transfer : Transfers, op : Ops] BY DEF Request, Ops
<1> QED BY <1>1 DEF TransferTypeOK

HubStates == {"idle", "prepare", "export", "apply", "ok", "failed"}

LEMMA CloseIsTyped ==
  ASSUME TransferTypeOK, NEW t \in Transfers, NEW o \in {"ok", "failed"}, Close(t, o)
  PROVE  /\ hub' \in [Transfers -> HubStates]
         /\ requests' \in Seq([transfer : Transfers, op : Ops])
<1>1. Append(requests, Request(t, "cancel")) \in Seq([transfer : Transfers, op : Ops])
  BY AskIsTyped DEF Ops
<1> QED BY <1>1 DEF TransferTypeOK, Close, HubStates

LEMMA HubIsTyped ==
  ASSUME TransferTypeOK, FewReceivers, NEW t \in Transfers,
         Start(t) \/ Exported(t) \/ ExportFails(t) \/ TimedOut(t) \/ Expire(t)
  PROVE  TransferTypeOK' /\ FewReceivers'
<1>1. \A op \in Ops : Append(requests, Request(t, op)) \in Seq([transfer : Transfers, op : Ops])
  BY AskIsTyped
<1>2. CASE Start(t) \/ Exported(t)
  BY <1>1, <1>2 DEF Start, Exported, Ask, TransferTypeOK, FewReceivers, connector, writer, target, Ops
<1>3. CASE ExportFails(t) \/ TimedOut(t)
  <2>1. /\ hub' \in [Transfers -> HubStates]
        /\ requests' \in Seq([transfer : Transfers, op : Ops])
    BY <1>3, CloseIsTyped DEF ExportFails, TimedOut
  <2> QED BY <1>3, <2>1 DEF ExportFails, TimedOut, TransferTypeOK, FewReceivers, connector, writer, target, HubStates
<1>4. CASE Expire(t)
  <2>1. IsFiniteSet(receivers \ {t}) /\ Cardinality(receivers \ {t}) <= MaxReceivers BY Fewer
  <2> QED BY <1>4, <2>1 DEF Expire, TransferTypeOK, FewReceivers, wire, writer, target
<1> QED BY <1>2, <1>3, <1>4

LEMMA AnsweredIsTyped ==
  ASSUME TransferTypeOK, FewReceivers, NEW r \in replies, Answered(r)
  PROVE  TransferTypeOK' /\ FewReceivers'
<1> DEFINE t == r.transfer
<1>1. t \in Transfers BY DEF TransferTypeOK
<1>2. /\ hub' \in [Transfers -> HubStates]
      /\ requests' \in Seq([transfer : Transfers, op : Ops])
  <2>1. CASE hub[t] # r.op BY <2>1 DEF Answered, TransferTypeOK, HubStates
  <2>2. CASE hub[t] = r.op /\ (~r.ok \/ r.op = "apply")
    <3>1. Close(t, "failed") \/ Close(t, "ok") BY <2>2 DEF Answered
    <3> QED BY <1>1, <3>1, CloseIsTyped
  <2>3. CASE hub[t] = r.op /\ r.ok /\ r.op # "apply"
    BY <1>1, <2>3 DEF Answered, TransferTypeOK, HubStates
  <2> QED BY <2>1, <2>2, <2>3
<1>3. replies' \subseteq replies /\ UNCHANGED <<connector, target, torn, faults>> BY DEF Answered
<1> QED BY <1>2, <1>3 DEF TransferTypeOK, FewReceivers, connector, writer, target, HubStates

LEMMA HandleIsTyped ==
  ASSUME TransferTypeOK, FewReceivers, Handle
  PROVE  TransferTypeOK' /\ FewReceivers'
<1> DEFINE r == Head(requests)  t == Head(requests).transfer
<1>0. /\ Head(requests) \in [transfer : Transfers, op : Ops]
      /\ Tail(requests) \in Seq([transfer : Transfers, op : Ops])
  <2>1. requests \in Seq([transfer : Transfers, op : Ops]) /\ requests # <<>> BY DEF Handle, TransferTypeOK
  <2> QED BY <2>1, HeadTail
<1>1. t \in Transfers /\ requests' \in Seq([transfer : Transfers, op : Ops])
  BY <1>0 DEF Handle
<1>2. CASE Prepare(t)
  <2>1. Reply(t, "prepare", HasRoom) \in [transfer : Transfers, op : Ops, ok : BOOLEAN]
    BY <1>1 DEF Reply, Ops, HasRoom
  <2>2. replies' \subseteq [transfer : Transfers, op : Ops, ok : BOOLEAN]
    BY <1>2, <2>1 DEF Prepare, Say, TransferTypeOK
  <2>3. IsFiniteSet(receivers') /\ receivers' \subseteq Transfers /\ Cardinality(receivers') <= MaxReceivers
    BY <1>1, <1>2, OneMore DEF Prepare, TransferTypeOK, FewReceivers
  <2> QED BY <1>1, <1>2, <2>2, <2>3 DEF Handle, Prepare, TransferTypeOK, FewReceivers, writer, target
<1>3. CASE Apply(t)
  <2>1. writing' \in Seq(Transfers) /\ writing' # <<>> BY <1>1, <1>3 DEF Apply, TransferTypeOK
  <2> QED BY <1>1, <1>3, <2>1 DEF Handle, Apply, TransferTypeOK, FewReceivers, writer, target
<1>4. CASE Cancel(t)
  <2>1. IsFiniteSet(receivers \ {t}) /\ Cardinality(receivers \ {t}) <= MaxReceivers BY Fewer
  <2> QED BY <1>1, <1>4, <2>1 DEF Handle, Cancel, TransferTypeOK, FewReceivers, writer, target
<1> QED BY <1>2, <1>3, <1>4 DEF Handle

LEMMA BeginIsTyped ==
  ASSUME TransferTypeOK, FewReceivers, Begin
  PROVE  TransferTypeOK' /\ FewReceivers'
<1>1. writing # <<>> /\ Current \in Transfers BY DEF Begin, TransferTypeOK, Current
<1>2. IsFiniteSet(receivers \ {Current}) /\ Cardinality(receivers \ {Current}) <= MaxReceivers BY Fewer
<1>3. CASE Ended(TRUE) \/ Ended(FALSE)
  <2>1. /\ writing' \in Seq(Transfers) /\ at' = "idle" /\ seen' \in Nat /\ before' \in Writers
        /\ replies' \subseteq [transfer : Transfers, op : Ops, ok : BOOLEAN]
    BY <1>1, <1>3, EndedIsTyped
  <2> QED BY <1>2, <2>1 DEF Begin, TransferTypeOK, FewReceivers, target
<1>4. CASE at' = "resolve" /\ seen' = revision /\ UNCHANGED <<writing, before, replies>>
  BY <1>1, <1>2, <1>4 DEF Begin, TransferTypeOK, FewReceivers, target
<1> QED BY <1>3, <1>4 DEF Begin

\* The steps of the writer that end a write, and the ones that go on with it.
LEMMA WriterIsTyped ==
  ASSUME TransferTypeOK, FewReceivers,
         Resolve \/ Set \/ Mutate \/ Refused \/ Undo \/ UndoFails \/ ResolveFails
  PROVE  TransferTypeOK' /\ FewReceivers'
<1>1. at # "idle" BY DEF Resolve, Set, Mutate, Refused, Undo, UndoFails, ResolveFails
<1>2. writing # <<>> /\ Current \in Transfers /\ {Current, before, credential, provider} \subseteq Writers
  BY <1>1 DEF TransferTypeOK, Current, Writers
<1>3. CASE Ended(TRUE) \/ Ended(FALSE)
  <2>1. /\ writing' \in Seq(Transfers) /\ at' = "idle" /\ seen' \in Nat /\ before' \in Writers
        /\ replies' \subseteq [transfer : Transfers, op : Ops, ok : BOOLEAN]
    BY <1>2, <1>3, EndedIsTyped
  <2>2. {provider', credential'} \subseteq Writers /\ revision' \in Nat
    <3>1. revision \in Nat BY DEF TransferTypeOK
    <3>2. CASE Mutate 
      <4>1. provider' \in {provider, Current} /\ revision' \in {revision, revision + 1} /\ credential' = credential
        BY <3>2 DEF Mutate
      <4> QED BY <1>2, <3>1, <4>1
    <3>3. CASE Undo BY <1>2, <3>1, <3>3 DEF Undo, Reverted
    <3>4. CASE Set BY <1>2, <3>1, <3>4 DEF Set
    <3>5. CASE Resolve \/ Refused \/ UndoFails \/ ResolveFails
      BY <1>2, <3>1, <3>5 DEF Resolve, Refused, UndoFails, ResolveFails, target
    <3> QED BY <3>2, <3>3, <3>4, <3>5
  <2>3. UNCHANGED <<hub, requests, receivers, cancelled>>
    BY DEF Resolve, Set, Mutate, Refused, Undo, UndoFails, ResolveFails, wire
  <2> QED BY <2>1, <2>2, <2>3 DEF TransferTypeOK, FewReceivers
<1>4. CASE ~(Ended(TRUE) \/ Ended(FALSE))
  <2>1. at' \in {"set", "mutate", "undo"} /\ UNCHANGED <<hub, requests, replies, receivers, cancelled, writing, seen>>
    BY <1>4 DEF Resolve, Set, Mutate, Refused, Undo, UndoFails, ResolveFails, wire
  <2>2. {provider', credential', before'} \subseteq Writers /\ revision' = revision
    BY <1>2, <1>4 DEF Resolve, Set, Mutate, Refused, Undo, UndoFails, ResolveFails, target, TransferTypeOK
  <2> QED BY <1>2, <2>1, <2>2 DEF TransferTypeOK, FewReceivers
<1> QED BY <1>3, <1>4

LEMMA TypesStep == TransferTypeOK /\ FewReceivers /\ [TransferNext]_transferVars => TransferTypeOK' /\ FewReceivers'
<1> SUFFICES ASSUME TransferTypeOK, FewReceivers, [TransferNext]_transferVars PROVE TransferTypeOK' /\ FewReceivers' OBVIOUS
<1>1. CASE \E t \in Transfers : Start(t) \/ Exported(t) \/ ExportFails(t) \/ TimedOut(t) \/ Expire(t)
  BY <1>1, HubIsTyped
<1>2. CASE \E r \in replies : Answered(r) BY <1>2, AnsweredIsTyped
<1>3. CASE Handle BY <1>3, HandleIsTyped
<1>4. CASE Disconnected
  BY <1>4 DEF Disconnected, TransferTypeOK, FewReceivers, connector, writer, target
<1>5. CASE Crash
  <2>1. IsFiniteSet({}) /\ Cardinality({}) <= MaxReceivers BY Fewer
  <2> QED BY <1>5, <2>1 DEF Crash, TransferTypeOK, FewReceivers, wire, target, Writers
<1>6. CASE LocalEdit
  BY <1>6 DEF LocalEdit, TransferTypeOK, FewReceivers, wire, connector, writer, Writers
<1>7. CASE Begin BY <1>7, BeginIsTyped
<1>8. CASE Resolve \/ Set \/ Mutate \/ Refused \/ Undo \/ UndoFails \/ ResolveFails
  BY <1>8, WriterIsTyped
<1>9. CASE UNCHANGED transferVars
  BY <1>9 DEF transferVars, wire, connector, writer, target, TransferTypeOK, FewReceivers
<1> QED BY <1>1, <1>2, <1>3, <1>4, <1>5, <1>6, <1>7, <1>8, <1>9 DEF TransferNext

-----------------------------------------------------------------------------
(* Transfers: the writer *)

\* While a write is under way its transfer stays at the head of the queue.
LEMMA HeadStays ==
  ASSUME NEW S, NEW q \in Seq(S), NEW x \in S, q # <<>>
  PROVE  Append(q, x) # <<>> /\ Head(Append(q, x)) = Head(q)
OBVIOUS

\* What everybody but the writer does leaves the write where it is.
Elsewhere ==
  /\ UNCHANGED <<at, seen, before, credential, torn>>
  /\ \/ UNCHANGED <<provider, revision>>
     \/ provider' = Editor /\ revision' = revision + 1
  /\ at # "idle" => Current' = Current

LEMMA OthersAreElsewhere ==
  ASSUME TransferTypeOK,
         \/ \E t \in Transfers : Start(t) \/ Exported(t) \/ ExportFails(t) \/ TimedOut(t) \/ Expire(t)
         \/ \E r \in replies : Answered(r)
         \/ Disconnected \/ Handle \/ LocalEdit \/ UNCHANGED transferVars
  PROVE  Elsewhere
<1>1. CASE \E t \in Transfers : Start(t) \/ Exported(t) \/ ExportFails(t) \/ TimedOut(t) \/ Expire(t)
  BY <1>1 DEF Start, Exported, ExportFails, TimedOut, Expire, Elsewhere, connector, writer, target, Current
<1>2. CASE (\E r \in replies : Answered(r)) \/ Disconnected \/ LocalEdit
  BY <1>2 DEF Answered, Disconnected, LocalEdit, Elsewhere, connector, writer, target, Current
<1>3. CASE Handle
  <2> DEFINE t == Head(requests).transfer
  <2>1. requests \in Seq([transfer : Transfers, op : Ops]) /\ requests # <<>> BY <1>3 DEF Handle, TransferTypeOK
  <2>6. Head(requests) \in [transfer : Transfers, op : Ops] BY <2>1, HeadTail
  <2>2. t \in Transfers BY <2>6
  <2>3. UNCHANGED <<writer, target, torn>> BY <1>3 DEF Handle
  <2>4. writing' \in {writing, Append(writing, t)} BY <1>3 DEF Handle, Prepare, Apply, Cancel
  <2>5. at # "idle" => Current' = Current
    BY <2>2, <2>4, HeadStays DEF TransferTypeOK, Current
  <2> QED BY <2>3, <2>5 DEF Elsewhere, writer, target
<1>4. CASE UNCHANGED transferVars BY <1>4 DEF transferVars, Elsewhere, connector, writer, target, Current
<1> QED BY <1>1, <1>2, <1>3, <1>4

LEMMA WriteStep ==
  ASSUME TransferTypeOK, WriteCanBeUndone, [TransferNext]_transferVars
  PROVE  WriteCanBeUndone'
<1> USE Apart
<1>0. Current' = Head(writing') /\ (at # "idle" => Current \in Transfers)
  BY DEF Current, TransferTypeOK
<1>1. CASE Elsewhere
  <2>1. UNCHANGED <<at, before, credential, torn>> /\ (at # "idle" => Current' = Current)
    BY <1>1 DEF Elsewhere
  <2>2. \A c : Fits(c) => (provider' \in Transfers => c = provider') /\ (provider' = None => c = None)
    BY <1>1 DEF Elsewhere, Fits, Editor, None
  <2>3. Fits(credential) => Fits(credential)' BY <2>1, <2>2 DEF Fits
  <2>4. Fits(before) => Fits(before)' BY <2>1, <2>2 DEF Fits
  <2> QED BY <2>1, <2>3, <2>4 DEF WriteCanBeUndone
<1>2. CASE Begin
  <2>1. at = "idle" /\ at' \in {"idle", "resolve"} /\ UNCHANGED <<provider, credential, torn>>
    BY <1>2 DEF Begin, Ended, target
  <2> QED BY <2>1 DEF WriteCanBeUndone, Fits
<1>3. CASE Resolve
  <2>1. /\ at = "resolve" /\ at' = "set" /\ before' = credential
        /\ UNCHANGED <<provider, credential, torn>>
    BY <1>3 DEF Resolve, target
  <2> QED BY <2>1 DEF WriteCanBeUndone, Fits
<1>4. CASE Set
  <2>1. /\ at = "set" /\ at' = "mutate" /\ credential' = Current /\ Current' = Current
        /\ UNCHANGED <<provider, before, torn>>
    BY <1>4 DEF Set, Current
  <2> QED BY <2>1 DEF WriteCanBeUndone, Fits
<1>5. CASE Mutate
  <2>1. at = "mutate" /\ UNCHANGED <<credential, torn>> BY <1>5 DEF Mutate
  <2>2. CASE StillCurrent
    <3>1. at' = "idle" /\ provider' = Current BY <1>5, <2>2 DEF Mutate, Ended
    <3> QED BY <1>0, <2>1, <3>1 DEF WriteCanBeUndone, Fits
  <2>3. CASE ~StillCurrent
    <3>1. at' = "undo" /\ UNCHANGED <<provider, before>> /\ Current' = Current
      BY <1>5, <2>3 DEF Mutate, Current
    <3> QED BY <2>1, <3>1 DEF WriteCanBeUndone, Fits
  <2> QED BY <2>2, <2>3
<1>6. CASE Refused
  <2>1. /\ at \in {"set", "mutate"} /\ at' = "undo" /\ Current' = Current
        /\ UNCHANGED <<provider, credential, before, torn>>
    BY <1>6 DEF Refused, target, Current
  <2> QED BY <2>1 DEF WriteCanBeUndone, Fits
<1>7. CASE Undo
  <2>1. /\ at = "undo" /\ at' = "idle" /\ credential' = Reverted /\ UNCHANGED <<provider, torn>>
    BY <1>7 DEF Undo, Ended
  <2> QED BY <2>1 DEF WriteCanBeUndone, Fits, Reverted
<1>8. CASE UndoFails
  <2>1. /\ at = "undo" /\ at' = "idle" /\ torn' = (torn \/ credential = Current)
        /\ UNCHANGED <<provider, credential>>
    BY <1>8 DEF UndoFails, Ended, target
  <2> QED BY <2>1 DEF WriteCanBeUndone, Fits
<1>9. CASE ResolveFails
  <2>1. at = "resolve" /\ at' = "idle" /\ UNCHANGED <<provider, credential, torn>>
    BY <1>9 DEF ResolveFails, Ended, target
  <2> QED BY <2>1 DEF WriteCanBeUndone, Fits
<1>10. CASE Crash
  <2>1. /\ at' = "idle" /\ torn' = (torn \/ at \in {"mutate", "undo"})
        /\ UNCHANGED <<provider, credential>>
    BY <1>10 DEF Crash, target
  <2>2. at \in {"idle", "resolve", "set", "mutate", "undo"} BY DEF TransferTypeOK
  <2> QED BY <2>1, <2>2 DEF WriteCanBeUndone, Fits
<1> QED BY <1>1, <1>2, <1>3, <1>4, <1>5, <1>6, <1>7, <1>8, <1>9, <1>10, OthersAreElsewhere DEF TransferNext

LEMMA SeenStep ==
  ASSUME TransferTypeOK, SeenIsCurrent, [TransferNext]_transferVars
  PROVE  SeenIsCurrent'
<1>0. {revision, seen} \subseteq Nat BY DEF TransferTypeOK
<1>1. CASE Elsewhere
  <2>1. CASE UNCHANGED <<provider, revision>> BY <1>1, <2>1 DEF Elsewhere, SeenIsCurrent
  <2>2. CASE provider' = Editor /\ revision' = revision + 1
    BY <1>0, <1>1, <2>2 DEF Elsewhere, SeenIsCurrent
  <2> QED BY <1>1, <2>1, <2>2 DEF Elsewhere
<1>2. CASE Begin
  <2>1. UNCHANGED <<provider, revision>> BY <1>2 DEF Begin, target
  <2>2. CASE at' = "idle" BY <2>2 DEF SeenIsCurrent
  <2>3. CASE at' # "idle"
    <3>1. seen' = revision /\ (provider = None \/ Current \in Replacing) /\ Current' = Current
      BY <1>2, <2>3 DEF Begin, Ended, Current
    <3> QED BY <1>0, <2>1, <3>1 DEF SeenIsCurrent
  <2> QED BY <2>2, <2>3
<1>3. CASE at # "idle" /\ (at' = "idle" \/ UNCHANGED <<seen, revision, provider, writing>>)
  BY <1>3 DEF SeenIsCurrent, Current
<1>4. CASE Resolve \/ Set \/ Mutate \/ Refused \/ Undo \/ UndoFails \/ ResolveFails
  BY <1>3, <1>4 DEF Resolve, Set, Mutate, Refused, Undo, UndoFails, ResolveFails, Ended, target
<1>5. CASE Crash BY <1>5 DEF Crash, SeenIsCurrent
<1> QED BY <1>1, <1>2, <1>4, <1>5, OthersAreElsewhere DEF TransferNext

-----------------------------------------------------------------------------
(* Transfers: what was cancelled *)

LEMMA AppendIndex ==
  ASSUME NEW S, NEW q \in Seq(S), NEW x \in S, NEW i \in DOMAIN Append(q, x)
  PROVE  \/ i \in DOMAIN q /\ Append(q, x)[i] = q[i]
         \/ i = Len(q) + 1 /\ Append(q, x)[i] = x /\ \A k \in DOMAIN q : k < i
OBVIOUS

LEMMA TailIndex ==
  ASSUME NEW S, NEW q \in Seq(S), q # <<>>, NEW i \in DOMAIN Tail(q)
  PROVE  i + 1 \in DOMAIN q /\ Tail(q)[i] = q[i + 1] /\ 1 \in DOMAIN q /\ Head(q) = q[1] /\ 1 < i + 1
OBVIOUS

\* A request of a transfer that has begun, and was not prepared by it, lengthens
\* the queue.
LEMMA AskedLater ==
  ASSUME TransferTypeOK, CancelIsLast, NEW t \in Transfers, NEW op \in Ops \ {"prepare"},
         requests' = Append(requests, Request(t, op)),
         \A u \in Transfers : hub'[u] = "idle" => hub[u] = "idle" /\ u # t,
         cancelled' = cancelled, receivers' \subseteq receivers
  PROVE  CancelIsLast'
<1> DEFINE R == [transfer : Transfers, op : Ops]  x == Request(t, op)
<1>1. requests \in Seq(R) BY DEF TransferTypeOK
<1>2. x \in R /\ x.transfer = t /\ x.op # "prepare" BY DEF Request
<1>3. \A i \in DOMAIN requests' :
        \/ i \in DOMAIN requests /\ requests'[i] = requests[i]
        \/ requests'[i] = x /\ \A k \in DOMAIN requests : k < i
  BY <1>1, <1>2, AppendIndex
<1>4. \A i, k \in DOMAIN requests' :
        requests'[i].op = "prepare" /\ k < i => k \in DOMAIN requests /\ requests'[k] = requests[k]
  <2> SUFFICES ASSUME NEW i \in DOMAIN requests', NEW k \in DOMAIN requests',
                      requests'[i].op = "prepare", k < i
               PROVE  k \in DOMAIN requests /\ requests'[k] = requests[k]
    OBVIOUS
  <2>1. i \in DOMAIN requests BY <1>2, <1>3
  <2>2. i \in Nat /\ k \in Nat BY <1>1, <1>2
  <2> QED BY <1>3, <2>1, <2>2
<1> QED BY <1>2, <1>3, <1>4 DEF CancelIsLast

LEMMA StartedFirst ==
  ASSUME TransferTypeOK, CancelIsLast, NEW t \in Transfers, Start(t)
  PROVE  CancelIsLast'
<1> DEFINE R == [transfer : Transfers, op : Ops]  x == Request(t, "prepare")
<1>1. requests \in Seq(R) BY DEF TransferTypeOK
<1>2. x \in R /\ x.transfer = t BY DEF Request, Ops
<1>3. hub[t] = "idle" /\ requests' = Append(requests, x) /\ UNCHANGED <<cancelled, receivers>>
  BY DEF Start, Ask, connector
<1>4. \A i \in DOMAIN requests' :
        \/ i \in DOMAIN requests /\ requests'[i] = requests[i]
        \/ requests'[i] = x /\ i = Len(requests) + 1
  BY <1>1, <1>2, <1>3, AppendIndex
<1>5. \A u \in Transfers : hub'[u] = "idle" => hub[u] = "idle" /\ u # t
  BY DEF Start, Ask, TransferTypeOK
<1>6. t \notin cancelled /\ \A i \in DOMAIN requests : requests[i].transfer # t
  BY <1>3 DEF CancelIsLast
<1>7. \A i, k \in DOMAIN requests' : k < i => k \in DOMAIN requests /\ requests'[k] = requests[k]
  BY <1>1, <1>2, <1>3, <1>4
<1>8. \A i \in DOMAIN requests : requests[i] # Request(t, "cancel") BY <1>6 DEF Request
<1> QED BY <1>2, <1>3, <1>4, <1>5, <1>6, <1>7, <1>8 DEF CancelIsLast

LEMMA HandledInOrder ==
  ASSUME TransferTypeOK, CancelIsLast, Handle
  PROVE  CancelIsLast'
<1> DEFINE R == [transfer : Transfers, op : Ops]  r == Head(requests)  t == Head(requests).transfer
<1>1. requests \in Seq(R) /\ requests # <<>> /\ requests' = Tail(requests) /\ hub' = hub
  BY DEF Handle, TransferTypeOK
<1>2. r \in R /\ r = requests[1] /\ 1 \in DOMAIN requests BY <1>1, HeadTail
<1>3. \A i \in DOMAIN requests' :
        i + 1 \in DOMAIN requests /\ requests'[i] = requests[i + 1] /\ 1 < i + 1 /\ i \in Nat
  BY <1>1, TailIndex
<1>4. hub[t] # "idle" BY <1>2 DEF CancelIsLast
<1>5. \A i \in DOMAIN requests' : requests'[i].op = "prepare" =>
        /\ requests'[i].transfer \notin cancelled
        /\ r # Request(requests'[i].transfer, "cancel")
        /\ \A k \in DOMAIN requests' : k < i => requests'[k] # Request(requests'[i].transfer, "cancel")
  <2> SUFFICES ASSUME NEW i \in DOMAIN requests', requests'[i].op = "prepare"
               PROVE  /\ requests'[i].transfer \notin cancelled
                      /\ r # Request(requests'[i].transfer, "cancel")
                      /\ \A k \in DOMAIN requests' : k < i => requests'[k] # Request(requests'[i].transfer, "cancel")
    OBVIOUS
  <2>1. i + 1 \in DOMAIN requests /\ requests'[i] = requests[i + 1] BY <1>3
  <2>2. /\ requests'[i].transfer \notin cancelled
        /\ \A k \in DOMAIN requests : k < i + 1 => requests[k] # Request(requests'[i].transfer, "cancel")
    BY <2>1 DEF CancelIsLast
  <2>3. \A k \in DOMAIN requests' : k < i => k + 1 \in DOMAIN requests /\ k + 1 < i + 1 /\ requests'[k] = requests[k + 1]
    BY <1>3
  <2> QED BY <1>2, <1>3, <2>2, <2>3
<1>6. \A u \in Transfers : hub'[u] = "idle" =>
        u \notin cancelled /\ u # t /\ \A i \in DOMAIN requests' : requests'[i].transfer # u
  BY <1>1, <1>3, <1>4 DEF CancelIsLast
<1>7. CASE r.op = "prepare" /\ Prepare(t)
  <2>1. t \notin cancelled BY <1>2, <1>7 DEF CancelIsLast
  <2>2. cancelled' = cancelled /\ receivers' \subseteq receivers \cup {t} BY <1>7 DEF Prepare
  <2> QED BY <1>5, <1>6, <2>1, <2>2 DEF CancelIsLast
<1>8. CASE r.op = "apply" /\ Apply(t)
  <2>1. UNCHANGED <<cancelled, receivers>> BY <1>8 DEF Apply
  <2> QED BY <1>5, <1>6, <2>1 DEF CancelIsLast
<1>9. CASE r.op = "cancel" /\ Cancel(t)
  <2>1. cancelled' = cancelled \cup {t} /\ receivers' = receivers \ {t} BY <1>9 DEF Cancel
  <2>2. r = Request(t, "cancel") BY <1>2, <1>9 DEF Request
  <2>3. \A i \in DOMAIN requests' : requests'[i].op = "prepare" => requests'[i].transfer # t
    BY <1>5, <2>2
  <2> QED BY <1>5, <1>6, <2>1, <2>3 DEF CancelIsLast
<1> QED BY <1>7, <1>8, <1>9 DEF Handle

LEMMA CancelStep ==
  ASSUME TransferTypeOK, CancelIsLast, [TransferNext]_transferVars
  PROVE  CancelIsLast'
<1>1. CASE \E t \in Transfers : Start(t) BY <1>1, StartedFirst
<1>2. ASSUME NEW t \in Transfers, NEW o \in {"ok", "failed"}, Close(t, o),
             hub[t] \in {"prepare", "export", "apply"}, UNCHANGED connector
      PROVE  CancelIsLast'
  <2>1. \A u \in Transfers : hub'[u] = "idle" => hub[u] = "idle" /\ u # t
    BY <1>2 DEF Close, TransferTypeOK
  <2>2. UNCHANGED <<cancelled, receivers>> BY <1>2 DEF connector
  <2>3. CASE requests' = requests BY <2>1, <2>2, <2>3 DEF CancelIsLast
  <2>4. CASE requests' = Append(requests, Request(t, "cancel"))
    BY <2>1, <2>2, <2>4, AskedLater DEF Ops
  <2> QED BY <1>2, <2>3, <2>4 DEF Close
<1>3. CASE \E t \in Transfers : Exported(t)
  <2> PICK t \in Transfers : Exported(t) BY <1>3
  <2>1. \A u \in Transfers : hub'[u] = "idle" => hub[u] = "idle" /\ u # t
    BY DEF Exported, Ask, TransferTypeOK
  <2> QED BY <2>1, AskedLater DEF Exported, Ask, connector, Ops
<1>4. CASE \E t \in Transfers : ExportFails(t) \/ TimedOut(t)
  BY <1>2, <1>4 DEF ExportFails, TimedOut
<1>5. CASE \E r \in replies : Answered(r)
  <2> PICK r \in replies : Answered(r) BY <1>5
  <2>1. r.transfer \in Transfers /\ r.op \in Ops BY DEF TransferTypeOK
  <2>2. UNCHANGED connector BY DEF Answered
  <2>3. CASE hub[r.transfer] # r.op
    BY <2>2, <2>3 DEF Answered, connector, CancelIsLast
  <2>4. CASE hub[r.transfer] = r.op /\ (~r.ok \/ r.op = "apply")
    <3>1. hub[r.transfer] \in {"prepare", "export", "apply"} BY <2>1, <2>4 DEF Ops, TransferTypeOK
    <3>2. Close(r.transfer, "failed") \/ Close(r.transfer, "ok") BY <2>4 DEF Answered
    <3> QED BY <1>2, <2>1, <2>2, <3>1, <3>2
  <2>5. CASE hub[r.transfer] = r.op /\ r.ok /\ r.op # "apply"
    <3>1. requests' = requests /\ hub' = [hub EXCEPT ![r.transfer] = "export"] BY <2>5 DEF Answered
    <3>2. \A u \in Transfers : hub'[u] = "idle" => hub[u] = "idle" BY <2>1, <3>1 DEF TransferTypeOK
    <3> QED BY <2>2, <3>1, <3>2 DEF connector, CancelIsLast
  <2> QED BY <2>3, <2>4, <2>5
<1>6. CASE Handle BY <1>6, HandledInOrder
<1>7. CASE Disconnected
  <2>1. \A u \in Transfers : hub'[u] = "idle" => hub[u] = "idle" BY <1>7 DEF Disconnected
  <2> QED BY <1>7, <2>1 DEF Disconnected, connector, CancelIsLast
<1>8. CASE UNCHANGED <<hub, requests, cancelled>> /\ receivers' \subseteq receivers
  BY <1>8 DEF CancelIsLast
<1>9. CASE (\E t \in Transfers : Expire(t)) \/ Begin \/ Crash
  BY <1>8, <1>9 DEF Expire, Begin, Crash, wire
<1>10. CASE LocalEdit \/ Resolve \/ Set \/ Mutate \/ Refused \/ Undo \/ UndoFails \/ ResolveFails \/ UNCHANGED transferVars
  BY <1>8, <1>10 DEF LocalEdit, Resolve, Set, Mutate, Refused, Undo, UndoFails, ResolveFails, transferVars, wire, connector
<1> QED BY <1>1, <1>3, <1>4, <1>5, <1>6, <1>7, <1>9, <1>10 DEF TransferNext

-----------------------------------------------------------------------------
(* Transfers: the theorems *)

LEMMA TransferInvariant == TransferSpec => []TransferIInv
<1>1. TransferIInv /\ [TransferNext]_transferVars => TransferIInv'
  BY TypesStep, WriteStep, SeenStep, CancelStep DEF TransferIInv
<1> QED BY TransferInitHolds, <1>1, PTL DEF TransferSpec

\* Every variable keeps its shape, and the Connector never holds more keys than
\* it has room for.
THEOREM TransferTypes == TransferSpec => []TransferTypeOK
<1>1. TransferIInv => TransferTypeOK BY DEF TransferIInv
<1> QED BY TransferInvariant, <1>1, PTL

\* A provider that came with a transfer has the credential of that transfer,
\* however writes, refusals and local edits follow each other.
THEOREM CredentialsFit == TransferSpec => []CredentialFits
<1>1. TransferIInv => CredentialFits BY DEF TransferIInv, WriteCanBeUndone, Fits, CredentialFits
<1> QED BY TransferInvariant, <1>1, PTL

\* A transfer that does not replace never overwrites a provider, whoever
\* configured it and whenever.
THEOREM MatchingStays == TransferSpec => MatchingIsKept
<1>1. ASSUME TransferIInv, [TransferNext]_transferVars
      PROVE  \A t \in Transfers \ Replacing : provider' = t => provider \in {None, t}
  <2> USE Apart
  <2>1. CASE Mutate
    BY <1>1, <2>1 DEF Mutate, StillCurrent, TransferIInv, SeenIsCurrent, TransferTypeOK
  <2>2. CASE Elsewhere BY <2>2 DEF Elsewhere
  <2>3. CASE Begin \/ Resolve \/ Set \/ Refused \/ Undo \/ UndoFails \/ ResolveFails \/ Crash
    BY <2>3 DEF Begin, Resolve, Set, Refused, Undo, UndoFails, ResolveFails, Crash, target
  <2> QED BY <1>1, <2>1, <2>2, <2>3, OthersAreElsewhere DEF TransferNext, TransferIInv
<1> QED BY TransferInvariant, <1>1, PTL DEF TransferSpec, MatchingIsKept

\* What the Hub has given up and cancelled is not written later, although its
\* request may still wait behind other writes.
THEOREM CancelledIsOut == TransferSpec => CancelledStaysOut
<1>1. ASSUME TransferIInv, [TransferNext]_transferVars
      PROVE  \A t \in cancelled : (at = "idle" \/ Current # t) =>
               (provider' = t => provider = t) /\ (at' # "idle" => Head(writing') # t)
  <2> SUFFICES ASSUME NEW t \in cancelled, at = "idle" \/ Current # t
               PROVE  (provider' = t => provider = t) /\ (at' # "idle" => Head(writing') # t)
    OBVIOUS
  <2> USE Apart
  <2>0. t \in Transfers /\ t \notin receivers BY <1>1 DEF TransferIInv, TransferTypeOK, CancelIsLast
  <2>1. CASE Elsewhere BY <2>0, <2>1 DEF Elsewhere, Current
  <2>2. CASE Begin
    <3>1. provider' = provider BY <2>2 DEF Begin, target
    <3>2. at' # "idle" => Usable(Current) /\ writing' = writing BY <2>2 DEF Begin, Ended
    <3> QED BY <2>0, <3>1, <3>2 DEF Usable, Current
  <2>3. CASE Mutate BY <2>3 DEF Mutate, Current, Ended
  <2>4. CASE Resolve \/ Set \/ Refused
    BY <2>4 DEF Resolve, Set, Refused, target, Current
  <2>5. CASE Undo \/ UndoFails \/ ResolveFails \/ Crash
    BY <2>5 DEF Undo, UndoFails, ResolveFails, Crash, Ended, target
  <2> QED BY <1>1, <2>1, <2>2, <2>3, <2>4, <2>5, OthersAreElsewhere DEF TransferNext, TransferIInv
<1> QED BY TransferInvariant, <1>1, PTL DEF TransferSpec, CancelledStaysOut
================================================================================
