---------------------------- MODULE FleetRequests ----------------------------
(***************************************************************************)
(* The browser's requests to the fleet (hub-server/src/server.ts): a list  *)
(* asks every online runtime at once and is put together from their        *)
(* answers and the index the Hub keeps of the others; a change goes to one *)
(* runtime.  Both dispatch commands, wait for their results under a timer  *)
(* and erase the bodies they have read.  On the way the Hub keeps what it  *)
(* knows of the order of every runtime's workspaces and archived sessions, *)
(* from lists, from results and from host frames, to tell browsers the     *)
(* order of the whole fleet.                                               *)
(*                                                                         *)
(* The two lists of a snapshot are kept alike: the model has one, as a     *)
(* set.  Every runtime has rows in the discovery index.  A runtime's       *)
(* results and host frames reach the Hub in order (ReliableChannel);       *)
(* frames a lost connection held up are not shown (RuntimeStreams).  What  *)
(* DSH does with a request is external.  Left out are the search of        *)
(* sessions, which is combined like a list and keeps no snapshot, the      *)
(* requests refused before anything is sent (502, 503) and the rewriting   *)
(* of identifiers.                                                         *)
(*                                                                         *)
(* Bounds: changes at Edited runtimes, MaxLocal of them by somebody else,  *)
(* MaxFaults lost connections, closed streams and failed commands.         *)
(***************************************************************************)
EXTENDS Integers, Sequences, SequencesExt, FiniteSets

CONSTANTS Runtimes, Ids,
          Lists,      \* requests that are aggregated
          Changes,    \* requests to one runtime
          Edited,     \* the runtimes whose rows anybody changes
          MaxLocal, MaxFaults

Requests == Lists \cup Changes

ASSUME FleetAssumption ==
  /\ Lists \cap Changes = {} /\ Edited \subseteq Runtimes
  /\ {MaxLocal, MaxFaults} \subseteq Nat

VARIABLES
  online,     \* runtimes with a connection and a row that says so
  real,       \* the rows each runtime has, in DSH
  link,       \* its frames and results on their way to the Hub
  command,    \* the Hub's row of a request's command for a runtime
  wait,       \* invokeOfficialRequest() of that command
  absent,     \* the offline targets a list found when it began
  answer,     \* what the browser was answered
  stream,     \* a browser has its host stream open
  snapshot,   \* workspaceSnapshots
  missed,     \* history: the snapshot of a runtime is older than a frame
  behind,     \* history: so is a result that has not been read yet
  local, faults

dsh == <<real, link>>
asked == <<command, wait, absent, answer>>
known == <<stream, snapshot>>
history == <<missed, behind>>
vars == <<online, dsh, asked, known, history, local, faults>>

Terminal == {"ok", "error"}
NoCommand == [status |-> "none", rows |-> {}, kept |-> FALSE]
NoAnswer == [state |-> "none", parts |-> {}]

Init ==
  /\ online = {} /\ real = [r \in Runtimes |-> {}]
  /\ link = [r \in Runtimes |-> <<>>]
  /\ command = [q \in Requests |-> [r \in Runtimes |-> NoCommand]]
  /\ wait = [q \in Requests |-> [r \in Runtimes |-> "none"]]
  /\ absent = [q \in Requests |-> {}] /\ answer = [q \in Requests |-> NoAnswer]
  /\ stream = FALSE /\ snapshot = [r \in Runtimes |-> {}]
  /\ missed = [r \in Runtimes |-> TRUE] /\ behind = {}
  /\ local = 0 /\ faults = 0

Fault == faults < MaxFaults /\ faults' = faults + 1

-----------------------------------------------------------------------------
(* The runtimes *)

Frame(kind, rows) == [type |-> "frame", kind |-> kind, rows |-> rows]
Result(q, status, rows) == [type |-> "result", of |-> q, status |-> status, rows |-> rows]
IsResult(m) == m.type = "result"

Say(r, msgs) == link' = [link EXCEPT ![r] = @ \o msgs]

\* The results among them, in their order.
Results(s) ==
  LET at == {i \in DOMAIN s : IsResult(s[i])}
      Nth(n) == CHOOSE i \in at : Cardinality({j \in at : j < i}) = n - 1
  IN [n \in 1 .. Cardinality(at) |-> s[Nth(n)]]

\* Results that are not yet read when a frame of r is seen, or lost.
Unread(r) ==
  {<<q, r>> : q \in {p \in Requests :
     wait[p][r] = "live" \/ (wait[p][r] = "sending" /\ command[p][r].status \in Terminal)}}
InLink(r) == {<<m.of, r>> : m \in {x \in ToSet(link[r]) : IsResult(x)}}

\* Somebody at the node adds, removes or archives; offline, nobody hears it.
LocalChange(r) ==
  \E i \in Ids, kind \in {"changed", "removed", "order"} :
    /\ r \in Edited /\ local < MaxLocal /\ local' = local + 1
    /\ (kind = "changed") => (i \notin real[r])
    /\ (kind = "removed") => (i \in real[r])
    /\ real' = [real EXCEPT ![r] = IF i \in @ THEN @ \ {i} ELSE @ \cup {i}]
    /\ \/ /\ r \in online
          /\ Say(r, <<Frame(kind, IF kind = "order" THEN real'[r] ELSE {i})>>)
          /\ UNCHANGED history
       \/ /\ r \notin online
          /\ missed' = [missed EXCEPT ![r] = TRUE]
          /\ behind' = behind \cup Unread(r) \cup InLink(r)
          /\ UNCHANGED link
    /\ UNCHANGED <<online, asked, known, faults>>

Unanswered(q, r) == command[q][r].status = "sent" /\ <<q, r>> \notin InLink(r)

\* DSH answers a list with its rows; a change alters them, tells every host
\* stream and answers with the new ones.  A runtime works on several at once.
Execute(q, r) ==
  /\ r \in online /\ Unanswered(q, r)
  /\ \/ /\ q \in Lists
        /\ Say(r, <<Result(q, "ok", real[r])>>) /\ UNCHANGED <<real, faults>>
     \/ /\ q \in Changes
        /\ \E i \in Ids : real' = [real EXCEPT ![r] = @ \cup {i}]
        /\ \E said \in {<<Frame("order", real'[r]), Result(q, "ok", real'[r])>>,
                        <<Result(q, "ok", real'[r]), Frame("order", real'[r])>>} : Say(r, said)
        /\ UNCHANGED faults
     \/ Fault /\ Say(r, <<Result(q, "error", {})>>) /\ UNCHANGED real
  /\ UNCHANGED <<online, asked, known, history, local>>

\* runtime.hello of a new connection.
Connect(r) ==
  /\ r \notin online /\ online' = online \cup {r}
  /\ UNCHANGED <<dsh, asked, known, history, local, faults>>

\* Frames of the lost connection are recovered, and not shown.
Disconnect(r) ==
  /\ r \in online /\ Fault /\ online' = online \ {r}
  /\ link' = [link EXCEPT ![r] = Results(@)]
  /\ LET lost == link'[r] # link[r] IN
     /\ missed' = [missed EXCEPT ![r] = @ \/ lost]
     /\ behind' = IF lost THEN behind \cup Unread(r) \cup InLink(r) ELSE behind
  /\ UNCHANGED <<real, asked, known, local>>

-----------------------------------------------------------------------------
(* invokeOfficialRequest(), waitCommand() *)

\* The rows of the commands for some runtimes, persisted and queued at once.
Dispatch(q, targets) ==
  /\ command' = [command EXCEPT ![q] =
       [r \in Runtimes |-> IF r \in targets THEN [@[r] EXCEPT !.status = "sent", !.kept = TRUE] ELSE @[r]]]
  /\ wait' = [wait EXCEPT ![q] = [r \in Runtimes |-> IF r \in targets THEN "sending" ELSE @[r]]]

\* What a result holds replaces the snapshot of its runtime.
Installed(q, r, rows) ==
  /\ snapshot' = [snapshot EXCEPT ![r] = rows]
  /\ missed' = [missed EXCEPT ![r] = <<q, r>> \in behind]
  /\ behind' = behind \ {<<q, r>>}

\* finish() and what follows it in the same turn of the event loop: the body is
\* read and erased.  A part of a list waits in memory for the others.
ReadList(q, r, status, rows) ==
  /\ q \in Lists
  /\ wait' = [wait EXCEPT ![q][r] = IF status = "ok" THEN "live" ELSE "failed"]
  /\ command' = [command EXCEPT ![q][r] = [status |-> status, rows |-> rows, kept |-> FALSE]]
  /\ UNCHANGED <<answer, snapshot, history>>
\* A change updates the snapshot of its runtime; a refusal goes back as DSH's own.
ReadChange(q, r, status, rows) ==
  /\ q \in Changes
  /\ wait' = [wait EXCEPT ![q][r] = "read"]
  /\ command' = [command EXCEPT ![q][r] = [status |-> status, rows |-> {}, kept |-> FALSE]]
  /\ \/ /\ status = "ok" /\ Installed(q, r, rows)
        /\ answer' = [answer EXCEPT ![q].state = "done"]
     \/ /\ status = "error" /\ UNCHANGED <<snapshot, history>>
        /\ answer' = [answer EXCEPT ![q].state = "refused"]
Read(q, r, status, rows) == ReadList(q, r, status, rows) \/ ReadChange(q, r, status, rows)

Wait(q, r) ==
  /\ wait' = [wait EXCEPT ![q][r] = "waiting"]
  /\ UNCHANGED <<command, answer, snapshot, history>>

\* Mutant: the first look at the row is forgotten.
ListenOnly(q, r) ==
  /\ wait[q][r] = "sending" /\ Wait(q, r)
  /\ UNCHANGED <<online, dsh, absent, stream, local, faults>>
\* invoke() has awaited its flush, and the result may be there already.
Listen(q, r) ==
  /\ wait[q][r] = "sending"
  /\ IF command[q][r].status \in Terminal
     THEN Read(q, r, command[q][r].status, command[q][r].rows)
     ELSE Wait(q, r)
  /\ UNCHANGED <<online, dsh, absent, stream, local, faults>>

\* commandTimeoutProblem(): the browser has its 504, the command goes on.
Timeout(q, r) ==
  /\ wait[q][r] = "waiting"
  /\ wait' = [wait EXCEPT ![q][r] = "late"]
  /\ answer' = IF q \in Changes THEN [answer EXCEPT ![q].state = "timeout"] ELSE answer
  /\ UNCHANGED <<online, dsh, command, absent, known, history, local, faults>>

Redacted(c) == [c EXCEPT !.rows = {}, !.kept = FALSE]

\* Mutant: the maintenance forgets only what has been answered.
ForgettableAnswered == {p \in Requests \X Runtimes :
  /\ command[p[1]][p[2]].status \in Terminal /\ command[p[1]][p[2]].kept
  /\ wait[p[1]][p[2]] = "read"}
\* The periodic maintenance erases what nobody has read within five minutes,
\* which is longer than any timer.
Forgettable == {p \in Requests \X Runtimes :
  /\ command[p[1]][p[2]].status \in Terminal /\ command[p[1]][p[2]].kept
  /\ wait[p[1]][p[2]] = "late"}
Maintain ==
  /\ Forgettable # {}
  /\ command' = [q \in Requests |-> [r \in Runtimes |->
       IF <<q, r>> \in Forgettable THEN Redacted(command[q][r]) ELSE command[q][r]]]
  /\ UNCHANGED <<online, dsh, wait, absent, answer, known, history, local, faults>>

-----------------------------------------------------------------------------
(* proxyOfficialRequest(), aggregateOfficialRequest() *)

\* A change names its runtime, which has to be online.
StartChange(q, r) ==
  /\ q \in Changes /\ r \in Edited /\ answer[q].state = "none"
  /\ \/ /\ r \in online
        /\ Dispatch(q, {r}) /\ answer' = [answer EXCEPT ![q].state = "asking"]
     \/ /\ r \notin online
        /\ answer' = [answer EXCEPT ![q].state = "unavailable"]
        /\ UNCHANGED <<command, wait>>
  /\ UNCHANGED <<online, dsh, absent, known, history, local, faults>>

\* Who is asked and who is not is settled before the first await.
StartList(q) ==
  /\ q \in Lists /\ answer[q].state = "none"
  /\ Dispatch(q, online)
  /\ absent' = [absent EXCEPT ![q] = Runtimes \ online]
  /\ answer' = [answer EXCEPT ![q].state = "asking"]
  /\ UNCHANGED <<online, dsh, known, history, local, faults>>

Parts(q, states) == {r \in Runtimes : wait[q][r] \in states}

\* Mutant: the offline runtimes are looked up when the answers are there.
CachedNow(q) == (Runtimes \ online) \cup Parts(q, {"failed", "late"})
\* Rows from the discovery index: of runtimes that were offline, that failed
\* and that were too late.
Cached(q) == absent[q] \cup Parts(q, {"failed", "late"})

\* Every part has ended, Promise.all() resolves and the answer is put together.
Combine(q) ==
  /\ q \in Lists /\ answer[q].state = "asking"
  /\ Parts(q, {"sending", "waiting"}) = {}
  /\ LET live == Parts(q, {"live"})
         rows == (live \X {"live"}) \cup (Cached(q) \X {"cached"}) IN
     /\ answer' = [answer EXCEPT ![q] = [state |-> "done", parts |-> rows]]
     /\ snapshot' = [r \in Runtimes |-> IF r \in live THEN command[q][r].rows ELSE snapshot[r]]
     /\ missed' = [r \in Runtimes |-> IF r \in live THEN <<q, r>> \in behind ELSE missed[r]]
     /\ behind' = behind \ ({q} \X Runtimes)
     /\ command' = [command EXCEPT ![q] = [r \in Runtimes |-> [@[r] EXCEPT !.rows = {}]]]
     /\ wait' = [wait EXCEPT ![q] = [r \in Runtimes |-> IF r \in live THEN "read" ELSE @[r]]]
  /\ UNCHANGED <<online, dsh, absent, stream, local, faults>>

-----------------------------------------------------------------------------
(* The Hub's end of the link *)

\* processInbound(), capability.result: the row ends, once, and the event wakes
\* whoever waits for it; otherwise the body stays.
TakeResult(r) ==
  /\ r \in online /\ link[r] # <<>> /\ IsResult(Head(link[r]))
  /\ LET m == Head(link[r]) q == m.of IN
     IF command[q][r].status \in Terminal THEN UNCHANGED <<command, wait, answer, snapshot, history>>
     ELSE IF wait[q][r] = "waiting" THEN Read(q, r, m.status, m.rows)
     ELSE /\ command' = [command EXCEPT ![q][r].status = m.status, ![q][r].rows = m.rows]
          /\ UNCHANGED <<wait, answer, snapshot, history>>
  /\ link' = [link EXCEPT ![r] = Tail(@)]
  /\ UNCHANGED <<online, real, absent, stream, local, faults>>

\* Mutant: a workspace that is gone stays in the order.
AppliedKeeping(rows, m) == IF m.kind = "order" THEN m.rows ELSE rows \cup m.rows
\* updateWorkspaceHostSnapshot().
Applied(rows, m) ==
  CASE m.kind = "order" -> m.rows
    [] m.kind = "changed" -> rows \cup m.rows
    [] m.kind = "removed" -> rows \ m.rows

\* processInbound(), stream.frame: the snapshot follows it for as long as some
\* browser listens.
TakeFrame(r) ==
  /\ r \in online /\ link[r] # <<>> /\ ~IsResult(Head(link[r]))
  /\ link' = [link EXCEPT ![r] = Tail(@)]
  /\ snapshot' = IF stream THEN [snapshot EXCEPT ![r] = Applied(@, Head(link[r]))] ELSE snapshot
  /\ missed' = [missed EXCEPT ![r] = IF stream THEN @ /\ Head(link[r]).kind # "order" ELSE TRUE]
  /\ behind' = behind \cup Unread(r)
  /\ UNCHANGED <<online, real, asked, stream, local, faults>>

\* openOfficialStream(), for the host channel.
OpenStream ==
  /\ ~stream /\ online # {} /\ stream' = TRUE
  /\ UNCHANGED <<online, dsh, asked, snapshot, history, local, faults>>
CloseStream ==
  /\ stream /\ Fault /\ stream' = FALSE
  /\ UNCHANGED <<online, dsh, asked, snapshot, history, local>>

Next ==
  \/ \E r \in Runtimes : LocalChange(r) \/ Connect(r) \/ Disconnect(r)
                         \/ TakeResult(r) \/ TakeFrame(r)
  \/ \E q \in Requests, r \in Runtimes :
       \/ Execute(q, r) \/ Listen(q, r) \/ Timeout(q, r) \/ StartChange(q, r)
  \/ \E q \in Lists : StartList(q) \/ Combine(q)
  \/ Maintain \/ OpenStream \/ CloseStream

\* The process runs what is ready, its timers and its maintenance.
Fairness ==
  /\ \A q \in Requests, r \in Runtimes :
       /\ WF_vars(Listen(q, r)) /\ WF_vars(Timeout(q, r))
  /\ \A q \in Lists : WF_vars(Combine(q))
  /\ WF_vars(Maintain)

Spec == Init /\ [][Next]_vars /\ Fairness

-----------------------------------------------------------------------------
(* Properties *)

TypeOK ==
  /\ online \subseteq Runtimes /\ stream \in BOOLEAN
  /\ real \in [Runtimes -> SUBSET Ids] /\ snapshot \in [Runtimes -> SUBSET Ids]
  /\ command \in [Requests -> [Runtimes ->
       [status : Terminal \cup {"none", "sent"}, rows : SUBSET Ids, kept : BOOLEAN]]]
  /\ wait \in [Requests -> [Runtimes ->
       {"none", "sending", "waiting", "live", "failed", "late", "read"}]]
  /\ \A q \in Requests, r \in Runtimes : wait[q][r] = "live" => command[q][r].status = "ok"
  /\ absent \in [Requests -> SUBSET Runtimes]
  /\ \A q \in Requests : /\ answer[q].state \in
                              {"none", "asking", "done", "refused", "timeout", "unavailable"}
                         /\ answer[q].parts \subseteq Runtimes \X {"live", "cached"}
  /\ missed \in [Runtimes -> BOOLEAN] /\ behind \subseteq Requests \X Runtimes
  /\ local \in 0 .. MaxLocal /\ faults \in 0 .. MaxFaults

\* A request waits only for a result that is still to
\* come: none is committed between the sending of a command and the moment its
\* requester listens without that requester seeing it.
NoLostWakeup ==
  \A q \in Requests, r \in Runtimes :
    wait[q][r] = "waiting" => command[q][r].status \notin Terminal

\* Whatever connects, disconnects, fails or is late while a list is put together,
\* its answer shows every runtime of the fleet, and none twice: its own rows or
\* those of the index, never both.
EachRuntimeOnce ==
  \A q \in Lists : answer[q].state = "done" =>
    \A r \in Runtimes : Cardinality({part \in answer[q].parts : part[1] = r}) = 1

\* What the Hub tells browsers of a runtime in the order of the fleet is what the
\* runtime has, once its frames are in; unless a frame found no browser listening,
\* was lost with its connection, or came before an older result was read.
OrderIsCurrent ==
  \A r \in online : ~missed[r] /\ link[r] = <<>> => snapshot[r] = real[r]

\* The Hub forgets the body of every result, those that came too late included.
BodiesAreForgotten ==
  LET Body(q, r) == command[q][r].status \in Terminal /\ command[q][r].kept IN
  (\E q \in Requests, r \in Runtimes : Body(q, r)) ~> (\A q \in Requests, r \in Runtimes : ~Body(q, r))
=============================================================================
