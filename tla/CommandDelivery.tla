---------------------------- MODULE CommandDelivery ----------------------------
(***************************************************************************)
(* The life of a command: persisted by the Hub, queued for a Node Agent,   *)
(* dispatched to a supervisor or to a DSH Connector, answered, and settled *)
(* (hub-server/src/agents.ts, hub-storage/src/store.ts,                    *)
(* hub-node-agent/src/agent.ts, ipc-server.ts).                            *)
(*                                                                         *)
(* The reliable link is used at the level module ReliableDelivery states   *)
(* and ReliableChannel implements: two append-only logs, each read in      *)
(* order and once.  What is modelled here is everything that happens       *)
(* around them: the several transactions of a handler and the crashes      *)
(* between them, the Node Agent's connectOnce() with its recovery pass,    *)
(* message handlers that outlive the connection they came from, Connector  *)
(* sockets that vanish, and full outboxes.                                 *)
(*                                                                         *)
(* Bounds: MaxCommands limits the commands created, MaxCrashes the process *)
(* crashes, MaxDrops the sockets lost for no reason of the program.        *)
(* Dispatches are counted up to two.                                       *)
(***************************************************************************)
EXTENDS Integers, Sequences, FiniteSets

CONSTANTS
  Commands,       \* the commands that may be asked for
  Supervised,     \* those a Node supervisor executes; the rest go to DSH
  NeverRetry,     \* those whose operation is never-retry: terminal input
  HubQuota,       \* capacity of the Hub's outbox for this node
  NodeQuota,      \* capacity of the node's outbox
  MaxCommands, MaxCrashes, MaxDrops

ASSUME CommandAssumption ==
  /\ NeverRetry \subseteq Supervised /\ Supervised \subseteq Commands
  /\ IsFiniteSet(Commands) /\ MaxCommands \in Nat
  /\ HubQuota \in Nat \ {0} /\ NodeQuota \in Nat \ {0}
  /\ MaxCrashes \in Nat /\ MaxDrops \in Nat

VARIABLES
  (* Hub database *)
  status,      \* commands.status, "none" before createCommand()
  invoked,     \* log of capability.invoke bodies the Hub queued for the node
  hubGot,      \* results the Hub has accepted
  hubDone,     \* results the Hub has finished processing
  (* Node Agent database *)
  rows,        \* rows[n]: inbox state of the n-th invoke
  results,     \* log of capability.result bodies the node queued for the Hub
  acked,       \* results the node knows the Hub has accepted
  (* Node Agent process *)
  phase,       \* connectOnce(): "offline", "starting", "recovering", "open"
  alive,       \* the socket of the current connectOnce() is open
  cursor,      \* position of recoverInbound()
  tasks,       \* dispatches that await a supervisor
  pending,     \* pendingCommands: rows that await a Connector result
  deferred,    \* deferredConnectorBodies: results the full outbox refused
  (* Connector *)
  ipc,         \* an authenticated Connector is connected
  executing,   \* commands DSH executes on behalf of that connection
  (* bookkeeping *)
  starts,      \* history: dispatches of each command, counted up to 2
  crashes, drops

hub == <<status, invoked, hubGot, hubDone>>
process == <<phase, alive, cursor, tasks, pending, deferred>>
connector == <<ipc, executing>>
counters == <<crashes, drops>>
vars == <<hub, rows, results, acked, process, connector, starts, counters>>

Terminal == {"ok", "error", "outcome-unknown"}
Status == {"none", "pending", "sent"} \cup Terminal
Result == [cmd : Commands, res : Terminal]
Task == [row : Nat, by : {"handler", "recovery"}, mine : BOOLEAN]

Init ==
  /\ status = [c \in Commands |-> "none"]
  /\ invoked = <<>> /\ hubGot = 0 /\ hubDone = 0
  /\ rows = <<>> /\ results = <<>> /\ acked = 0
  /\ phase = "offline" /\ alive = FALSE /\ cursor = 0
  /\ tasks = {} /\ pending = {} /\ deferred = <<>>
  /\ ipc = TRUE /\ executing = {}
  /\ starts = [c \in Commands |-> 0]
  /\ crashes = 0 /\ drops = 0

-----------------------------------------------------------------------------
(* Ends of a connection, as the Node Agent sees them *)

\* A handler of a connection that ended goes on, but can no longer close the
\* socket of the connection that followed.
Disown(ts) == {[t EXCEPT !.mine = FALSE] : t \in ts}

\* Only the last line of connectOnce() listens for the close event: a socket
\* that closes earlier leaves connectOnce() where it is.
SocketCloses(ts) ==
  /\ alive' = FALSE
  /\ phase' = IF phase = "open" THEN "offline" ELSE phase
  /\ tasks' = IF phase = "open" THEN Disown(ts) ELSE ts
  /\ UNCHANGED cursor

\* An exception inside connectOnce() closes the socket and lets run() retry.
ConnectOnceThrows(ts) ==
  /\ alive' = FALSE /\ phase' = "offline" /\ tasks' = Disown(ts)
  /\ UNCHANGED cursor

Connected == phase # "offline" /\ alive
Hung == phase = "open" /\ ~alive

\* The message chain of a connection handles one frame at a time.
HandlerBusy == \E t \in tasks : t.by = "handler" /\ t.mine

-----------------------------------------------------------------------------
(* The Hub: createCommand, enqueue, transitionCommand *)

Queued(c) == \E n \in Len(rows) + 1 .. Len(invoked) : invoked[n] = c
HubHasRoom(log) == Len(log) - Len(rows) < HubQuota

Created == {c \in Commands : status[c] # "none"}
MayCreate(c) == status[c] = "none" /\ Cardinality(Created) < MaxCommands

\* invoke(): three transactions; the quota turns the command into an error.
Invoke(c) ==
  /\ MayCreate(c)
  /\ \/ /\ HubHasRoom(invoked)
        /\ invoked' = Append(invoked, c)
        /\ status' = [status EXCEPT ![c] = "sent"]
     \/ /\ ~HubHasRoom(invoked)
        /\ status' = [status EXCEPT ![c] = "error"]
        /\ UNCHANGED invoked
  /\ UNCHANGED <<hubGot, hubDone, rows, results, acked, process, connector,
                 starts, counters>>

\* Mutant: recovered commands are queued whether or not they already are.
RequeueAlways(s, c) ==
  IF ~HubHasRoom(s.invoked) THEN [s EXCEPT !.failed = TRUE]
  ELSE [s EXCEPT !.status[c] = "sent", !.invoked = Append(@, c)]

\* recoverCommands(), one command: queue it unless it is queued; the quota
\* throws and ends the pass.
Requeue(s, c) ==
  IF s.failed THEN s
  ELSE IF Queued(c) THEN [s EXCEPT !.status[c] = "sent"]
  ELSE IF ~HubHasRoom(s.invoked) THEN [s EXCEPT !.failed = TRUE]
  ELSE [s EXCEPT !.status[c] = "sent", !.invoked = Append(@, c)]

\* recoverCommands(), over the pending commands in their order.
RequeueAll(s) ==
  LET todo == {c \in Commands : s.status[c] = "pending"}
      order == CHOOSE f \in [1 .. Cardinality(todo) -> todo] :
                 \A i, k \in DOMAIN f : f[i] = f[k] => i = k
      pass[i \in 0 .. Cardinality(todo)] ==
        IF i = 0 THEN s ELSE Requeue(pass[i - 1], order[i])
  IN pass[Cardinality(todo)]

\* processInbound() of a result: a settled command stays as it is.
Settle(st, r) == IF st[r.cmd] \in Terminal THEN st ELSE [st EXCEPT ![r.cmd] = r.res]

HubReceive ==
  /\ Connected /\ hubGot < Len(results)
  /\ hubGot' = hubGot + 1 /\ hubDone' = hubGot + 1
  /\ status' = Settle(status, results[hubGot + 1])
  /\ UNCHANGED <<invoked, rows, results, acked, process, connector, starts,
                 counters>>

\* A stopped Hub drops its sockets.
HubStops ==
  /\ crashes < MaxCrashes /\ crashes' = crashes + 1
  /\ SocketCloses(tasks)
  /\ UNCHANGED <<rows, results, acked, pending, deferred, connector, starts,
                 drops>>

\* The Hub stops at rest, between the transactions of invoke(), or between
\* those of its message handler.
HubCrash ==
  /\ HubStops
  /\ \/ UNCHANGED hub
     \/ \E c \in Commands :
          /\ MayCreate(c)
          /\ status' = [status EXCEPT ![c] = "pending"]
          /\ invoked' \in {invoked} \cup
                          (IF HubHasRoom(invoked) THEN {Append(invoked, c)} ELSE {})
          /\ UNCHANGED <<hubGot, hubDone>>
     \/ /\ Connected /\ hubGot < Len(results) /\ hubGot' = hubGot + 1
        /\ status' \in {status, Settle(status, results[hubGot + 1])}
        /\ UNCHANGED <<invoked, hubDone>>

\* recoverInbound() on the Hub processes what its last crash left accepted.
HubRecovered == IF hubDone < hubGot THEN Settle(status, results[hubGot]) ELSE status

\* accept() and the first half of connectOnce(): the two inbound cursors are
\* exchanged, and the Hub recovers inbound rows and commands before it
\* flushes.  If that throws it closes a socket the node believes accepted.
Connect ==
  /\ phase = "offline"
  /\ LET s == RequeueAll([status |-> HubRecovered, invoked |-> invoked, failed |-> FALSE])
     IN /\ status' = s.status /\ invoked' = s.invoked
        /\ alive' = ~s.failed
  /\ hubDone' = hubGot /\ acked' = hubGot
  /\ phase' = "starting" /\ cursor' = 0
  /\ UNCHANGED <<hubGot, rows, results, tasks, pending, deferred, connector,
                 starts, counters>>

-----------------------------------------------------------------------------
(* The Node Agent's durable answers *)

\* The node's state that answering changes, as a record to compute with.
NodeState == [rows |-> rows, results |-> results, pending |-> pending]

NodeHasRoom(log) == Len(log) - acked < NodeQuota

Record(s, n, r) == [s EXCEPT !.results = Append(@, [cmd |-> invoked[n], res |-> r])]
\* Mutant: a state the inbox table does not know.
CompleteAs(s, n) == [s EXCEPT !.rows[n] = "completed"]

Complete(s, n) == [s EXCEPT !.rows[n] = "processed"]
Answer(s, n, r) == Complete(Record(s, n, r), n)

\* A result for c is still in the outbox.
Unacknowledged(c) == \E i \in acked + 1 .. Len(results) : results[i].cmd = c

\* acceptConnectorBody() of a result: answer its command if one is pending.
AcceptConnectorResult(s, r) ==
  IF \E n \in s.pending : invoked[n] = r.cmd
  THEN LET n == CHOOSE m \in s.pending : invoked[m] = r.cmd
       IN [Answer(s, n, r.res) EXCEPT !.pending = @ \ {n}]
  ELSE s

\* drainDeferredConnectorBodies(), once acknowledgements up to a are applied:
\* results are retried in order until the outbox refuses one.
DrainUpTo(a) ==
  LET Needs(s, r) == \E n \in s.pending : invoked[n] = r.cmd
      drain[i \in 0 .. Len(deferred)] ==
        IF i = 0 THEN [s |-> NodeState, left |-> <<>>]
        ELSE LET d == drain[i - 1] IN
             IF d.left # <<>> \/ (Needs(d.s, deferred[i]) /\ Len(d.s.results) - a >= NodeQuota)
             THEN [d EXCEPT !.left = Append(@, deferred[i])]
             ELSE [d EXCEPT !.s = AcceptConnectorResult(@, deferred[i])]
  IN drain[Len(deferred)]

Becomes(s) == rows' = s.rows /\ results' = s.results /\ pending' = s.pending

CountStart(c) == starts' = [starts EXCEPT ![c] = IF @ = 2 THEN 2 ELSE @ + 1]

-----------------------------------------------------------------------------
(* Dispatch: processHubInbound() *)

GiveUp(c, recovery) == recovery /\ c \in NeverRetry

\* The row is answered here and now.  A full outbox throws instead.
AnswerNow(s, n, r) ==
  /\ NodeHasRoom(s.results)
  /\ Becomes(Answer(s, n, r))
  /\ UNCHANGED <<tasks, executing, starts>>

\* The claimed row n, dispatched by its handler or by the recovery pass.  s is
\* the node's state in which the row has been claimed; recovery says whether
\* it had been claimed before.
Dispatch(s, n, by, recovery) ==
  LET c == invoked[n] IN
  \/ /\ Unacknowledged(c)
     /\ Becomes(Complete(s, n))
     /\ UNCHANGED <<tasks, executing, starts>>
  \/ /\ ~Unacknowledged(c) /\ GiveUp(c, recovery)
     /\ AnswerNow(s, n, "outcome-unknown")
  \/ /\ ~Unacknowledged(c) /\ ~GiveUp(c, recovery) /\ c \in Supervised
     /\ tasks' = tasks \cup {[row |-> n, by |-> by, mine |-> TRUE]}
     /\ CountStart(c)
     /\ Becomes(s)
     /\ UNCHANGED executing
  \/ /\ ~Unacknowledged(c) /\ c \notin Supervised /\ ipc
     /\ executing' = executing \cup {c}
     /\ CountStart(c)
     /\ Becomes([s EXCEPT !.pending = @ \cup {n}])
     /\ UNCHANGED tasks
  \/ /\ ~Unacknowledged(c) /\ c \notin Supervised /\ ~ipc
     /\ AnswerNow([s EXCEPT !.pending = @ \ {n}], n, "error")

\* The outbox refuses the answer Dispatch would record.
Refused(s, n, recovery) ==
  LET c == invoked[n] IN
  /\ ~Unacknowledged(c) /\ ~NodeHasRoom(s.results)
  /\ GiveUp(c, recovery) \/ (c \notin Supervised /\ ~ipc)

ClaimRow(s, n) == [s EXCEPT !.rows[n] = "processing"]

-----------------------------------------------------------------------------
(* Frames from the Hub *)

\* handleHubMessage() of an invoke: persist, drain deferred results, claim,
\* dispatch.  All of it up to the dispatch happens without an await.
Receive ==
  LET d == DrainUpTo(acked)
      n == Len(rows) + 1
      s == [d.s EXCEPT !.rows = Append(@, "processing")]
  IN
  /\ Connected /\ ~HandlerBusy /\ n <= Len(invoked)
  /\ deferred' = d.left
  /\ \/ /\ Dispatch(s, n, "handler", FALSE)
        /\ UNCHANGED <<phase, alive, cursor>>
     \/ /\ Refused(s, n, FALSE)
        /\ Becomes(s) /\ SocketCloses(tasks)
        /\ UNCHANGED <<executing, starts>>
  /\ UNCHANGED <<hub, acked, ipc, counters>>

\* The process stops between the acceptance of an invoke and its claim.
CrashOnReceipt ==
  /\ Connected /\ ~HandlerBusy /\ Len(rows) < Len(invoked)
  /\ crashes < MaxCrashes /\ crashes' = crashes + 1
  /\ rows' = Append(rows, "pending")
  /\ phase' = "offline" /\ alive' = FALSE /\ cursor' = 0
  /\ tasks' = {} /\ pending' = {} /\ deferred' = <<>>
  /\ executing' = {}
  /\ UNCHANGED <<hub, results, acked, ipc, starts, drops>>

\* Any other frame carries an acknowledgement and drains deferred results.
ReceiveAck ==
  /\ Connected /\ ~HandlerBusy
  /\ acked < hubGot \/ deferred # <<>>
  /\ \E a \in acked .. hubGot :
       LET d == DrainUpTo(a) IN
       /\ a # acked \/ d.left # deferred
       /\ acked' = a /\ deferred' = d.left /\ Becomes(d.s)
  /\ UNCHANGED <<hub, phase, alive, cursor, tasks, connector, starts,
                 counters>>

-----------------------------------------------------------------------------
(* The recovery pass of connectOnce() *)

\* The flush before recoverInbound() ends, or throws on a dead socket.
StartRecovery ==
  /\ phase = "starting"
  /\ \/ phase' = "recovering" /\ UNCHANGED <<alive, cursor, tasks>>
     \/ ~alive /\ ConnectOnceThrows(tasks)
  /\ UNCHANGED <<hub, rows, results, acked, pending, deferred, connector,
                 starts, counters>>

Recovering == phase = "recovering" /\ ~\E t \in tasks : t.by = "recovery"
\* Mutant: only rows that were never dispatched are recovered.
RecoverUnclaimed == {n \in DOMAIN rows : n > cursor /\ rows[n] = "pending"}

RecoverableAfter == {n \in DOMAIN rows : n > cursor /\ rows[n] # "processed"}
NextToRecover == CHOOSE n \in RecoverableAfter : \A m \in RecoverableAfter : n <= m

\* recoverInbound() claims the next unfinished row.  It cannot tell a row a
\* crash interrupted from one whose handler is at work.
RecoverRow ==
  LET n == NextToRecover
      wasClaimed == rows[n] = "processing"
  IN
  /\ Recovering /\ RecoverableAfter # {}
  /\ \/ /\ Dispatch(ClaimRow(NodeState, n), n, "recovery", wasClaimed)
        /\ cursor' = n /\ UNCHANGED <<phase, alive>>
     \/ /\ Refused(ClaimRow(NodeState, n), n, wasClaimed)
        /\ Becomes(ClaimRow(NodeState, n))
        /\ ConnectOnceThrows(tasks)
        /\ UNCHANGED <<executing, starts>>
  /\ UNCHANGED <<hub, acked, deferred, ipc, counters>>

\* Nothing is left to recover: baselines and a status are queued, and
\* connectOnce() begins to wait for the close event, which it will not see if
\* the socket has closed by now.
FinishRecovery ==
  /\ Recovering /\ RecoverableAfter = {}
  /\ phase' = "open"
  /\ UNCHANGED <<hub, rows, results, acked, alive, cursor, tasks, pending,
                 deferred, connector, starts, counters>>

-----------------------------------------------------------------------------
(* Answers *)

\* Mutant: the row is completed although the outbox refuses the answer.
CompleteWhenRefused(s, n, r) == Becomes(Complete(s, n))

\* Neither the result nor the error that replaces it fits in the outbox.
AnswerRefused(s, n, r) == Becomes(s)

\* A supervised operation ends.  Its answer is recorded; completing the row
\* throws if somebody else has completed it meanwhile.
FinishTask(t) ==
  LET others == tasks \ {t}
      recorded == NodeHasRoom(results)
      completed == recorded /\ rows[t.row] = "processing"
  IN
  /\ t \in tasks
  /\ \E r \in {"ok", "error"} :
       \/ completed /\ Becomes(Answer(NodeState, t.row, r))
       \/ recorded /\ ~completed /\ Becomes(Record(NodeState, t.row, r))
       \/ ~recorded /\ AnswerRefused(NodeState, t.row, r)
  /\ IF completed \/ ~t.mine
     THEN tasks' = others /\ UNCHANGED <<phase, alive, cursor>>
     ELSE IF t.by = "recovery" THEN ConnectOnceThrows(others) ELSE SocketCloses(others)
  /\ UNCHANGED <<hub, acked, deferred, connector, starts, counters>>

\* DSH ends a command and the Connector returns its result on the connection
\* that asked for it.  Another dispatch of the same command may still be
\* executing there.  A full outbox defers the result in memory.
ConnectorResult(c) ==
  /\ ipc /\ c \in executing
  /\ executing' \in {executing \ {c}} \cup (IF starts[c] = 2 THEN {executing} ELSE {})
  /\ \E r \in {"ok", "error"} :
       LET wanted == \E n \in pending : invoked[n] = c IN
       \/ /\ ~wanted \/ NodeHasRoom(results)
          /\ Becomes(AcceptConnectorResult(NodeState, [cmd |-> c, res |-> r]))
          /\ UNCHANGED deferred
       \/ /\ wanted /\ ~NodeHasRoom(results)
          /\ \A i \in DOMAIN deferred : deferred[i].cmd # c
          /\ deferred' = Append(deferred, [cmd |-> c, res |-> r])
          /\ UNCHANGED <<rows, results, pending>>
  /\ UNCHANGED <<hub, acked, phase, alive, cursor, tasks, ipc, starts,
                 counters>>

-----------------------------------------------------------------------------
(* Losing processes and sockets *)

\* What a stopped Node Agent leaves behind, its journal apart.  DSH discards
\* the results of the connection it lost.
NodeStops ==
  /\ crashes < MaxCrashes /\ crashes' = crashes + 1
  /\ phase' = "offline" /\ alive' = FALSE /\ cursor' = 0
  /\ tasks' = {} /\ pending' = {} /\ deferred' = <<>>
  /\ executing' = {}
  /\ UNCHANGED <<hub, acked, ipc, starts, drops>>

NodeCrash == NodeStops /\ UNCHANGED <<rows, results>>

\* The process stops between the record of an answer and the completion of
\* its row.
CrashAfterRecord ==
  /\ NodeStops /\ UNCHANGED rows
  /\ \E n \in DOMAIN rows, r \in Terminal :
       /\ rows[n] = "processing" /\ NodeHasRoom(results)
       /\ \/ r # "outcome-unknown" /\ \E t \in tasks : t.row = n
          \/ r # "outcome-unknown" /\ n \in pending /\ invoked[n] \in executing
          \/ /\ r = "outcome-unknown" /\ Recovering
             /\ RecoverableAfter # {} /\ n = NextToRecover
             /\ GiveUp(invoked[n], TRUE) /\ ~Unacknowledged(invoked[n])
       /\ results' = Record(NodeState, n, r).results

\* A network failure.
DropSocket ==
  /\ Connected /\ drops < MaxDrops /\ drops' = drops + 1
  /\ SocketCloses(tasks)
  /\ UNCHANGED <<hub, rows, results, acked, pending, deferred, connector,
                 starts, crashes>>

\* The Hub closes every connection when its service token expires.  Tokens
\* outlive message exchanges by far: the expiry matters when all is quiet.
ExpireAuthentication ==
  /\ phase = "open" /\ alive
  /\ tasks = {} /\ executing = {}
  /\ Len(rows) = Len(invoked) /\ hubGot = Len(results) /\ acked = hubGot
  /\ SocketCloses(tasks)
  /\ UNCHANGED <<hub, rows, results, acked, pending, deferred, connector,
                 starts, counters>>

\* The Connector's socket closes: results of this connection are fenced.
IpcLost ==
  /\ ipc /\ drops < MaxDrops /\ drops' = drops + 1
  /\ ipc' = FALSE /\ executing' = {}
  /\ UNCHANGED <<hub, rows, results, acked, process, starts, crashes>>

IpcRestored ==
  /\ ~ipc /\ ipc' = TRUE
  /\ UNCHANGED <<hub, rows, results, acked, process, executing, starts,
                 counters>>

-----------------------------------------------------------------------------
Next ==
  \/ \E c \in Commands : Invoke(c) \/ ConnectorResult(c)
  \/ HubReceive \/ HubCrash \/ Connect
  \/ Receive \/ CrashOnReceipt \/ ReceiveAck
  \/ StartRecovery \/ RecoverRow \/ FinishRecovery
  \/ \E t \in tasks : FinishTask(t)
  \/ NodeCrash \/ CrashAfterRecord
  \/ DropSocket \/ ExpireAuthentication \/ IpcLost \/ IpcRestored

\* Event loops run, retries are retried, operations end, tokens expire.  A
\* connection that fails in its recovery pass has flushed the outbox before:
\* the Hub reads those frames ahead of the close, hence strong fairness.
Fairness ==
  /\ WF_vars(Connect) /\ WF_vars(StartRecovery) /\ WF_vars(RecoverRow)
  /\ WF_vars(FinishRecovery) /\ WF_vars(Receive) /\ WF_vars(ReceiveAck)
  /\ SF_vars(HubReceive) /\ WF_vars(IpcRestored) /\ WF_vars(ExpireAuthentication)
  /\ WF_vars(\E t \in tasks : FinishTask(t))
  /\ \A c \in Commands : WF_vars(ConnectorResult(c))

Spec == Init /\ [][Next]_vars
FairSpec == Spec /\ Fairness

-----------------------------------------------------------------------------
(* Properties *)

\* Every variable has the shape its comment says.
TypeOK ==
  /\ status \in [Commands -> Status]
  /\ invoked \in Seq(Commands) /\ Len(rows) <= Len(invoked)
  /\ rows \in Seq({"pending", "processing", "processed"})
  /\ results \in Seq(Result)
  /\ hubDone <= hubGot /\ hubGot <= Len(results) /\ acked <= hubGot
  /\ phase \in {"offline", "starting", "recovering", "open"}
  /\ alive \in BOOLEAN /\ ipc \in BOOLEAN /\ cursor \in 0 .. Len(rows)
  /\ tasks \subseteq Task /\ pending \subseteq DOMAIN rows
  /\ deferred \in Seq(Result) /\ executing \subseteq Commands
  /\ starts \in [Commands -> 0 .. 2]

\* A command the Hub believes delivered is owed by somebody: its invoke is
\* undelivered, or its inbox row is unfinished, or its result is under way.
SentIsOwed ==
  \A c \in Commands : status[c] = "sent" =>
    \/ \E n \in DOMAIN invoked :
         invoked[n] = c /\ (n > Len(rows) \/ rows[n] # "processed")
    \/ \E i \in hubDone + 1 .. Len(results) : results[i].cmd = c

\* A command is queued for its node once, whatever a Hub crash interrupted, and
\* a never-retry operation is started at most once, whatever its node lost.
AtMostOnce ==
  /\ \A i, k \in DOMAIN invoked : invoked[i] = invoked[k] => i = k
  /\ \A c \in NeverRetry : starts[c] <= 1

\* If the Node Agent's connection loop does not hang, every command the Hub
\* accepted is settled: by a result, or by a recovery that a later connection
\* runs after a Connector was lost.
EventuallySettled ==
  [](~Hung) => \A c \in Commands : <>[](status[c] \in {"none"} \cup Terminal)
=============================================================================
