---------------------------- MODULE RuntimeStreams ----------------------------
(***************************************************************************)
(* What a runtime shows in the Hub: its session index and its open         *)
(* question, from DSH through the Connector (hub-connector/src/index.ts),  *)
(* the Node Agent's outbox with its suppression, deferral and              *)
(* resynchronization of streams (hub-node-agent/src/agent.ts), to the      *)
(* Hub's projection (hub-server/src/agents.ts).                            *)
(*                                                                         *)
(* One runtime; the results of commands are in CommandDelivery.            *)
(* The link delivers rows in order and exactly once (ReliableChannel): a   *)
(* row leaves the outbox when the Hub's acknowledgement arrives, or with   *)
(* the handshake after the link was lost.  The quota counts records; the   *)
(* byte quota and the size of rows are left out.                           *)
(*                                                                         *)
(* Bounds: MaxChanges changes of the session list, MaxFaults losses of a   *)
(* socket or process.                                                      *)
(***************************************************************************)
EXTENDS Integers, Sequences, SequencesExt, FiniteSets, Faults

CONSTANTS MaxRecords, StreamLimit, DeferredLimit, MaxChanges

ASSUME StreamAssumption ==
  /\ {MaxRecords, StreamLimit, DeferredLimit} \subseteq Nat \ {0}
  /\ {MaxChanges, MaxFaults} \subseteq Nat
  /\ StreamLimit <= MaxRecords

VARIABLES
  world, question,    \* DSH: the version of its session list, whether it asks
  ipc,                \* the Connector's socket is authenticated
  timer,              \* publishIndex() is due
  replay,             \* the mux just opened has the question to repeat
  reset,              \* a resynchronization is on its way to the Connector
  published,          \* the index last handed to the Node Agent
  outbox, deferred,   \* the Node Agent's journal and deferredConnectorBodies
  states,             \* pendingRuntimeStates: "none", "hello" or "offline"
  dropped, owed,      \* droppedStreams, runtimesNeedingStreamResync
  honoured, skipped,  \* receivedRuntimeResyncs, and whether it held one back
  reported, muted,    \* reportedPressure, streamSuppressedUntil in the future
  overflowed,         \* the deferred queue has refused a control body
  phase,              \* the link: "down", "up" or "closing"
  inbox, unacked,     \* a row the Hub has not processed; rows not acknowledged
  listed, known,      \* the Hub has a row of the runtime; the connection knows it
  index, asked,       \* what the Hub shows of it
  resyncs             \* its queued request for a resynchronization

runtime == <<world, question>>
connector == <<ipc, timer, replay, reset, published>>
queue == <<outbox, deferred, overflowed>>
drops == <<dropped, owed, reported, muted>>
node == <<queue, drops, states, honoured, skipped>>
stored == <<inbox, listed, index, asked, resyncs>>
hub == <<stored, known>>
link == <<phase, unacked>>
streamsVars == <<runtime, connector, node, hub, link, faults>>

Row(type, v) == [type |-> type, v |-> v]
Plain(type) == Row(type, 0)
IsStream(row) == row.type \in {"index", "event", "question"}
IsControl(row) == row.type \notin {"index", "event"}

StreamsInit ==
  /\ world = 0 /\ question = FALSE
  /\ ipc = FALSE /\ timer = FALSE /\ replay = FALSE /\ reset = FALSE /\ published = 0
  /\ outbox = <<>> /\ deferred = <<>> /\ states = "none" /\ overflowed = FALSE
  /\ dropped = FALSE /\ owed = FALSE /\ honoured = FALSE /\ skipped = FALSE /\ reported = "normal" /\ muted = FALSE
  /\ phase = "down" /\ unacked = 0
  /\ inbox = <<>> /\ listed = FALSE /\ known = FALSE /\ index = 0 /\ asked = FALSE /\ resyncs = 0
  /\ faults = 0

-----------------------------------------------------------------------------
(* The Node Agent's queue. *)

HasRoom(rows) == Len(rows) < MaxRecords
Put(rows, row) == IF HasRoom(rows) THEN Append(rows, row) ELSE rows
StreamRows(rows) == Len(SelectSeq(rows, IsStream))

Pressure(rows, waiting, drop) ==
  IF 100 * Len(rows) >= 95 * MaxRecords \/ waiting # <<>> THEN "critical"
  ELSE IF 100 * Len(rows) >= 75 * MaxRecords \/ StreamRows(rows) >= StreamLimit \/ drop
       THEN "warning" ELSE "normal"

\* updatePressureNotice(): a pressure that is gone resynchronizes the runtimes
\* whose frames were dropped; an offline Connector needs none.
Notice(p, resync) ==
  /\ reported' = p
  /\ LET repair == p = "normal" /\ reported # p /\ owed IN
     /\ owed' = (owed /\ ~repair)
     /\ reset' = (reset \/ (ipc /\ (repair \/ resync)))

\* Mutant: a drop at normal pressure is not reported.
RecordDroppedSilently ==
  dropped' = TRUE /\ owed' = TRUE /\ UNCHANGED reported
\* recordDroppedStream().
RecordDropped ==
  /\ dropped' = TRUE /\ owed' = TRUE
  /\ reported' = IF reported = "normal" THEN "warning" ELSE reported

Suppressed == \/ muted
              \/ Len(outbox) >= StreamLimit /\ StreamRows(outbox) >= StreamLimit

\* connectorBody(): frames that can be rebuilt are dropped under pressure or
\* when there is no room, control bodies wait in memory, up to a limit.
FromConnector(row) ==
  \/ /\ ~IsControl(row) /\ Suppressed
     /\ RecordDropped /\ muted' = TRUE
     /\ UNCHANGED <<queue, reset>>
  \/ /\ IsControl(row) \/ ~Suppressed
     /\ HasRoom(outbox)
     /\ outbox' = Append(outbox, row)
     /\ UNCHANGED <<deferred, overflowed, drops, reset>>
  \/ /\ ~IsControl(row) /\ ~Suppressed /\ ~HasRoom(outbox)
     /\ dropped' = TRUE /\ owed' = TRUE
     /\ reported' = Pressure(outbox, deferred, TRUE)
     /\ UNCHANGED <<queue, muted, reset>>
  \/ /\ IsControl(row) /\ ~HasRoom(outbox)
     /\ LET kept == Len(deferred) < DeferredLimit IN
        /\ deferred' = IF kept THEN Append(deferred, row) ELSE deferred
        /\ overflowed' = (overflowed \/ ~kept)
     /\ Notice(Pressure(outbox, deferred', dropped), FALSE)
     /\ UNCHANGED <<outbox, dropped, muted>>

\* Mutant: the quota is compared before the row is counted.
MovedOneMore(rows) == LET room == MaxRecords + 1 - Len(rows)
                      IN IF Len(deferred) < room THEN Len(deferred) ELSE room
\* drainDeferredConnectorBodies(), then drainPendingRuntimeStates().
Moved(rows) == LET room == MaxRecords - Len(rows)
               IN IF Len(deferred) < room THEN Len(deferred) ELSE room
Announced(rows, s) == IF s = "none" THEN rows
                      ELSE Put(rows, Plain(IF s = "hello" THEN "hello" ELSE "goodbye"))
Waiting(rows, s) == IF HasRoom(rows) THEN "none" ELSE s

\* What follows a frame from the Hub that leaves these rows in the outbox.
AfterReceive(rows, resync) ==
  LET drained == rows \o SubSeq(deferred, 1, Moved(rows)) IN
  /\ outbox' = Announced(drained, states)
  /\ deferred' = SubSeq(deferred, Moved(rows) + 1, Len(deferred))
  /\ states' = Waiting(drained, states)
  /\ Notice(Pressure(outbox', deferred', dropped), resync)
  /\ UNCHANGED <<overflowed, dropped, muted>>

\* enqueueTransportStatus() with these rows in the outbox: the list of dropped
\* streams is empty once its report is queued.
Status(rows) ==
  /\ outbox' = Put(rows, Plain("status"))
  /\ dropped' = (dropped /\ ~HasRoom(rows))
  /\ Notice(Pressure(rows, deferred, dropped'), FALSE)
  /\ UNCHANGED <<deferred, overflowed, muted>>

\* The status timer; its period is longer than a status takes to be delivered.
StatusTick ==
  /\ phase = "up" /\ \A i \in DOMAIN outbox : outbox[i].type # "status"
  /\ Status(outbox)
  /\ UNCHANGED <<runtime, ipc, timer, replay, published, states, honoured, skipped, hub, link, faults>>

Unmute ==
  /\ muted /\ muted' = FALSE
  /\ UNCHANGED <<runtime, connector, queue, dropped, owed, reported, states, honoured, skipped, hub, link, faults>>

-----------------------------------------------------------------------------
(* DSH and its Connector. *)

\* A change reaches an open carrier as an event, and arms the index timer.
Change ==
  /\ world < MaxChanges /\ world' = world + 1
  /\ timer' = ipc
  /\ IF ipc THEN FromConnector(Plain("event")) ELSE UNCHANGED <<queue, drops, reset>>
  /\ UNCHANGED <<question, ipc, replay, published, states, honoured, skipped, hub, link, faults>>

Ask ==
  /\ ~question /\ question' = TRUE
  /\ IF ipc THEN FromConnector(Plain("question")) ELSE UNCHANGED <<queue, drops, reset>>
  /\ UNCHANGED <<world, ipc, timer, replay, published, states, honoured, skipped, hub, link, faults>>

Replay ==
  /\ replay /\ replay' = FALSE
  /\ FromConnector(Plain("question"))
  /\ UNCHANGED <<runtime, ipc, timer, published, states, honoured, skipped, hub, link, faults>>

\* publishIndex(): one listing at a time, sent as it was read.
PublishIndex ==
  /\ timer /\ timer' = FALSE /\ published' = world
  /\ FromConnector(Row("index", world))
  /\ UNCHANGED <<runtime, ipc, replay, states, honoured, skipped, hub, link, faults>>

\* The Connector authenticates: hello, then a baseline and a fresh mux.
ConnectorUp ==
  /\ ~ipc /\ ipc' = TRUE
  /\ timer' = TRUE /\ replay' = question
  /\ outbox' = Announced(outbox, "hello") /\ states' = Waiting(outbox, "hello")
  /\ UNCHANGED <<runtime, reset, published, deferred, overflowed, drops, honoured, skipped, hub, link, faults>>

GenerationEnds ==
  /\ ipc' = FALSE /\ timer' = FALSE /\ replay' = FALSE /\ reset' = FALSE
  /\ outbox' = Announced(outbox, "offline") /\ states' = Waiting(outbox, "offline")
  /\ UNCHANGED <<runtime, published, deferred, overflowed, drops, honoured, skipped, hub, link>>

\* handleBody(): a resynchronization replaces the carrier.
Reopen == ipc /\ reset /\ GenerationEnds /\ UNCHANGED faults
ConnectorLost == ipc /\ GenerationEnds /\ Fault

-----------------------------------------------------------------------------
(* The Hub. *)

\* processInbound() throws for a stream whose capability was not advertised on
\* this connection; a new connection starts from the runtimes the store lists.
Takes(row) == IsStream(row) => known
KnownAt(i) == LET said == {j \in 1 .. i - 1 : inbox[j].type \in {"hello", "goodbye"}}
              IN IF said = {} THEN listed ELSE inbox[Max(said)].type = "hello"
Refused == {i \in DOMAIN inbox : IsStream(inbox[i]) /\ ~KnownAt(i)}
Stuck == Refused # {}
Hellos(n) == \E j \in 1 .. n : inbox[j].type = "hello"

Process(row) ==
  /\ listed' = (listed \/ row.type = "hello")
  /\ index' = IF row.type = "index" THEN row.v ELSE index
  /\ asked' = (asked \/ row.type = "question")
Told(row) == IF row.type \in {"hello", "goodbye"} THEN row.type = "hello" ELSE known
Down == phase' = "down" /\ known' = FALSE

\* The Hub has persisted the next row and neither processed nor acknowledged it.
Accepted == inbox' = Append(inbox, Head(outbox)) /\ unacked' = 1 /\ Down
Incoming == phase # "down" /\ outbox # <<>>

\* The Hub handles the next row and the Node Agent its acknowledgement; a row
\* the Hub refuses closes the connection.
Deliver ==
  /\ Incoming
  /\ IF Takes(Head(outbox))
     THEN /\ Process(Head(outbox)) /\ known' = Told(Head(outbox))
          /\ AfterReceive(Tail(outbox), FALSE)
          /\ UNCHANGED <<inbox, link>>
     ELSE /\ Accepted
          /\ UNCHANGED <<listed, index, asked, queue, drops, states, reset>>
  /\ UNCHANGED <<runtime, ipc, timer, replay, published, honoured, skipped, resyncs, faults>>

AcknowledgementLost ==
  /\ Incoming /\ Takes(Head(outbox)) /\ Fault
  /\ Process(Head(outbox)) /\ Down /\ unacked' = 1
  /\ UNCHANGED <<runtime, connector, node, inbox, resyncs>>

HubCrash ==
  /\ Incoming /\ Fault /\ Accepted
  /\ UNCHANGED <<runtime, connector, node, listed, index, asked, resyncs>>

\* Mutant: a recovered frame is taken for shown.
RecoveredQuietly(rows) == resyncs
\* A recovered frame is not shown: its runtime is asked for a new baseline,
\* unless that request is queued already.
Recovered(rows) == IF \E i \in DOMAIN rows : IsStream(rows[i]) THEN 1 ELSE resyncs

\* accept(): the handshake acknowledges and the inbox is recovered; connectOnce()
\* announces the runtimes that are connected and queues a status.
Reconnect ==
  /\ phase = "down" /\ ~Stuck
  /\ inbox' = <<>> /\ known' = KnownAt(Len(inbox) + 1) /\ listed' = (listed \/ Hellos(Len(inbox)))
  /\ resyncs' = Recovered(inbox)
  /\ phase' = "up" /\ unacked' = 0
  /\ LET rows == SubSeq(outbox, unacked + 1, Len(outbox))
         s == IF ipc THEN "hello" ELSE states IN
     states' = Waiting(rows, s) /\ Status(Announced(rows, s))
  /\ UNCHANGED <<runtime, ipc, timer, replay, published, honoured, skipped, index, asked, faults>>

\* recoverInbound() throws: the socket is closed, after whatever comes in
\* meanwhile.
ReconnectRefused ==
  /\ phase = "down" /\ Stuck
  /\ LET n == Min(Refused) - 1 IN
     /\ inbox' = SubSeq(inbox, n + 1, Len(inbox)) /\ known' = KnownAt(n + 1)
     /\ listed' = (listed \/ Hellos(n))
     /\ resyncs' = Recovered(SubSeq(inbox, 1, n))
  /\ outbox' = SubSeq(outbox, unacked + 1, Len(outbox)) /\ unacked' = 0 /\ phase' = "closing"
  /\ UNCHANGED <<runtime, connector, deferred, overflowed, drops, states, honoured, skipped, index, asked, faults>>

Close ==
  /\ phase = "closing" /\ Down
  /\ UNCHANGED <<runtime, connector, node, stored, unacked, faults>>

LinkLost ==
  /\ phase # "down" /\ Fault /\ Down
  /\ UNCHANGED <<runtime, connector, node, stored, unacked>>

\* The Hub's request reaches the Node Agent, which passes on one per runtime.
Resynchronize ==
  /\ phase # "down" /\ resyncs > 0 /\ resyncs' = resyncs - 1
  /\ AfterReceive(outbox, ~honoured) /\ honoured' = (honoured \/ ipc)
  /\ skipped' = (skipped \/ honoured)
  /\ UNCHANGED <<runtime, ipc, timer, replay, published, inbox, listed, known, index, asked, link, faults>>

\* The Node Agent stops: only its journal remains.
NodeCrash ==
  /\ Fault /\ Down
  /\ ipc' = FALSE /\ timer' = FALSE /\ replay' = FALSE /\ reset' = FALSE
  /\ deferred' = <<>> /\ states' = "none" /\ honoured' = FALSE
  /\ dropped' = FALSE /\ owed' = FALSE /\ reported' = "normal" /\ muted' = FALSE
  /\ UNCHANGED <<runtime, published, outbox, overflowed, skipped, stored, unacked>>

-----------------------------------------------------------------------------
StreamsNext ==
  \/ Change \/ Ask \/ Replay \/ PublishIndex \/ ConnectorUp \/ Reopen \/ ConnectorLost
  \/ StatusTick \/ Unmute \/ Resynchronize \/ NodeCrash
  \/ Deliver \/ AcknowledgementLost \/ HubCrash \/ Reconnect \/ ReconnectRefused \/ Close \/ LinkLost

\* Timers fire, sockets carry what is written, both ends reconnect; nothing
\* makes DSH change or a fault happen.
Fairness ==
  /\ WF_streamsVars(Replay) /\ WF_streamsVars(PublishIndex) /\ WF_streamsVars(ConnectorUp) /\ WF_streamsVars(Reopen)
  /\ WF_streamsVars(StatusTick) /\ WF_streamsVars(Unmute) /\ WF_streamsVars(Resynchronize)
  /\ WF_streamsVars(Deliver) /\ WF_streamsVars(Reconnect) /\ WF_streamsVars(ReconnectRefused) /\ WF_streamsVars(Close)

StreamsSpec == StreamsInit /\ [][StreamsNext]_streamsVars /\ Fairness

Rows == [type : {"hello", "goodbye", "index", "event", "question", "status"}, v : 0 .. MaxChanges]
StreamsTypeOK ==
  /\ world \in 0 .. MaxChanges /\ {published, index} \subseteq 0 .. MaxChanges
  /\ outbox \in Seq(Rows) /\ Len(outbox) <= MaxRecords
  /\ deferred \in Seq(Rows) /\ Len(deferred) <= DeferredLimit
  /\ states \in {"none", "hello", "offline"} /\ phase \in {"down", "up", "closing"}
  /\ reported \in {"normal", "warning", "critical"}
  /\ inbox \in Seq(Rows) /\ unacked \in 0 .. Len(outbox)
  /\ resyncs \in 0 .. 1 /\ faults \in 0 .. MaxFaults
  /\ {question, ipc, timer, replay, reset, dropped, owed, honoured, skipped, muted,
      overflowed, listed, known, asked} \subseteq BOOLEAN

\* Nothing is under way between DSH and the Hub.
AtRest ==
  /\ ipc /\ phase = "up" /\ inbox = <<>> /\ resyncs = 0
  /\ outbox = <<>> /\ deferred = <<>> /\ ~owed /\ ~reset
  /\ ~timer /\ ~replay

\* When nothing is under way the Hub shows the index the Connector has
\* published last and the question DSH asks: what was shed, deferred, lost or
\* recovered on the way has been made good, unless the Node Agent held a
\* resynchronization back or refused a control body.
ShownAtRest == AtRest => \/ index = published /\ (question => asked)
                         \/ skipped \/ overflowed

\* Frames that were dropped are made good by a new carrier, unless the Hub
\* refuses the node.
DropIsRepaired == owed ~> (~ipc \/ Stuck)
=============================================================================
