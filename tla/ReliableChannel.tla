---------------------------- MODULE ReliableChannel ----------------------------
(***************************************************************************)
(* The reliable link between the Hub and one Node Agent: two durable       *)
(* journals (module ReliableJournal), the mutual handshake that opens a    *)
(* new connection generation, and the two message loops that flush,        *)
(* receive, acknowledge and give up on a socket                            *)
(* (hub-transport/src/index.ts, hub-server/src/agents.ts,                  *)
(* hub-node-agent/src/agent.ts).                                           *)
(*                                                                         *)
(* A WebSocket is a pair of FIFO queues; it can vanish at any moment with  *)
(* whatever it holds.  Frames that reach an endpoint before it listens for *)
(* them are lost, and so is everything volatile when a process stops.      *)
(* What the bodies ask for is left to module CommandDelivery: here a       *)
(* dispatched body is either finished in its handler or some time later.   *)
(*                                                                         *)
(* Bounds: MaxBusiness limits the bodies each side is asked to send,       *)
(* MaxFaults the lost sockets, lost early frames, abandoned handshakes and *)
(* crashes, MaxGeneration the connection generations.                      *)
(***************************************************************************)
EXTENDS ReliableJournal, Sequences, FiniteSets

CONSTANTS
  Payload,        \* business bodies: commands, results, streams, runtime states
  Resync,         \* runtime.resync-required, reason sequence-gap
  Status,         \* the periodic transport.status body
  MaxBusiness, MaxFaults, MaxGeneration

ASSUME ChannelAssumption ==
  /\ Body = Payload \cup {Ack, Resync, Status}
  /\ MaxBusiness \in Nat /\ MaxFaults \in Nat /\ MaxGeneration \in Nat

Side == {"hub", "node"}
Peer(s) == IF s = "hub" THEN "node" ELSE "hub"

VARIABLES
  journal,     \* journal[s]: the durable journal of side s
  sent,        \* history: bodies side s committed to its outbox
  delivered,   \* history: bodies side s accepted for dispatch
  finished,    \* history: inbound sequences side s has finished processing
  generation,  \* nodes.connection_generation in the Hub database
  conn,        \* conn[s]: generation of the installed connection, 0 for none
  cursor,      \* cursor[s]: connection.sentSequence
  wantFlush,   \* wantFlush[s]: a flush of the connection has been requested
  wire,        \* wire[<<g, s>>]: frames s put on the socket of generation g
  handshake,   \* the Node Agent's connectOnce() in progress
  accepting,   \* generation whose accept() awaits its auth.accepted, or 0
  faults       \* faults spent so far

vars == <<journal, sent, delivered, finished, generation, conn, cursor,
          wantFlush, wire, handshake, accepting, faults>>
history == <<sent, delivered, finished>>

Generation == 1 .. MaxGeneration
Frame == [seq : Nat, body : Body, ack : Nat]

NoHandshake == [phase |-> "none", gen |-> 0, ack |-> 0]

Init ==
  /\ journal = [s \in Side |-> EmptyJournal]
  /\ sent = [s \in Side |-> <<>>]
  /\ delivered = [s \in Side |-> <<>>]
  /\ finished = [s \in Side |-> {}]
  /\ generation = 0
  /\ conn = [s \in Side |-> 0]
  /\ cursor = [s \in Side |-> 0]
  /\ wantFlush = [s \in Side |-> FALSE]
  /\ wire = [x \in Generation \X Side |-> <<>>]
  /\ handshake = NoHandshake
  /\ accepting = 0
  /\ faults = 0

Fault == faults < MaxFaults /\ faults' = faults + 1

-----------------------------------------------------------------------------
(* Sockets *)

\* Side r is, or will be, the listener at its end of generation g.
Listening(g, r) ==
  \/ conn[r] = g
  \/ r = "hub" /\ accepting = g
  \/ r = "node" /\ handshake.phase = "accepted" /\ handshake.gen = g

\* Bytes written towards an end that is gone go nowhere.
Transmit(s, frames) ==
  IF Listening(conn[s], Peer(s))
  THEN [wire EXCEPT ![<<conn[s], s>>] = @ \o frames]
  ELSE wire

\* Once r stops listening to generation g, what was in flight to it is lost.
Drained(w, g, r) == [x \in DOMAIN w |-> IF x = <<g, Peer(r)>> THEN <<>> ELSE w[x]]

\* Side s loses the connection it has installed.
Hangup(s) ==
  /\ conn' = [conn EXCEPT ![s] = 0]
  /\ cursor' = [cursor EXCEPT ![s] = 0]
  /\ wantFlush' = [wantFlush EXCEPT ![s] = FALSE]

-----------------------------------------------------------------------------
(* Flushing: renderPendingAfter, then renderPendingAcknowledgement *)

Rendered(j, n) == [seq |-> n, body |-> j.outbox[n], ack |-> j.inAck]

\* The i-th smallest element of a finite set of sequence numbers.
Nth(S, i) == CHOOSE n \in S : Cardinality({m \in S : m <= n}) = i

Page(j, c) ==
  [i \in 1 .. Cardinality(UnsentRows(j, c)) |-> Rendered(j, Nth(UnsentRows(j, c), i))]

\* Mutant: an acknowledgement is sent once and never refreshed.
RefreshNever(j) == <<>>

\* A flush that finds nothing unsent re-sends the queued acknowledgement
\* under its old sequence, with the inbound cursor of now.
Refresh(j) ==
  IF PendingAcks(j) = {} THEN <<>> ELSE <<Rendered(j, NewestPendingAck(j))>>

Outgoing(j, c) == IF UnsentRows(j, c) = {} THEN Refresh(j) ELSE Page(j, c)

NewCursor(j, c) ==
  IF UnsentRows(j, c) = {} THEN c ELSE Page(j, c)[Len(Page(j, c))].seq

\* One pass of the single flusher of a connection: everything it renders in
\* one page carries the same acknowledgement, so the page is sent as a whole.
Flush(s) ==
  /\ conn[s] # 0 /\ wantFlush[s]
  /\ wire' = Transmit(s, Outgoing(journal[s], cursor[s]))
  /\ cursor' = [cursor EXCEPT ![s] = NewCursor(journal[s], @)]
  /\ wantFlush' = [wantFlush EXCEPT ![s] = FALSE]
  /\ UNCHANGED <<journal, history, generation, conn, handshake, accepting, faults>>

\* Commit a body to the outbox of s and ask for a flush if s is connected.
Commit(s, body) ==
  /\ CanEnqueue(journal[s])
  /\ journal' = [journal EXCEPT ![s] = Enqueue(@, body)]
  /\ sent' = [sent EXCEPT ![s] = Append(@, body)]
  /\ wantFlush' = [wantFlush EXCEPT ![s] = conn[s] # 0]
  /\ UNCHANGED <<delivered, finished, generation, conn, cursor, wire,
                 handshake, accepting, faults>>

\* The code above the transport sends a command, a result, a stream frame ...
Submit(s) ==
  /\ Cardinality({n \in DOMAIN sent[s] : sent[s][n] \in Payload}) < MaxBusiness
  /\ \E b \in Payload : Commit(s, b)

\* The Node Agent's 15-second timer: enqueueTransportStatus(), then a flush
\* even when the quota refused the status.  The timer runs for as long as the
\* connection does; the model lets it fire only when the link is silent with
\* something unsettled, which is when it matters.
Silent ==
  /\ \A s \in Side : conn[s] # 0 /\ ~wantFlush[s]
  /\ \A x \in DOMAIN wire : wire[x] = <<>>
Undelivered(s) == journal[Peer(s)].inAck < journal[s].outSeq
Unacknowledged(s) == \E n \in DOMAIN journal[s].outbox : journal[s].outbox[n] \in Payload

StatusTickWhen(unsettled) ==
  /\ Silent /\ unsettled
  /\ \/ Commit("node", Status)
     \/ /\ ~CanEnqueue(journal["node"])
        /\ wantFlush' = [wantFlush EXCEPT !["node"] = TRUE]
        /\ UNCHANGED <<journal, history, generation, conn, cursor, wire,
                       handshake, accepting, faults>>

StatusTick == StatusTickWhen(\E s \in Side : Undelivered(s) \/ Unacknowledged(s))

-----------------------------------------------------------------------------
(* The handshake: challenge, proof, acceptance *)

\* connectOnce(): the proof carries the node's inbound cursor.
SendProof ==
  /\ conn["node"] = 0 /\ handshake.phase = "none"
  /\ handshake' = [phase |-> "proof", gen |-> 0, ack |-> journal["node"].inAck]
  /\ UNCHANGED <<journal, history, generation, conn, cursor, wantFlush, wire,
                 accepting, faults>>

\* accept() up to its await: the generation is durable, the node's cursor is
\* applied, and auth.accepted with the Hub's cursor is on its way.
AcceptProof ==
  /\ handshake.phase = "proof" /\ accepting = 0
  /\ generation < MaxGeneration
  /\ AckInRange(journal["hub"], handshake.ack)
  /\ generation' = generation + 1
  /\ accepting' = generation + 1
  /\ journal' = [journal EXCEPT !["hub"] = AcknowledgeOutbound(@, handshake.ack)]
  /\ handshake' = [phase |-> "accepted", gen |-> generation + 1,
                   ack |-> journal["hub"].inAck]
  /\ UNCHANGED <<history, conn, cursor, wantFlush, wire, faults>>

\* recoverInbound() on the Hub finishes every interrupted row.
AllProcessed(j) ==
  [j EXCEPT !.inbox = [n \in DOMAIN j.inbox |->
                         [hash |-> j.inbox[n].hash, state |-> "processed"]]]

\* accept() after its await: the prior socket is superseded, interrupted
\* inbound work is processed, and the outbox is flushed from the start.
InstallHub ==
  /\ accepting # 0
  /\ conn' = [conn EXCEPT !["hub"] = accepting]
  /\ cursor' = [cursor EXCEPT !["hub"] = 0]
  /\ wantFlush' = [wantFlush EXCEPT !["hub"] = TRUE]
  /\ wire' = Drained(wire, conn["hub"], "hub")
  /\ finished' = [finished EXCEPT !["hub"] = @ \cup Recoverable(journal["hub"])]
  /\ journal' = [journal EXCEPT !["hub"] = PruneProcessed(AllProcessed(@))]
  /\ accepting' = 0
  /\ UNCHANGED <<sent, delivered, generation, handshake, faults>>

\* The Node Agent verifies the acceptance, applies the Hub's cursor and only
\* then listens for frames.
InstallNode ==
  /\ handshake.phase = "accepted"
  /\ AckInRange(journal["node"], handshake.ack)
  /\ journal' = [journal EXCEPT !["node"] = AcknowledgeOutbound(@, handshake.ack)]
  /\ conn' = [conn EXCEPT !["node"] = handshake.gen]
  /\ cursor' = [cursor EXCEPT !["node"] = 0]
  /\ wantFlush' = [wantFlush EXCEPT !["node"] = TRUE]
  /\ handshake' = NoHandshake
  /\ UNCHANGED <<history, generation, wire, accepting, faults>>

\* A handshake is abandoned by its timeout or by the loss of its socket.
AbandonHandshake ==
  /\ handshake.phase # "none" /\ Fault
  /\ handshake' = NoHandshake
  /\ wire' = Drained(wire, handshake.gen, "node")
  /\ UNCHANGED <<journal, history, generation, conn, cursor, wantFlush, accepting>>

\* The send of auth.accepted fails, so accept() rejects and installs nothing.
AbandonAccept ==
  /\ accepting # 0
  /\ ~Listening(accepting, "node")
  /\ accepting' = 0
  /\ wire' = Drained(wire, accepting, "hub")
  /\ UNCHANGED <<journal, history, generation, conn, cursor, wantFlush,
                 handshake, faults>>

\* A frame that arrives between the acceptance and the installation of the
\* message listener finds nobody: a WebSocket does not replay events.
LoseEarlyFrame(s) ==
  \E g \in Generation :
    /\ Listening(g, s) /\ conn[s] # g /\ Fault
    /\ wire[<<g, Peer(s)>>] # <<>>
    /\ wire' = [wire EXCEPT ![<<g, Peer(s)>>] = Tail(@)]
    /\ UNCHANGED <<journal, history, generation, conn, cursor, wantFlush,
                   handshake, accepting>>

-----------------------------------------------------------------------------
(* Receiving: ReliablePeer.receive and the two message handlers *)

Arriving(s) == conn[s] # 0 /\ wire[<<conn[s], Peer(s)>>] # <<>>
Incoming(s) == Head(wire[<<conn[s], Peer(s)>>])
Consumed(s) == [wire EXCEPT ![<<conn[s], Peer(s)>>] = Tail(@)]

\* The journal once the frame's cumulative acknowledgement is applied: that
\* happens before the frame is classified, whatever the classification.
Acknowledged(s) == AcknowledgeOutbound(journal[s], Incoming(s).ack)

Arrives(s, kind) ==
  /\ Arriving(s)
  /\ AckInRange(journal[s], Incoming(s).ack)
  /\ Acceptance(Acknowledged(s), Incoming(s).seq, Incoming(s).body) = kind

\* The frame persisted and claimed, before its body is processed.
Accepted(s) == AcceptInbound(Acknowledged(s), Incoming(s).seq, Incoming(s).body)
Claimed(s) == ClaimInbound(Accepted(s), Incoming(s).seq)
Completed(s) == PruneProcessed(CompleteInbound(Claimed(s), Incoming(s).seq))

\* The queued acknowledgement exceeds the quota: the handler throws and its
\* caller terminates the socket.
CloseUnacknowledged(s) ==
  /\ Hangup(s)
  /\ wire' = Drained(wire, conn[s], s)

\* The Hub processes a body synchronously; a Node Agent dispatch may outlive
\* its handler.  Bodies other than an acknowledgement are acknowledged with a
\* queued record; if that exceeds the quota the handler closes the socket.
ReceiveAccepted(s) ==
  LET f == Incoming(s)
      mayOutlive == s = "node" /\ f.body \in Payload
  IN
  /\ Arrives(s, "accepted")
  /\ \E done \in (IF mayOutlive THEN BOOLEAN ELSE {TRUE}) :
       LET j == IF done THEN Completed(s) ELSE Claimed(s) IN
       /\ finished' = [finished EXCEPT ![s] = IF done THEN @ \cup {f.seq} ELSE @]
       /\ delivered' = [delivered EXCEPT ![s] = Append(@, f.body)]
       /\ \/ /\ f.body = Ack
             /\ journal' = [journal EXCEPT ![s] = j]
             /\ wantFlush' = [wantFlush EXCEPT ![s] = @ \/ s = "node"]
             /\ wire' = Consumed(s)
             /\ UNCHANGED <<sent, conn, cursor>>
          \/ /\ f.body # Ack /\ CanQueueAck(j)
             /\ journal' = [journal EXCEPT ![s] = QueueAck(j)]
             /\ sent' = IF PendingAcks(j) = {}
                        THEN [sent EXCEPT ![s] = Append(@, Ack)] ELSE sent
             /\ wantFlush' = [wantFlush EXCEPT ![s] = TRUE]
             /\ wire' = Consumed(s)
             /\ UNCHANGED <<conn, cursor>>
          \/ /\ f.body # Ack /\ ~CanQueueAck(j)
             /\ journal' = [journal EXCEPT ![s] = j]
             /\ CloseUnacknowledged(s)
             /\ UNCHANGED sent
  /\ UNCHANGED <<generation, handshake, accepting, faults>>

\* A duplicate is dropped.  The Node Agent asks for a flush on every frame it
\* receives, the Hub only after a body it has to acknowledge.
ReceiveDuplicate(s) ==
  /\ Arrives(s, "duplicate")
  /\ journal' = [journal EXCEPT ![s] = Acknowledged(s)]
  /\ wantFlush' = [wantFlush EXCEPT ![s] = @ \/ s = "node"]
  /\ wire' = Consumed(s)
  /\ UNCHANGED <<history, generation, conn, cursor, handshake, accepting, faults>>

\* A gap ends the connection.  The Hub first queues and flushes a request for
\* an authoritative resynchronization, if the quota allows it.
ReceiveGap(s) ==
  LET j == Acknowledged(s)
      asks == s = "hub" /\ CanEnqueue(j)
      j2 == IF asks THEN Enqueue(j, Resync) ELSE j
      w == IF asks THEN Transmit(s, Outgoing(j2, cursor[s])) ELSE wire
  IN
  /\ Arrives(s, "gap")
  /\ journal' = [journal EXCEPT ![s] = j2]
  /\ sent' = IF asks THEN [sent EXCEPT ![s] = Append(@, Resync)] ELSE sent
  /\ wire' = Drained(w, conn[s], s)
  /\ Hangup(s)
  /\ UNCHANGED <<delivered, finished, generation, handshake, accepting, faults>>

\* Anything else receive() rejects changes nothing and ends the connection.
ReceiveRejected(s) ==
  /\ Arriving(s)
  /\ ~AckInRange(journal[s], Incoming(s).ack)
  /\ wire' = Drained(wire, conn[s], s)
  /\ Hangup(s)
  /\ UNCHANGED <<journal, history, generation, handshake, accepting, faults>>

\* completeInbound() and pruneProcessed() when a dispatch that outlived its
\* handler ends, or when recoverInbound() finishes an interrupted one.
FinishDispatch(n) ==
  /\ n \in Recoverable(journal["node"])
  /\ journal' = [journal EXCEPT !["node"] =
                   PruneProcessed(CompleteInbound(ClaimInbound(@, n), n))]
  /\ finished' = [finished EXCEPT !["node"] = @ \cup {n}]
  /\ UNCHANGED <<sent, delivered, generation, conn, cursor, wantFlush, wire,
                 handshake, accepting, faults>>

-----------------------------------------------------------------------------
(* Losing sockets and processes *)

\* A heartbeat timeout, an authentication expiry or a network failure.
LoseConnection(s) ==
  /\ conn[s] # 0 /\ Fault
  /\ wire' = Drained(wire, conn[s], s)
  /\ Hangup(s)
  /\ UNCHANGED <<journal, history, generation, handshake, accepting>>

\* The close event of a socket whose other end is gone.
PeerGone(s) ==
  /\ conn[s] # 0 /\ ~Listening(conn[s], Peer(s))
  /\ wire' = Drained(wire, conn[s], s)
  /\ Hangup(s)
  /\ UNCHANGED <<journal, history, generation, handshake, accepting, faults>>

\* What a stopped process forgets: its connection, and its half of a
\* handshake.  A proof sent to a Hub that stops is never answered.
Forget(s) ==
  /\ Hangup(s)
  /\ accepting' = IF s = "hub" THEN 0 ELSE accepting
  /\ handshake' = IF s = "node" \/ handshake.phase = "proof"
                  THEN NoHandshake ELSE handshake
  /\ wire' = [x \in DOMAIN wire |->
                IF x[2] = Peer(s) /\ Listening(x[1], s) THEN <<>> ELSE wire[x]]

Crash(s) ==
  /\ Fault /\ Forget(s)
  /\ UNCHANGED <<journal, history, generation>>

\* The process stops between two of the transactions of its message handler.
CrashInReceive(s) ==
  /\ Arrives(s, "accepted") /\ Fault /\ Forget(s)
  /\ delivered' = [delivered EXCEPT ![s] = Append(@, Incoming(s).body)]
  /\ \/ /\ journal' \in {[journal EXCEPT ![s] = Accepted(s)],
                         [journal EXCEPT ![s] = Claimed(s)]}
        /\ UNCHANGED finished
     \/ /\ journal' = [journal EXCEPT ![s] = Completed(s)]
        /\ finished' = [finished EXCEPT ![s] = @ \cup {Incoming(s).seq}]
  /\ UNCHANGED <<sent, generation>>

-----------------------------------------------------------------------------
SideStep(s) ==
  \/ Submit(s) \/ Flush(s)
  \/ ReceiveAccepted(s) \/ ReceiveDuplicate(s) \/ ReceiveGap(s) \/ ReceiveRejected(s)
  \/ LoseEarlyFrame(s) \/ LoseConnection(s) \/ PeerGone(s)
  \/ Crash(s) \/ CrashInReceive(s)

Next ==
  \/ \E s \in Side : SideStep(s)
  \/ SendProof \/ AcceptProof \/ InstallHub \/ InstallNode
  \/ AbandonHandshake \/ AbandonAccept \/ StatusTick
  \/ \E n \in DOMAIN journal["node"].inbox : FinishDispatch(n)

\* Event loops run: a requested flush is written, a frame that arrived is
\* handled, close events fire, the reconnect loop retries, the timer ticks.
\* Nothing is assumed of faults, of new submissions, or of the moment at
\* which a dispatched command ends.
Fairness ==
  /\ \A s \in Side :
       /\ WF_vars(Flush(s)) /\ WF_vars(PeerGone(s))
       /\ WF_vars(ReceiveAccepted(s)) /\ WF_vars(ReceiveDuplicate(s))
       /\ WF_vars(ReceiveGap(s)) /\ WF_vars(ReceiveRejected(s))
  /\ WF_vars(SendProof) /\ WF_vars(AcceptProof) /\ WF_vars(InstallHub)
  /\ WF_vars(InstallNode) /\ WF_vars(AbandonAccept) /\ WF_vars(StatusTick)

Spec == Init /\ [][Next]_vars
FairSpec == Spec /\ Fairness

-----------------------------------------------------------------------------
(* Properties *)

HandshakeType == [phase : {"none", "proof", "accepted"}, gen : 0 .. MaxGeneration, ack : Nat]

JournalType(j) ==
  /\ DOMAIN j = {"outSeq", "outAck", "inAck", "outbox", "inbox"}
  /\ j.outSeq \in Nat /\ j.outAck \in Nat /\ j.inAck \in Nat
  /\ \A n \in DOMAIN j.outbox : n \in Nat /\ j.outbox[n] \in Body
  /\ \A n \in DOMAIN j.inbox : n \in Nat /\ j.inbox[n] \in InboxRow

\* Every variable has the shape its comment says.
TypeOK ==
  /\ DOMAIN journal = Side /\ \A s \in Side : JournalType(journal[s])
  /\ sent \in [Side -> Seq(Body)] /\ delivered \in [Side -> Seq(Body)]
  /\ finished \in [Side -> SUBSET Nat]
  /\ generation \in 0 .. MaxGeneration
  /\ conn \in [Side -> 0 .. MaxGeneration]
  /\ cursor \in [Side -> Nat]
  /\ wantFlush \in [Side -> BOOLEAN]
  /\ wire \in [Generation \X Side -> Seq(Frame)]
  /\ handshake \in HandshakeType
  /\ accepting \in 0 .. MaxGeneration
  /\ faults \in 0 .. MaxFaults

\* A row leaves the sender's outbox only after the receiver has persisted it:
\* whatever was committed is either still queued at the sender or accepted at
\* the receiver (acknowledgeOutbound and acceptInbound, across both databases,
\* every generation and every crash).
NothingLost ==
  \A s \in Side :
    /\ journal[s].outAck <= journal[Peer(s)].inAck
    /\ journal[Peer(s)].inAck <= journal[s].outSeq
    /\ DOMAIN journal[s].outbox = journal[s].outAck + 1 .. journal[s].outSeq
    /\ \A n \in DOMAIN journal[s].outbox : journal[s].outbox[n] = sent[s][n]

\* Accepted work that has not been finished keeps its inbox row, and with it
\* the body, through pruning, reconnects and crashes.
WorkIsKept ==
  \A s \in Side : \A n \in 1 .. journal[s].inAck :
    n \notin finished[s] => /\ n \in DOMAIN journal[s].inbox
                            /\ journal[s].inbox[n].state # "processed"

\* The link implements exactly-once, in-order delivery in both directions.
Abstract == INSTANCE ReliableDelivery WITH Body <- Body, sent <- sent, delivered <- delivered
ImplementsDelivery == Abstract!Spec

\* Once the faults stop the link comes to rest: every committed body has been
\* accepted by the other side, those whose frame was lost before the peer
\* listened too; no business row waits for its acknowledgement, although the row
\* that carried it may itself be acknowledged, and deleted, before the flush
\* that should have refreshed it; and acknowledgements do not keep answering
\* each other.
Delivered(s) == journal[Peer(s)].inAck = journal[s].outSeq
NoneUnacknowledged(s) ==
  \A n \in DOMAIN journal[s].outbox : journal[s].outbox[n] \notin Payload
LinkComesToRest ==
  <>[](/\ \A s \in Side : Delivered(s) /\ NoneUnacknowledged(s)
       /\ \A x \in DOMAIN wire : wire[x] = <<>>)
=============================================================================
