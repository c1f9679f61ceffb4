---------------------------- MODULE ReliableJournal ----------------------------
(***************************************************************************)
(* The SQLite transactions of one durable peer journal                     *)
(* (hub-transport/src/journal.ts), as functions from a journal value to a  *)
(* journal value.  Hub and Node Agent run the same code over their own     *)
(* database, so the modules that compose the two apply these operators to  *)
(* one journal per side.                                                   *)
(*                                                                         *)
(* A journal is the reliable_peer_state row (outSeq, outAck, inAck)        *)
(* together with the two row tables, keyed by their PRIMARY KEY:           *)
(*   outbox : sequence -> body      unacknowledged outbound rows           *)
(*   inbox  : sequence -> row       accepted rows, with the hash that      *)
(*                                  survives processing, and their state   *)
(*                                                                         *)
(* A body stands for itself, its message id and its hash: a peer re-signs  *)
(* the same row with the same three, and any difference is a conflict.     *)
(* The outbox is bounded in rows; the byte quota is left out.              *)
(***************************************************************************)
EXTENDS Integers

CONSTANTS
  Body,        \* protocol bodies
  Ack,         \* the acknowledgement-only body transport.ack
  MaxRecords,  \* limits.maxOutboundRecords
  Retain       \* processed suffix kept by pruneProcessed

ASSUME JournalAssumption ==
  /\ Ack \in Body
  /\ MaxRecords \in Nat \ {0}
  /\ Retain \in Nat

RowState == {"pending", "processing", "processed"}
InboxRow == [hash : Body, state : RowState]

\* What a freshly inserted reliable_peer_state row and two empty tables are.
EmptyJournal ==
  [outSeq |-> 0, outAck |-> 0, inAck |-> 0,
   outbox |-> [n \in {} |-> Ack], inbox |-> [n \in {} |-> Ack]]

-----------------------------------------------------------------------------
(* Outbound half *)

\* enqueue() is refused while the unacknowledged count is at the limit.
CanEnqueue(j) == j.outSeq - j.outAck < MaxRecords

Enqueue(j, body) ==
  [j EXCEPT !.outSeq = @ + 1,
            !.outbox = [n \in DOMAIN @ \cup {j.outSeq + 1} |->
                          IF n = j.outSeq + 1 THEN body ELSE @[n]]]

\* acknowledgeOutbound() throws on a regression and on a sequence that was
\* never allocated here.
AckInRange(j, ack) == j.outAck <= ack /\ ack <= j.outSeq

\* Mutant: deletes one row too many.
AcknowledgeOneMore(j, ack) ==
  [j EXCEPT !.outAck = ack,
            !.outbox = [n \in {m \in DOMAIN @ : m > ack + 1} |-> @[n]]]

AcknowledgeOutbound(j, ack) ==
  [j EXCEPT !.outAck = ack,
            !.outbox = [n \in {m \in DOMAIN @ : m > ack} |-> @[n]]]

\* pendingOutboundAfter(): the rows a connection has not sent yet.
UnsentRows(j, cursor) == {n \in DOMAIN j.outbox : n > cursor}

\* pendingAcknowledgement(): the newest queued acknowledgement-only row.
PendingAcks(j) == {n \in DOMAIN j.outbox : j.outbox[n] = Ack}
NewestPendingAck(j) ==
  CHOOSE n \in PendingAcks(j) : \A m \in PendingAcks(j) : m <= n

\* enqueueAcknowledgement(): reuse the queued record or persist a new one;
\* only the insertion is subject to the quota.
CanQueueAck(j) == PendingAcks(j) # {} \/ CanEnqueue(j)
QueueAck(j) == IF PendingAcks(j) # {} THEN j ELSE Enqueue(j, Ack)

-----------------------------------------------------------------------------
(* Inbound half *)

\* Mutant: the last sequence is accepted again.
AcceptanceOfLast(j, seq, body) ==
  IF seq < j.inAck THEN "duplicate"
  ELSE IF seq > j.inAck + 1 THEN "gap" ELSE "accepted"

\* acceptInbound() classifies a record before it changes anything.
Acceptance(j, seq, body) ==
  IF seq <= j.inAck
  THEN IF seq \in DOMAIN j.inbox /\ j.inbox[seq].hash # body
       THEN "conflict" ELSE "duplicate"
  ELSE IF seq # j.inAck + 1 THEN "gap" ELSE "accepted"

AcceptInbound(j, seq, body) ==
  [j EXCEPT !.inAck = seq,
            !.inbox = [n \in DOMAIN @ \cup {seq} |->
                         IF n = seq THEN [hash |-> body, state |-> "pending"]
                                    ELSE @[n]]]

\* recoverableInbound(): rows whose dispatch has not finished.
Recoverable(j) == {n \in DOMAIN j.inbox : j.inbox[n].state # "processed"}

\* claimInbound() reports a row that was already being processed as recovery.
IsRecovery(j, seq) == j.inbox[seq].state = "processing"

ClaimInbound(j, seq) ==
  [j EXCEPT !.inbox[seq].state = "processing"]

\* completeInbound() throws unless the row is being processed.
CanComplete(j, seq) ==
  seq \in DOMAIN j.inbox /\ j.inbox[seq].state = "processing"

CompleteInbound(j, seq) ==
  [j EXCEPT !.inbox[seq].state = "processed"]

\* Mutant: prunes by age alone.
PruneOld(j) ==
  [j EXCEPT !.inbox = [n \in {m \in DOMAIN @ : m > j.inAck - Retain} |-> @[n]]]

\* pruneProcessed(): forget processed rows older than the retained suffix.
PruneProcessed(j) ==
  [j EXCEPT !.inbox =
     [n \in {m \in DOMAIN @ : ~(@[m].state = "processed" /\ m <= j.inAck - Retain)}
        |-> @[n]]]
=============================================================================
