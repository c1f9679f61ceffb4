------------------------- MODULE ReliableChannelProofs -------------------------
(***************************************************************************)
(* Proofs about ReliableChannel for every value of its constants.          *)
(*                                                                         *)
(* The inductive invariant is stated over values (a journal function J,    *)
(* the histories S and D, a wire function W) and not only over the         *)
(* variables: a message handler applies several journal transactions in    *)
(* one step, and each lemma carries the invariant over one of them, so the *)
(* proof of a handler is the composition of lemmas.                        *)
(***************************************************************************)
EXTENDS ReliableChannel, TLAPS, FiniteSetTheorems, WellFoundedInduction,
        SequenceTheorems

-----------------------------------------------------------------------------
(* The inductive invariant *)

\* The outbox of s is exactly what s committed and has not seen acknowledged,
\* and the other side has accepted no less than s saw acknowledged.
OutboxIsSuffix(J, S, s) ==
  /\ J[s].outSeq = Len(S[s])
  /\ J[s].outAck <= J[Peer(s)].inAck
  /\ J[Peer(s)].inAck <= J[s].outSeq
  /\ DOMAIN J[s].outbox = J[s].outAck + 1 .. J[s].outSeq
  /\ \A n \in DOMAIN J[s].outbox : J[s].outbox[n] = S[s][n]

\* What s dispatched is the prefix of what the other side committed, up to
\* the inbound cursor of s.
DeliveredIsPrefix(J, S, D, s) ==
  /\ Len(D[s]) = J[s].inAck
  /\ \A n \in 1 .. J[s].inAck : D[s][n] = S[Peer(s)][n]

Consistent(J, S, D) ==
  /\ DOMAIN J = Side /\ \A s \in Side : JournalType(J[s])
  /\ S \in [Side -> Seq(Body)] /\ D \in [Side -> Seq(Body)]
  /\ \A s \in Side : OutboxIsSuffix(J, S, s) /\ DeliveredIsPrefix(J, S, D, s)

\* A frame of s is a row s committed, with a cursor s had reached.
FrameIsRow(J, S, s, f) ==
  /\ f \in Frame
  /\ 1 <= f.seq /\ f.seq <= J[s].outSeq
  /\ f.body = S[s][f.seq]
  /\ f.ack <= J[s].inAck

FramesAreRows(W, J, S) ==
  /\ W \in [Generation \X Side -> Seq(Frame)]
  /\ \A g \in Generation, s \in Side :
       \A i \in DOMAIN W[<<g, s>>] : FrameIsRow(J, S, s, W[<<g, s>>][i])

\* The cursors exchanged by a handshake were reached by the side that sent them.
HandshakeIsReached(h, J) ==
  /\ h \in HandshakeType
  /\ h.phase = "proof" => h.ack <= J["node"].inAck
  /\ h.phase = "accepted" => h.ack <= J["hub"].inAck /\ h.gen # 0

Control ==
  /\ finished \in [Side -> SUBSET Nat]
  /\ generation \in 0 .. MaxGeneration
  /\ conn \in [Side -> 0 .. MaxGeneration]
  /\ cursor \in [Side -> Nat]
  /\ wantFlush \in [Side -> BOOLEAN]
  /\ accepting \in 0 .. MaxGeneration
  /\ faults \in 0 .. MaxFaults

IInv ==
  /\ Consistent(journal, sent, delivered)
  /\ FramesAreRows(wire, journal, sent)
  /\ HandshakeIsReached(handshake, journal)
  /\ Control

\* Journals only grow: what a frame or a handshake says of them stays true.
Grows(J, S, J2, S2) ==
  \A s \in Side : /\ J[s].outSeq <= J2[s].outSeq
                  /\ J[s].inAck <= J2[s].inAck
                  /\ \A n \in 1 .. J[s].outSeq : S2[s][n] = S[s][n]

\* One side's value replaced: how every handler updates a journal or a
\* history.  Kept folded in the proofs, so that handlers compose by name.
Put(F, s, v) == [F EXCEPT ![s] = v]

-----------------------------------------------------------------------------
(* One transaction at a time *)

\* The other side is the other side.
LEMMA PeerFacts ==
  \A s \in Side : Peer(s) \in Side /\ Peer(s) # s /\ Peer(Peer(s)) = s
BY DEF Side, Peer

\* acknowledgeOutbound() with a cursor the other side has reached.
LEMMA AcknowledgeKeeps ==
  ASSUME NEW J, NEW S, NEW D, Consistent(J, S, D),
         NEW s \in Side, NEW a \in Nat,
         AckInRange(J[s], a), a <= J[Peer(s)].inAck,
         NEW J2, J2 = Put(J, s, AcknowledgeOutbound(J[s], a))
  PROVE  Consistent(J2, S, D) /\ Grows(J, S, J2, S)
<1> USE DEF Put
<1>1. /\ DOMAIN J2 = Side
      /\ \A t \in Side : t # s => J2[t] = J[t]
      /\ J2[s] = AcknowledgeOutbound(J[s], a)
  BY DEF Consistent
<1>2. /\ DOMAIN J2[s] = DOMAIN J[s]
      /\ J2[s].outSeq = J[s].outSeq /\ J2[s].inAck = J[s].inAck
      /\ J2[s].outAck = a /\ J2[s].inbox = J[s].inbox
      /\ DOMAIN J2[s].outbox = {m \in DOMAIN J[s].outbox : m > a}
      /\ \A n \in DOMAIN J2[s].outbox : J2[s].outbox[n] = J[s].outbox[n]
  BY <1>1 DEF AcknowledgeOutbound, Consistent, JournalType
<1>3. JournalType(J2[s])
  BY <1>2 DEF Consistent, JournalType
<1>4. DOMAIN J2[s].outbox = J2[s].outAck + 1 .. J2[s].outSeq
  <2>1. /\ DOMAIN J[s].outbox = J[s].outAck + 1 .. J[s].outSeq
        /\ J[s].outAck \in Nat /\ J[s].outSeq \in Nat
        /\ J[s].outAck <= a /\ a <= J[s].outSeq
    BY DEF Consistent, JournalType, OutboxIsSuffix, AckInRange
  <2>2. \A m : (m \in J[s].outAck + 1 .. J[s].outSeq /\ m > a)
               <=> m \in a + 1 .. J[s].outSeq
    BY <2>1
  <2>3. {m \in DOMAIN J[s].outbox : m > a} = a + 1 .. J[s].outSeq
    BY <2>1, <2>2
  <2> QED BY <1>2, <2>3
<1>5. \A t \in Side : OutboxIsSuffix(J2, S, t)
  BY <1>1, <1>2, <1>4, PeerFacts DEF Consistent, OutboxIsSuffix
<1>6. \A t \in Side : DeliveredIsPrefix(J2, S, D, t)
  BY <1>1, <1>2, PeerFacts DEF Consistent, DeliveredIsPrefix
<1>7. Grows(J, S, J2, S)
  <2>1. ASSUME NEW t \in Side
        PROVE  J[t].outSeq <= J2[t].outSeq /\ J[t].inAck <= J2[t].inAck
    <3>1. J[t].outSeq \in Nat /\ J[t].inAck \in Nat BY DEF Consistent, JournalType
    <3>2. CASE t = s BY <1>2, <3>1, <3>2
    <3>3. CASE t # s BY <1>1, <3>1, <3>3
    <3> QED BY <3>2, <3>3
  <2> QED BY <2>1 DEF Grows
<1> QED BY <1>1, <1>3, <1>5, <1>6, <1>7 DEF Consistent

\* What Consistent says of one side.
LEMMA SideFacts ==
  ASSUME NEW J, NEW S, NEW D, Consistent(J, S, D), NEW s \in Side
  PROVE  /\ DOMAIN J[s] = {"outSeq", "outAck", "inAck", "outbox", "inbox"}
         /\ J[s].outSeq \in Nat /\ J[s].outAck \in Nat /\ J[s].inAck \in Nat
         /\ J[s].outSeq = Len(S[s]) /\ J[s].inAck = Len(D[s])
         /\ S[s] \in Seq(Body) /\ D[s] \in Seq(Body)
         /\ J[s].outAck <= J[Peer(s)].inAck /\ J[Peer(s)].inAck <= J[s].outSeq
         /\ J[s].outAck <= J[s].outSeq
         /\ J[s].inAck <= J[Peer(s)].outSeq
         /\ DOMAIN J[s].outbox = J[s].outAck + 1 .. J[s].outSeq
<1>1. JournalType(J[s]) /\ JournalType(J[Peer(s)])
  BY PeerFacts DEF Consistent
<1>2. OutboxIsSuffix(J, S, s) /\ OutboxIsSuffix(J, S, Peer(s))
  BY PeerFacts DEF Consistent
<1>3. J[s].inAck <= J[Peer(s)].outSeq
  BY <1>2, PeerFacts DEF OutboxIsSuffix
<1>4. DeliveredIsPrefix(J, S, D, s) /\ S[s] \in Seq(Body) /\ D[s] \in Seq(Body)
  BY DEF Consistent
<1> QED BY <1>1, <1>2, <1>3, <1>4 DEF JournalType, OutboxIsSuffix, DeliveredIsPrefix

\* enqueue().
LEMMA EnqueueKeeps ==
  ASSUME NEW J, NEW S, NEW D, Consistent(J, S, D),
         NEW s \in Side, NEW b \in Body,
         NEW J2, J2 = Put(J, s, Enqueue(J[s], b)),
         NEW S2, S2 = Put(S, s, Append(S[s], b))
  PROVE  Consistent(J2, S2, D) /\ Grows(J, S, J2, S2)
<1> USE DEF Put
<1>1. /\ DOMAIN J2 = Side
      /\ \A t \in Side : t # s => J2[t] = J[t] /\ S2[t] = S[t]
      /\ J2[s] = Enqueue(J[s], b) /\ S2[s] = Append(S[s], b)
  BY DEF Consistent
<1>2. /\ DOMAIN J2[s] = DOMAIN J[s]
      /\ J2[s].outSeq = J[s].outSeq + 1 /\ J2[s].inAck = J[s].inAck
      /\ J2[s].outAck = J[s].outAck /\ J2[s].inbox = J[s].inbox
      /\ DOMAIN J2[s].outbox = DOMAIN J[s].outbox \cup {J[s].outSeq + 1}
      /\ \A n \in DOMAIN J2[s].outbox :
           J2[s].outbox[n] = IF n = J[s].outSeq + 1 THEN b ELSE J[s].outbox[n]
  BY <1>1, SideFacts DEF Enqueue
<1>3. JournalType(J2[s])
  <2>1. JournalType(J[s])
    BY DEF Consistent
  <2>2. \A n \in DOMAIN J2[s].outbox : n \in Nat /\ J2[s].outbox[n] \in Body
    BY <1>2, <2>1 DEF JournalType
  <2> QED BY <1>2, <2>1, <2>2 DEF JournalType
<1>4. /\ S2[s] \in Seq(Body)
      /\ Len(S2[s]) = Len(S[s]) + 1
      /\ S2[s][Len(S[s]) + 1] = b
      /\ \A n \in 1 .. Len(S[s]) : S2[s][n] = S[s][n]
  BY <1>1, SideFacts, AppendProperties
<1>5. S2 \in [Side -> Seq(Body)]
  BY <1>4 DEF Consistent
<1>6. DOMAIN J2[s].outbox = J2[s].outAck + 1 .. J2[s].outSeq
  <2>1. /\ J[s].outSeq \in Nat /\ J[s].outAck \in Nat /\ J[s].outAck <= J[s].outSeq
        /\ DOMAIN J[s].outbox = J[s].outAck + 1 .. J[s].outSeq
    BY SideFacts
  <2>2. \A n : n \in J[s].outAck + 1 .. J[s].outSeq + 1
               <=> n \in J[s].outAck + 1 .. J[s].outSeq \/ n = J[s].outSeq + 1
    BY <2>1
  <2> QED BY <1>2, <2>1, <2>2
<1>7. \A n \in DOMAIN J2[s].outbox : J2[s].outbox[n] = S2[s][n]
  <2> SUFFICES ASSUME NEW n \in DOMAIN J2[s].outbox
               PROVE  J2[s].outbox[n] = S2[s][n]
    OBVIOUS
  <2>1. CASE n = J[s].outSeq + 1
    BY <2>1, <1>2, <1>4, SideFacts
  <2>2. CASE n # J[s].outSeq + 1
    <3>1. n \in DOMAIN J[s].outbox /\ n \in 1 .. Len(S[s])
      BY <2>2, <1>2, SideFacts
    <3>2. J[s].outbox[n] = S[s][n]
      BY <3>1 DEF Consistent, OutboxIsSuffix
    <3> QED BY <2>2, <3>1, <3>2, <1>2, <1>4
  <2> QED BY <2>1, <2>2
<1>8. ASSUME NEW t \in Side PROVE OutboxIsSuffix(J2, S2, t)
  <2>1. CASE t = s
    <3>1. Peer(s) \in Side /\ Peer(s) # s /\ J2[Peer(s)] = J[Peer(s)]
      BY <1>1, PeerFacts
    <3>2. /\ J[s].outSeq = Len(S[s]) /\ J[s].outAck <= J[Peer(s)].inAck
          /\ J[Peer(s)].inAck <= J[s].outSeq /\ J[s].outSeq \in Nat
          /\ J[Peer(s)].inAck \in Nat
      BY <3>1, SideFacts
    <3>3. J2[s].outSeq = Len(S2[s]) /\ J2[s].outAck <= J2[Peer(s)].inAck
          /\ J2[Peer(s)].inAck <= J2[s].outSeq
      BY <1>2, <1>4, <3>1, <3>2
    <3> QED BY <1>6, <1>7, <2>1, <3>3 DEF OutboxIsSuffix
  <2>2. CASE t # s
    <3>1. Peer(t) = s /\ OutboxIsSuffix(J, S, t)
      BY <2>2 DEF Side, Peer, Consistent
    <3>2. /\ J2[t] = J[t] /\ S2[t] = S[t]
          /\ J2[Peer(t)].inAck = J[Peer(t)].inAck
      BY <2>2, <3>1, <1>1, <1>2
    <3> QED BY <3>1, <3>2 DEF OutboxIsSuffix
  <2> QED BY <2>1, <2>2
<1>9. ASSUME NEW t \in Side PROVE DeliveredIsPrefix(J2, S2, D, t)
  <2>1. DeliveredIsPrefix(J, S, D, t) /\ J2[t].inAck = J[t].inAck
    BY <1>1, <1>2 DEF Consistent
  <2>2. CASE t = s
    BY <2>1, <2>2, <1>1, PeerFacts DEF DeliveredIsPrefix
  <2>3. CASE t # s
    <3>1. Peer(t) = s
      BY <2>3 DEF Side, Peer
    <3>2. \A n \in 1 .. J[t].inAck : n \in 1 .. Len(S[s])
      BY <3>1, SideFacts, PeerFacts
    <3> QED BY <2>1, <3>1, <3>2, <1>4 DEF DeliveredIsPrefix
  <2> QED BY <2>2, <2>3
<1>10. Grows(J, S, J2, S2)
  BY <1>1, <1>2, <1>4, SideFacts DEF Grows
<1> QED BY <1>1, <1>3, <1>5, <1>8, <1>9, <1>10 DEF Consistent

\* acceptInbound() of a row the other side committed.
LEMMA AcceptKeeps ==
  ASSUME NEW J, NEW S, NEW D, Consistent(J, S, D),
         NEW s \in Side, NEW f, FrameIsRow(J, S, Peer(s), f),
         f.seq = J[s].inAck + 1,
         NEW J2, J2 = Put(J, s, AcceptInbound(J[s], f.seq, f.body)),
         NEW D2, D2 = Put(D, s, Append(D[s], f.body))
  PROVE  Consistent(J2, S, D2) /\ Grows(J, S, J2, S)
<1> USE DEF Put
<1>1. /\ DOMAIN J2 = Side
      /\ \A t \in Side : t # s => J2[t] = J[t] /\ D2[t] = D[t]
      /\ J2[s] = AcceptInbound(J[s], f.seq, f.body)
      /\ D2[s] = Append(D[s], f.body)
      /\ f.seq \in Nat /\ f.body \in Body
  BY DEF Consistent, FrameIsRow, Frame
<1>2. /\ DOMAIN J2[s] = DOMAIN J[s]
      /\ J2[s].outSeq = J[s].outSeq /\ J2[s].inAck = f.seq
      /\ J2[s].outAck = J[s].outAck /\ J2[s].outbox = J[s].outbox
      /\ DOMAIN J2[s].inbox = DOMAIN J[s].inbox \cup {f.seq}
      /\ \A n \in DOMAIN J2[s].inbox :
           J2[s].inbox[n] = IF n = f.seq THEN [hash |-> f.body, state |-> "pending"]
                            ELSE J[s].inbox[n]
  BY <1>1 DEF AcceptInbound, Consistent, JournalType
<1>3. JournalType(J2[s])
  BY <1>1, <1>2 DEF Consistent, JournalType, InboxRow, RowState
<1>4. /\ D2 \in [Side -> Seq(Body)]
      /\ Len(D2[s]) = Len(D[s]) + 1
      /\ D2[s][Len(D[s]) + 1] = f.body
      /\ \A n \in 1 .. Len(D[s]) : D2[s][n] = D[s][n]
  BY <1>1 DEF Consistent
<1>5. /\ J[s].inAck = Len(D[s]) /\ J[s].inAck \in Nat
      /\ f.seq <= J[Peer(s)].outSeq /\ f.body = S[Peer(s)][f.seq]
  BY DEF Consistent, JournalType, DeliveredIsPrefix, FrameIsRow
<1>6. ASSUME NEW t \in Side PROVE OutboxIsSuffix(J2, S, t)
  <2>1. OutboxIsSuffix(J, S, t)
    BY DEF Consistent
  <2>2. CASE t = s
    <3>1. J2[Peer(s)] = J[Peer(s)]
      BY <1>1, PeerFacts
    <3>2. OutboxIsSuffix(J, S, s)
      BY <2>1, <2>2
    <3>3. OutboxIsSuffix(J2, S, s)
      BY <3>1, <3>2, <1>2 DEF OutboxIsSuffix
    <3> QED BY <2>2, <3>3
  <2>3. CASE t # s
    <3>1. Peer(t) = s /\ Peer(s) = t
      BY <2>3 DEF Side, Peer
    <3>2. J[t].outAck <= f.seq /\ f.seq <= J[t].outSeq
      BY <3>1, <1>5, SideFacts
    <3> QED BY <2>1, <2>3, <3>1, <3>2, <1>1, <1>2 DEF OutboxIsSuffix
  <2> QED BY <2>2, <2>3
<1>7. ASSUME NEW t \in Side PROVE DeliveredIsPrefix(J2, S, D2, t)
  <2>1. DeliveredIsPrefix(J, S, D, t)
    BY DEF Consistent
  <2>2. CASE t = s
    <3>1. D2[s][f.seq] = S[Peer(s)][f.seq] /\ Len(D2[s]) = f.seq
      BY <1>4, <1>5
    <3>2. \A n \in 1 .. J[s].inAck : D2[s][n] = S[Peer(s)][n]
      BY <2>1, <2>2, <1>4, <1>5 DEF DeliveredIsPrefix
    <3>3. \A n \in 1 .. f.seq : n = f.seq \/ n \in 1 .. J[s].inAck
      BY <1>5
    <3>4. DeliveredIsPrefix(J2, S, D2, s)
      BY <3>1, <3>2, <3>3, <1>2 DEF DeliveredIsPrefix
    <3> QED BY <2>2, <3>4
  <2>3. CASE t # s
    BY <2>1, <2>3, <1>1 DEF DeliveredIsPrefix
  <2> QED BY <2>2, <2>3
<1>8. Grows(J, S, J2, S)
  <2>1. ASSUME NEW t \in Side
        PROVE  J[t].outSeq <= J2[t].outSeq /\ J[t].inAck <= J2[t].inAck
    <3>1. J[t].outSeq \in Nat /\ J[t].inAck \in Nat BY SideFacts
    <3>2. CASE t = s BY <1>2, <1>5, <3>1, <3>2
    <3>3. CASE t # s BY <1>1, <3>1, <3>3
    <3> QED BY <3>2, <3>3
  <2> QED BY <2>1 DEF Grows
<1> QED BY <1>1, <1>3, <1>4, <1>6, <1>7, <1>8 DEF Consistent

\* claimInbound(), completeInbound(), pruneProcessed(): the inbox only.
OnlyInboxMoves(j, k) ==
  /\ DOMAIN k = DOMAIN j
  /\ k.outSeq = j.outSeq /\ k.outAck = j.outAck /\ k.inAck = j.inAck
  /\ k.outbox = j.outbox
  /\ \A n \in DOMAIN k.inbox : n \in Nat /\ k.inbox[n] \in InboxRow

LEMMA InboxMovesKeep ==
  ASSUME NEW J, NEW S, NEW D, Consistent(J, S, D),
         NEW s \in Side, NEW k, OnlyInboxMoves(J[s], k),
         NEW J2, J2 = Put(J, s, k)
  PROVE  Consistent(J2, S, D) /\ Grows(J, S, J2, S)
<1> USE DEF Put
<1>1. /\ DOMAIN J2 = Side
      /\ \A t \in Side : t # s => J2[t] = J[t]
      /\ J2[s] = k
  BY DEF Consistent
<1>2. \A t \in Side : /\ J2[t].outSeq = J[t].outSeq /\ J2[t].outAck = J[t].outAck
                      /\ J2[t].inAck = J[t].inAck /\ J2[t].outbox = J[t].outbox
  BY <1>1 DEF OnlyInboxMoves
<1>3. \A t \in Side : JournalType(J2[t])
  BY <1>1 DEF Consistent, JournalType, OnlyInboxMoves
<1>4. \A t \in Side : OutboxIsSuffix(J2, S, t) /\ DeliveredIsPrefix(J2, S, D, t)
  BY <1>2, PeerFacts DEF Consistent, OutboxIsSuffix, DeliveredIsPrefix
<1>5. Grows(J, S, J2, S)
  BY <1>2 DEF Grows, Consistent, JournalType
<1> QED BY <1>1, <1>3, <1>4, <1>5 DEF Consistent

LEMMA InboxMoves ==
  ASSUME NEW j, JournalType(j)
  PROVE  /\ \A n \in DOMAIN j.inbox :
              /\ OnlyInboxMoves(j, ClaimInbound(j, n))
              /\ DOMAIN ClaimInbound(j, n).inbox = DOMAIN j.inbox
              /\ OnlyInboxMoves(j, CompleteInbound(j, n))
              /\ DOMAIN CompleteInbound(j, n).inbox = DOMAIN j.inbox
         /\ OnlyInboxMoves(j, PruneProcessed(j))
<1> DEFINE Moved(n, st) == [j EXCEPT !.inbox[n].state = st]
<1>1. ASSUME NEW n \in DOMAIN j.inbox, NEW st \in RowState
      PROVE  /\ OnlyInboxMoves(j, Moved(n, st))
             /\ DOMAIN Moved(n, st).inbox = DOMAIN j.inbox
  <2>1. /\ Moved(n, st).inbox = [j.inbox EXCEPT ![n] = [j.inbox[n] EXCEPT !.state = st]]
        /\ DOMAIN Moved(n, st) = DOMAIN j /\ Moved(n, st).outSeq = j.outSeq
        /\ Moved(n, st).outAck = j.outAck /\ Moved(n, st).inAck = j.inAck
        /\ Moved(n, st).outbox = j.outbox
    BY DEF JournalType
  <2>2. [j.inbox[n] EXCEPT !.state = st] \in InboxRow
    BY DEF JournalType, InboxRow
  <2> HIDE DEF Moved
  <2> QED BY <2>1, <2>2 DEF OnlyInboxMoves, JournalType
<1>2. OnlyInboxMoves(j, PruneProcessed(j))
  BY DEF JournalType, OnlyInboxMoves, PruneProcessed
<1>3. "processing" \in RowState /\ "processed" \in RowState
  BY DEF RowState
<1>4. \A n : /\ ClaimInbound(j, n) = Moved(n, "processing")
             /\ CompleteInbound(j, n) = Moved(n, "processed")
  BY DEF ClaimInbound, CompleteInbound
<1> HIDE DEF Moved
<1> QED BY <1>1, <1>2, <1>3, <1>4

-----------------------------------------------------------------------------
(* Growth, frames and sockets *)

LEMMA GrowsTransitive ==
  ASSUME NEW J, NEW S, NEW D, NEW J1, NEW S1, NEW D1, NEW J2, NEW S2, NEW D2,
         Consistent(J, S, D), Consistent(J1, S1, D1), Consistent(J2, S2, D2),
         Grows(J, S, J1, S1), Grows(J1, S1, J2, S2)
  PROVE  Grows(J, S, J2, S2)
<1> SUFFICES ASSUME NEW s \in Side
             PROVE  /\ J[s].outSeq <= J2[s].outSeq
                    /\ J[s].inAck <= J2[s].inAck
                    /\ \A n \in 1 .. J[s].outSeq : S2[s][n] = S[s][n]
  BY DEF Grows
<1>1. /\ J[s].outSeq \in Nat /\ J1[s].outSeq \in Nat /\ J2[s].outSeq \in Nat
      /\ J[s].inAck \in Nat /\ J1[s].inAck \in Nat /\ J2[s].inAck \in Nat
  BY SideFacts
<1>2. /\ J[s].outSeq <= J1[s].outSeq /\ J1[s].outSeq <= J2[s].outSeq
      /\ J[s].inAck <= J1[s].inAck /\ J1[s].inAck <= J2[s].inAck
      /\ \A n \in 1 .. J[s].outSeq : S1[s][n] = S[s][n]
      /\ \A n \in 1 .. J1[s].outSeq : S2[s][n] = S1[s][n]
  BY DEF Grows
<1> QED BY <1>1, <1>2

LEMMA GrowthKeepsFrames ==
  ASSUME NEW J, NEW S, NEW D, NEW J2, NEW S2, NEW D2, NEW W,
         Consistent(J, S, D), Consistent(J2, S2, D2), Grows(J, S, J2, S2)
  PROVE  /\ \A s \in Side : \A f : FrameIsRow(J, S, s, f) => FrameIsRow(J2, S2, s, f)
         /\ FramesAreRows(W, J, S) => FramesAreRows(W, J2, S2)
         /\ \A h : HandshakeIsReached(h, J) => HandshakeIsReached(h, J2)
<1>1. ASSUME NEW s \in Side, NEW f, FrameIsRow(J, S, s, f)
      PROVE  FrameIsRow(J2, S2, s, f)
  <2>1. /\ f.seq \in Nat /\ f.ack \in Nat
        /\ J[s].outSeq \in Nat /\ J[s].inAck \in Nat
        /\ J2[s].outSeq \in Nat /\ J2[s].inAck \in Nat
    BY <1>1, SideFacts DEF FrameIsRow, Frame
  <2> QED BY <1>1, <2>1 DEF FrameIsRow, Grows
<1>2. FramesAreRows(W, J, S) => FramesAreRows(W, J2, S2)
  BY <1>1 DEF FramesAreRows
<1>3. ASSUME NEW h, HandshakeIsReached(h, J) PROVE HandshakeIsReached(h, J2)
  <2>1. /\ "node" \in Side /\ "hub" \in Side
        /\ \A s \in Side : J[s].inAck \in Nat /\ J2[s].inAck \in Nat
        /\ h.ack \in Nat
    BY <1>3, SideFacts DEF Side, HandshakeIsReached, HandshakeType
  <2> QED BY <1>3, <2>1 DEF HandshakeIsReached, Grows
<1> QED BY <1>1, <1>2, <1>3

\* The rows a flush renders: an interval of sequences, so Nth picks from it.
LEMMA NthOfInterval ==
  ASSUME NEW a \in Nat, NEW b \in Nat, NEW i \in 1 .. Cardinality(a .. b)
  PROVE  Nth(a .. b, i) \in a .. b
<1>0. a \in Int /\ b \in Int
  OBVIOUS
<1>1. /\ Cardinality(a .. b) = b - a + 1 /\ a <= b
  BY <1>0, FS_Interval
<1>2. a + i - 1 \in a .. b
  BY <1>1
<1>3. {m \in a .. b : m <= a + i - 1} = a .. a + i - 1
  <2>1. \A m : m \in a .. b /\ m <= a + i - 1 <=> m \in a .. a + i - 1
    BY <1>1, <1>2
  <2> QED BY <2>1
<1>4. Cardinality(a .. a + i - 1) = i
  <2>1. a + i - 1 \in Int /\ ~(a > a + i - 1) /\ (a + i - 1) - a + 1 = i
    BY <1>1
  <2> QED BY <2>1, FS_Interval
<1> QED BY <1>2, <1>3, <1>4 DEF Nth

LEMMA UnsentInterval ==
  ASSUME NEW J, NEW S, NEW D, Consistent(J, S, D), NEW s \in Side, NEW c \in Nat
  PROVE  /\ IsFiniteSet(UnsentRows(J[s], c))
         /\ UnsentRows(J[s], c) \in SUBSET DOMAIN J[s].outbox
         /\ \A i \in 1 .. Cardinality(UnsentRows(J[s], c)) :
              Nth(UnsentRows(J[s], c), i) \in UnsentRows(J[s], c)
<1> DEFINE j == J[s]
           lo == IF c > j.outAck THEN c + 1 ELSE j.outAck + 1
<1>1. /\ j.outAck \in Nat /\ j.outSeq \in Nat /\ lo \in Nat
      /\ DOMAIN j.outbox = j.outAck + 1 .. j.outSeq
  BY SideFacts
<1>2. UnsentRows(j, c) = lo .. j.outSeq
  <2>1. \A n : n \in j.outAck + 1 .. j.outSeq /\ n > c <=> n \in lo .. j.outSeq
    BY <1>1
  <2> QED BY <1>1, <2>1 DEF UnsentRows
<1> HIDE DEF lo
<1>3. IsFiniteSet(lo .. j.outSeq)
  <2>1. lo \in Int /\ j.outSeq \in Int
    BY <1>1
  <2> QED BY <2>1, FS_Interval
<1> QED BY <1>1, <1>2, <1>3, NthOfInterval DEF UnsentRows

\* A non-empty finite set of integers has a greatest element: the one with
\* the smallest set of greater elements.
LEMMA FiniteSetHasGreatest ==
  ASSUME NEW Q \in SUBSET Int, IsFiniteSet(Q), Q # {}
  PROVE  \E n \in Q : \A m \in Q : m <= n
<1> DEFINE Above(x) == {m \in Q : m > x}
           T == {Above(x) : x \in Q}
<1>1. T \subseteq FiniteSubsetsOf(Q) /\ T # {}
  <2>1. \A x : Above(x) \in SUBSET Q /\ IsFiniteSet(Above(x))
    BY FS_Subset
  <2> QED BY <2>1 DEF FiniteSubsetsOf
<1> HIDE DEF Above
<1>2. PICK U \in T : \A V \in T : <<V, U>> \notin StrictSubsetOrdering(Q)
  BY <1>1, FS_StrictSubsetOrderingWellFounded, WFMin
<1>3. PICK n \in Q : U = Above(n)
  OBVIOUS
<1>4. ASSUME NEW m \in Q, ~(m <= n) PROVE FALSE
  <2>1. /\ Above(m) \in SUBSET Q /\ Above(n) \in SUBSET Q
        /\ m \in Above(n) /\ m \notin Above(m)
        /\ \A x \in Above(m) : x \in Above(n)
    BY <1>4 DEF Above
  <2>2. <<Above(m), U>> \in StrictSubsetOrdering(Q)
    BY <1>3, <2>1 DEF StrictSubsetOrdering
  <2> QED BY <1>2, <2>2
<1> QED BY <1>4

\* Whatever a flush of s renders is a row of s under the cursor of now.
LEMMA OutgoingFrames ==
  ASSUME NEW J, NEW S, NEW D, Consistent(J, S, D), NEW s \in Side, NEW c \in Nat
  PROVE  /\ Outgoing(J[s], c) \in Seq(Frame)
         /\ \A i \in DOMAIN Outgoing(J[s], c) : FrameIsRow(J, S, s, Outgoing(J[s], c)[i])
         /\ NewCursor(J[s], c) \in Nat
<1> DEFINE j == J[s]
<1>1. ASSUME NEW n \in DOMAIN j.outbox
      PROVE  FrameIsRow(J, S, s, Rendered(j, n)) /\ Rendered(j, n) \in Frame
  <2>1. /\ n \in Nat /\ 1 <= n /\ n <= j.outSeq /\ j.inAck \in Nat
    BY SideFacts
  <2>2. j.outbox[n] = S[s][n] /\ j.outbox[n] \in Body
    BY DEF Consistent, OutboxIsSuffix, JournalType
  <2> QED BY <2>1, <2>2 DEF FrameIsRow, Rendered, Frame
<1>2. CASE UnsentRows(j, c) = {}
  <2>1. NewCursor(j, c) = c /\ Outgoing(j, c) = Refresh(j)
    BY <1>2 DEF NewCursor, Outgoing
  <2>2. CASE PendingAcks(j) = {}
    BY <2>1, <2>2 DEF Refresh
  <2>3. CASE PendingAcks(j) # {}
    <3>1. NewestPendingAck(j) \in DOMAIN j.outbox
      <4> DEFINE Q == PendingAcks(j)
      <4>1. Q \in SUBSET (j.outAck + 1 .. j.outSeq) /\ Q # {}
        BY <2>3, SideFacts DEF PendingAcks
      <4>2. IsFiniteSet(Q) /\ Q \in SUBSET Int
        <5>1. j.outAck + 1 \in Int /\ j.outSeq \in Int
          BY SideFacts
        <5>2. IsFiniteSet(j.outAck + 1 .. j.outSeq)
          BY <5>1, FS_Interval
        <5>3. IsFiniteSet(Q)
          BY <4>1, <5>2, FS_Subset
        <5> QED BY <4>1, <5>3
      <4>3. \E n \in Q : \A m \in Q : m <= n
        BY <4>1, <4>2, FiniteSetHasGreatest
      <4> QED BY <4>3 DEF NewestPendingAck, PendingAcks
    <3>2. Outgoing(j, c) = <<Rendered(j, NewestPendingAck(j))>>
      BY <2>1, <2>3 DEF Refresh
    <3> QED BY <3>1, <3>2, <2>1, <1>1
  <2> QED BY <2>2, <2>3
<1>3. CASE UnsentRows(j, c) # {}
  <2> DEFINE k == Cardinality(UnsentRows(j, c))
  <2>1. k \in Nat /\ k # 0
    BY <1>3, UnsentInterval, FS_CardinalityType, FS_EmptySet
  <2>2. Outgoing(j, c) = [i \in 1 .. k |-> Rendered(j, Nth(UnsentRows(j, c), i))]
    BY <1>3 DEF Outgoing, Page
  <2>3. \A i \in 1 .. k : Nth(UnsentRows(j, c), i) \in DOMAIN j.outbox
    BY UnsentInterval
  <2>4. NewCursor(j, c) = Outgoing(j, c)[Len(Outgoing(j, c))].seq
    BY <1>3 DEF NewCursor, Outgoing
  <2>5. /\ Outgoing(j, c) \in Seq(Frame)
        /\ Len(Outgoing(j, c)) = k /\ DOMAIN Outgoing(j, c) = 1 .. k
    BY <2>1, <2>2, <2>3, <1>1
  <2>6. Outgoing(j, c)[k] \in Frame
    BY <2>1, <2>5
  <2> QED BY <2>1, <2>2, <2>3, <2>4, <2>5, <2>6, <1>1 DEF Frame
<1> QED BY <1>2, <1>3

\* Writing rows of s to its socket, losing what is in flight to r, and
\* consuming a frame: a wire that held rows still holds rows.
LEMMA TransmitKeepsFrames ==
  ASSUME NEW J, NEW S, NEW W, FramesAreRows(W, J, S),
         NEW s \in Side, NEW g \in Generation,
         NEW fs \in Seq(Frame), \A i \in DOMAIN fs : FrameIsRow(J, S, s, fs[i])
  PROVE  FramesAreRows([W EXCEPT ![<<g, s>>] = W[<<g, s>>] \o fs], J, S)
<1> DEFINE q == W[<<g, s>>]
           W2 == [W EXCEPT ![<<g, s>>] = q \o fs]
<1>1. <<g, s>> \in Generation \X Side /\ q \in Seq(Frame)
  BY DEF FramesAreRows
<1>2. /\ q \o fs \in Seq(Frame)
      /\ DOMAIN (q \o fs) = 1 .. Len(q) + Len(fs)
      /\ \A i \in 1 .. Len(q) + Len(fs) :
           (q \o fs)[i] = IF i <= Len(q) THEN q[i] ELSE fs[i - Len(q)]
  BY <1>1, ConcatProperties
<1>3. \A i \in DOMAIN (q \o fs) : FrameIsRow(J, S, s, (q \o fs)[i])
  <2> SUFFICES ASSUME NEW i \in DOMAIN (q \o fs)
               PROVE  FrameIsRow(J, S, s, (q \o fs)[i])
    OBVIOUS
  <2>1. CASE i <= Len(q)
    <3>1. i \in DOMAIN q /\ (q \o fs)[i] = q[i]
      BY <2>1, <1>1, <1>2
    <3> QED BY <3>1 DEF FramesAreRows
  <2>2. CASE ~(i <= Len(q))
    <3>1. i - Len(q) \in DOMAIN fs /\ (q \o fs)[i] = fs[i - Len(q)]
      BY <2>2, <1>1, <1>2
    <3> QED BY <3>1
  <2> QED BY <2>1, <2>2
<1>4. /\ W2 \in [Generation \X Side -> Seq(Frame)]
      /\ W2[<<g, s>>] = q \o fs
      /\ \A h \in Generation, t \in Side : <<h, t>> # <<g, s>> => W2[<<h, t>>] = W[<<h, t>>]
  BY <1>1, <1>2 DEF FramesAreRows
<1> HIDE DEF W2
<1>5. ASSUME NEW h \in Generation, NEW t \in Side
      PROVE  \A i \in DOMAIN W2[<<h, t>>] : FrameIsRow(J, S, t, W2[<<h, t>>][i])
  <2>1. CASE h = g /\ t = s
    BY <2>1, <1>3, <1>4
  <2>2. CASE ~(h = g /\ t = s)
    <3>1. W2[<<h, t>>] = W[<<h, t>>]
      BY <2>2, <1>4
    <3> QED BY <3>1 DEF FramesAreRows
  <2> QED BY <2>1, <2>2
<1>6. FramesAreRows(W2, J, S)
  BY <1>4, <1>5 DEF FramesAreRows
<1> QED BY <1>6 DEF W2

LEMMA ShorterWireKeepsFrames ==
  ASSUME NEW J, NEW S, NEW W, FramesAreRows(W, J, S),
         NEW W2 \in [Generation \X Side -> Seq(Frame)],
         \A x \in Generation \X Side :
            W2[x] = W[x] \/ W2[x] = <<>> \/ (W[x] # <<>> /\ W2[x] = Tail(W[x]))
  PROVE  FramesAreRows(W2, J, S)
<1> SUFFICES ASSUME NEW g \in Generation, NEW s \in Side,
                    NEW i \in DOMAIN W2[<<g, s>>]
             PROVE  FrameIsRow(J, S, s, W2[<<g, s>>][i])
  BY DEF FramesAreRows
<1> DEFINE x == <<g, s>>
<1>1. x \in Generation \X Side /\ W[x] \in Seq(Frame)
  BY DEF FramesAreRows
<1>2. CASE W2[x] = W[x]
  BY <1>2 DEF FramesAreRows
<1>3. CASE W2[x] = <<>>
  BY <1>3
<1>4. CASE W[x] # <<>> /\ W2[x] = Tail(W[x])
  <2>1. i + 1 \in DOMAIN W[x] /\ W2[x][i] = W[x][i + 1]
    BY <1>1, <1>4, HeadTailProperties
  <2> QED BY <2>1 DEF FramesAreRows
<1> QED BY <1>1, <1>2, <1>3, <1>4

-----------------------------------------------------------------------------
(* Handlers: several transactions in one step *)

LEMMA PutFacts ==
  ASSUME NEW F, NEW s \in DOMAIN F, NEW a, NEW b
  PROVE  Put(F, s, a)[s] = a /\ Put(Put(F, s, a), s, b) = Put(F, s, b)
BY DEF Put

\* The frame a side is about to handle.
LEMMA IncomingFacts ==
  ASSUME IInv, NEW s \in Side, Arriving(s)
  PROVE  /\ FrameIsRow(journal, sent, Peer(s), Incoming(s))
         /\ FramesAreRows(Consumed(s), journal, sent)
         /\ conn[s] \in Generation
<1> DEFINE x == <<conn[s], Peer(s)>>
<1>1. conn[s] \in Generation /\ Peer(s) \in Side
  BY PeerFacts DEF IInv, Control, Arriving, Generation
<1>2. x \in Generation \X Side /\ wire[x] \in Seq(Frame) /\ wire[x] # <<>>
  BY <1>1 DEF IInv, FramesAreRows, Arriving
<1>3. Incoming(s) = wire[x][1] /\ 1 \in DOMAIN wire[x]
  BY <1>2 DEF Incoming
<1>4. FrameIsRow(journal, sent, Peer(s), Incoming(s))
  BY <1>1, <1>3 DEF IInv, FramesAreRows
<1>5. /\ Consumed(s) \in [Generation \X Side -> Seq(Frame)]
      /\ \A y \in Generation \X Side :
           Consumed(s)[y] = wire[y] \/ (wire[y] # <<>> /\ Consumed(s)[y] = Tail(wire[y]))
  BY <1>2, HeadTailProperties DEF Consumed, IInv, FramesAreRows
<1>6. FramesAreRows(Consumed(s), journal, sent)
  BY <1>5, ShorterWireKeepsFrames DEF IInv
<1> QED BY <1>1, <1>4, <1>6

\* Applying the acknowledgement a frame carries.
LEMMA AcknowledgeIncoming ==
  ASSUME IInv, NEW s \in Side, Arriving(s), AckInRange(journal[s], Incoming(s).ack),
         NEW J, J = Put(journal, s, Acknowledged(s))
  PROVE  /\ Consistent(J, sent, delivered) /\ Grows(journal, sent, J, sent)
         /\ J[s] = Acknowledged(s) /\ J[s].inAck = journal[s].inAck
<1>1. /\ Incoming(s).ack \in Nat
      /\ Incoming(s).ack <= journal[Peer(s)].inAck
  BY IncomingFacts DEF FrameIsRow, Frame
<1>2. Consistent(J, sent, delivered) /\ Grows(journal, sent, J, sent)
  BY <1>1, AcknowledgeKeeps DEF IInv, Acknowledged
<1>3. J[s] = Acknowledged(s)
  <2>1. s \in DOMAIN journal
    BY DEF IInv, Consistent
  <2> QED BY <2>1, PutFacts
<1>4. J[s].inAck = journal[s].inAck
  <2>1. "inAck" \in DOMAIN journal[s]
    BY SideFacts DEF IInv
  <2>2. Acknowledged(s).inAck = journal[s].inAck
    BY <2>1 DEF Acknowledged, AcknowledgeOutbound
  <2> QED BY <1>3, <2>2
<1> QED BY <1>2, <1>3, <1>4

\* Persisting the frame, claiming it, completing it.
LEMMA AcceptIncoming ==
  ASSUME IInv, NEW s \in Side, Arrives(s, "accepted"),
         NEW D, D = Put(delivered, s, Append(delivered[s], Incoming(s).body)),
         NEW k \in {Accepted(s), Claimed(s), Completed(s)},
         NEW J, J = Put(journal, s, k)
  PROVE  /\ Consistent(J, sent, D) /\ Grows(journal, sent, J, sent)
         /\ J[s] = k
<1> DEFINE f == Incoming(s)
           J1 == Put(journal, s, Acknowledged(s))
           J2 == Put(journal, s, Accepted(s))
           J3 == Put(journal, s, Claimed(s))
           K4 == CompleteInbound(Claimed(s), f.seq)
           J4 == Put(journal, s, K4)
           J5 == Put(journal, s, Completed(s))
<1>0. s \in DOMAIN journal /\ Consistent(journal, sent, delivered)
  BY DEF IInv, Consistent
<1>1. /\ Consistent(J1, sent, delivered) /\ Grows(journal, sent, J1, sent)
      /\ J1[s] = Acknowledged(s)
  BY AcknowledgeIncoming DEF Arrives
<1>2. Consistent(J2, sent, D) /\ Grows(journal, sent, J2, sent)
  <2>1. FrameIsRow(J1, sent, Peer(s), f)
    BY <1>0, <1>1, IncomingFacts, GrowthKeepsFrames, PeerFacts DEF Arrives
  <2>2. f.seq = J1[s].inAck + 1
    <3>1. /\ f.seq \in Nat /\ Acknowledged(s).inAck \in Nat
          /\ Acceptance(Acknowledged(s), f.seq, f.body) = "accepted"
      BY <1>1, <2>1, SideFacts DEF FrameIsRow, Frame, Arrives
    <3> QED BY <3>1, <1>1 DEF Acceptance
  <2>3. J2 = Put(J1, s, AcceptInbound(J1[s], f.seq, f.body))
    BY <1>0, <1>1, PutFacts DEF Accepted
  <2> HIDE DEF J1, J2, f
  <2>4. Consistent(J2, sent, D) /\ Grows(J1, sent, J2, sent)
    BY <1>1, <2>1, <2>2, <2>3, AcceptKeeps DEF f
  <2> QED BY <1>0, <1>1, <2>4, GrowsTransitive
<1>3. /\ Consistent(J3, sent, D) /\ Grows(journal, sent, J3, sent)
      /\ f.seq \in DOMAIN Claimed(s).inbox
  <2>1. J2[s] = Accepted(s) /\ JournalType(J2[s])
    <3>1. J2[s] = Accepted(s) BY <1>0, PutFacts
    <3> HIDE DEF J2
    <3>2. JournalType(J2[s]) BY <1>2 DEF Consistent
    <3> QED BY <3>1, <3>2
  <2>2. f.seq \in DOMAIN Accepted(s).inbox
    <3>1. JournalType(Acknowledged(s))
      BY <1>1 DEF Consistent
    <3> QED BY <3>1 DEF Accepted, AcceptInbound, JournalType
  <2>3. OnlyInboxMoves(J2[s], Claimed(s)) /\ f.seq \in DOMAIN Claimed(s).inbox
    BY <2>1, <2>2, InboxMoves DEF Claimed
  <2>4. J3 = Put(J2, s, Claimed(s))
    BY <1>0, PutFacts
  <2> HIDE DEF J2, J3
  <2>5. Consistent(J3, sent, D) /\ Grows(J2, sent, J3, sent)
    BY <1>2, <2>3, <2>4, InboxMovesKeep
  <2> QED BY <1>0, <1>2, <2>3, <2>5, GrowsTransitive
<1>4. Consistent(J4, sent, D) /\ Grows(journal, sent, J4, sent)
  <2>1. J3[s] = Claimed(s) /\ JournalType(J3[s]) /\ J4 = Put(J3, s, K4)
    BY <1>0, <1>3, PutFacts DEF Consistent
  <2>2. OnlyInboxMoves(J3[s], K4)
    BY <1>3, <2>1, InboxMoves
  <2> HIDE DEF J3, J4, K4
  <2>3. Consistent(J4, sent, D) /\ Grows(J3, sent, J4, sent)
    BY <1>3, <2>1, <2>2, InboxMovesKeep
  <2> QED BY <1>0, <1>3, <2>3, GrowsTransitive
<1>5. Consistent(J5, sent, D) /\ Grows(journal, sent, J5, sent)
  <2>1. J4[s] = K4 /\ JournalType(J4[s]) /\ J5 = Put(J4, s, Completed(s))
    BY <1>0, <1>4, PutFacts DEF Consistent
  <2>2. OnlyInboxMoves(J4[s], Completed(s))
    BY <2>1, InboxMoves DEF Completed
  <2> HIDE DEF J4, J5
  <2>3. Consistent(J5, sent, D) /\ Grows(J4, sent, J5, sent)
    BY <1>4, <2>1, <2>2, InboxMovesKeep
  <2> QED BY <1>0, <1>4, <2>3, GrowsTransitive
<1> QED BY <1>0, <1>2, <1>3, <1>5, PutFacts

LEMMA TransmitFrames ==
  ASSUME NEW J, NEW S, NEW D, Consistent(J, S, D), FramesAreRows(wire, J, S),
         NEW s \in Side, conn[s] \in Generation, NEW c \in Nat
  PROVE  FramesAreRows(Transmit(s, Outgoing(J[s], c)), J, S)
<1> DEFINE fs == Outgoing(J[s], c)
<1>1. fs \in Seq(Frame) /\ \A i \in DOMAIN fs : FrameIsRow(J, S, s, fs[i])
  BY OutgoingFrames
<1> HIDE DEF fs
<1>2. FramesAreRows([wire EXCEPT ![<<conn[s], s>>] = wire[<<conn[s], s>>] \o fs], J, S)
  BY <1>1, TransmitKeepsFrames
<1>3. FramesAreRows(Transmit(s, fs), J, S)
  BY <1>2 DEF Transmit
<1> QED BY <1>3 DEF fs

LEMMA DrainedFrames ==
  ASSUME NEW J, NEW S, NEW W, FramesAreRows(W, J, S), NEW g, NEW r
  PROVE  FramesAreRows(Drained(W, g, r), J, S)
<1>1. /\ Drained(W, g, r) \in [Generation \X Side -> Seq(Frame)]
      /\ \A x \in Generation \X Side : Drained(W, g, r)[x] \in {W[x], <<>>}
  BY DEF Drained, FramesAreRows
<1> QED BY <1>1, ShorterWireKeepsFrames

LEMMA ForgottenFrames ==
  ASSUME IInv, NEW s \in Side, Forget(s)
  PROVE  FramesAreRows(wire', journal, sent)
<1>1. /\ wire' \in [Generation \X Side -> Seq(Frame)]
      /\ \A x \in Generation \X Side : wire'[x] \in {wire[x], <<>>}
  BY DEF Forget, IInv, FramesAreRows
<1> QED BY <1>1, ShorterWireKeepsFrames DEF IInv

-----------------------------------------------------------------------------
(* The steps of the specification *)

\* The part of the invariant the journals, sockets and handshake carry.
Core == /\ Consistent(journal, sent, delivered)
        /\ FramesAreRows(wire, journal, sent)
        /\ HandshakeIsReached(handshake, journal)

LEMMA CoreStep ==
  ASSUME IInv, Consistent(journal', sent', delivered'),
         Grows(journal, sent, journal', sent'),
         FramesAreRows(wire', journal', sent') \/ FramesAreRows(wire', journal, sent),
         HandshakeIsReached(handshake', journal') \/ HandshakeIsReached(handshake', journal)
  PROVE  Core'
BY GrowthKeepsFrames DEF IInv, Core

\* No journal, no history moves.
LEMMA StillStep ==
  ASSUME IInv, UNCHANGED <<journal, sent, delivered>>,
         FramesAreRows(wire', journal, sent),
         HandshakeIsReached(handshake', journal)
  PROVE  Core'
BY DEF IInv, Core

LEMMA NoHandshakeIsReached == \A J : HandshakeIsReached(NoHandshake, J)
BY ChannelAssumption DEF HandshakeIsReached, HandshakeType, NoHandshake

LEMMA InitCore == Init => IInv
<1> SUFFICES ASSUME Init PROVE IInv
  OBVIOUS
<1>1. /\ DOMAIN journal = Side
      /\ \A s \in Side : journal[s] = EmptyJournal
  BY DEF Init
<1>2. /\ JournalType(EmptyJournal)
      /\ EmptyJournal.outSeq = 0 /\ EmptyJournal.outAck = 0 /\ EmptyJournal.inAck = 0
      /\ DOMAIN EmptyJournal.outbox = {}
  BY DEF EmptyJournal, JournalType
<1>3. sent \in [Side -> Seq(Body)] /\ delivered \in [Side -> Seq(Body)]
  BY DEF Init
<1>4. \A s \in Side : Len(sent[s]) = 0 /\ Len(delivered[s]) = 0
  BY DEF Init
<1>5. ASSUME NEW s \in Side PROVE OutboxIsSuffix(journal, sent, s)
  <2>1. journal[s] = EmptyJournal /\ journal[Peer(s)] = EmptyJournal
    BY <1>1, PeerFacts
  <2>2. 0 + 1 .. 0 = {}
    OBVIOUS
  <2> QED BY <2>1, <2>2, <1>2, <1>4 DEF OutboxIsSuffix
<1>6. \A s \in Side : DeliveredIsPrefix(journal, sent, delivered, s)
  BY <1>1, <1>2, <1>4 DEF DeliveredIsPrefix
<1>7. Consistent(journal, sent, delivered)
  BY <1>1, <1>2, <1>3, <1>5, <1>6 DEF Consistent
<1>8. FramesAreRows(wire, journal, sent)
  BY DEF Init, FramesAreRows
<1>9. HandshakeIsReached(handshake, journal)
  BY NoHandshakeIsReached DEF Init
<1>10. Control
  BY ChannelAssumption DEF Init, Control
<1> QED BY <1>7, <1>8, <1>9, <1>10 DEF IInv

LEMMA CommitStep ==
  ASSUME IInv, NEW s \in Side, NEW b \in Body, Commit(s, b)
  PROVE  Core'
<1>1. /\ journal' = Put(journal, s, Enqueue(journal[s], b))
      /\ sent' = Put(sent, s, Append(sent[s], b))
      /\ UNCHANGED <<delivered, wire, handshake>>
  BY DEF Commit, Put
<1>2. /\ Consistent(journal', sent', delivered)
      /\ Grows(journal, sent, journal', sent')
  BY <1>1, EnqueueKeeps DEF IInv
<1> QED BY <1>1, <1>2, CoreStep DEF IInv

\* The timer queues a status, or only asks for a flush.
LEMMA TickCases ==
  ASSUME StatusTick
  PROVE  \/ Commit("node", Status)
         \/ /\ wantFlush' = [wantFlush EXCEPT !["node"] = TRUE]
            /\ UNCHANGED <<journal, sent, delivered, finished, generation, conn, cursor,
                           wire, handshake, accepting, faults>>
BY DEF StatusTick, StatusTickWhen, history

LEMMA FlushStep ==
  ASSUME IInv, NEW s \in Side, Flush(s)
  PROVE  Core' /\ cursor' \in [Side -> Nat]
<1>1. conn[s] \in Generation /\ cursor[s] \in Nat
  BY DEF Flush, IInv, Control, Generation
<1>2. FramesAreRows(wire', journal, sent)
  BY <1>1, TransmitFrames DEF Flush, IInv
<1>3. cursor' \in [Side -> Nat]
  BY <1>1, OutgoingFrames DEF Flush, IInv, Control
<1> QED BY <1>2, <1>3, StillStep DEF Flush, history, IInv

LEMMA HandshakeStep ==
  ASSUME IInv, SendProof \/ AcceptProof \/ InstallNode \/ AbandonHandshake
  PROVE  Core'
<1> USE DEF history
<1>0. "hub" \in Side /\ "node" \in Side /\ Peer("hub") = "node" /\ Peer("node") = "hub"
  BY DEF Side, Peer
<1>1. CASE SendProof
  <2>1. HandshakeIsReached(handshake', journal)
    <3>1. journal["node"].inAck \in Nat /\ 0 \in 0 .. MaxGeneration
      BY <1>0, SideFacts, ChannelAssumption DEF IInv
    <3> QED BY <1>1, <3>1 DEF SendProof, HandshakeIsReached, HandshakeType
  <2> QED BY <1>1, <2>1, StillStep DEF SendProof, IInv
<1>2. CASE AcceptProof
  <2>1. /\ handshake.ack \in Nat /\ handshake.ack <= journal["node"].inAck
        /\ AckInRange(journal["hub"], handshake.ack)
    BY <1>2 DEF AcceptProof, IInv, HandshakeIsReached, HandshakeType
  <2>2. /\ journal' = Put(journal, "hub", AcknowledgeOutbound(journal["hub"], handshake.ack))
        /\ UNCHANGED <<sent, delivered, wire>>
    BY <1>2 DEF AcceptProof, Put
  <2>3. /\ Consistent(journal', sent, delivered)
        /\ Grows(journal, sent, journal', sent)
    BY <1>0, <2>1, <2>2, AcknowledgeKeeps DEF IInv
  <2>4. HandshakeIsReached(handshake', journal)
    <3>1. journal["hub"].inAck \in Nat
      BY <1>0, SideFacts DEF IInv
    <3>2. generation \in Nat /\ generation + 1 \in 0 .. MaxGeneration /\ generation + 1 # 0
      BY <1>2, ChannelAssumption DEF AcceptProof, IInv, Control
    <3> QED BY <1>2, <3>1, <3>2 DEF AcceptProof, HandshakeIsReached, HandshakeType
  <2> QED BY <2>2, <2>3, <2>4, CoreStep DEF IInv
<1>3. CASE InstallNode
  <2>1. /\ handshake.ack \in Nat /\ handshake.ack <= journal["hub"].inAck
        /\ AckInRange(journal["node"], handshake.ack)
    BY <1>3 DEF InstallNode, IInv, HandshakeIsReached, HandshakeType
  <2>2. /\ journal' = Put(journal, "node", AcknowledgeOutbound(journal["node"], handshake.ack))
        /\ UNCHANGED <<sent, delivered, wire>>
    BY <1>3 DEF InstallNode, Put
  <2>3. /\ Consistent(journal', sent, delivered)
        /\ Grows(journal, sent, journal', sent)
    BY <1>0, <2>1, <2>2, AcknowledgeKeeps DEF IInv
  <2>4. HandshakeIsReached(handshake', journal)
    BY <1>3, NoHandshakeIsReached DEF InstallNode
  <2> QED BY <2>2, <2>3, <2>4, CoreStep DEF IInv
<1>4. CASE AbandonHandshake
  <2>1. FramesAreRows(wire', journal, sent)
    BY <1>4, DrainedFrames DEF AbandonHandshake, IInv
  <2>2. HandshakeIsReached(handshake', journal)
    BY <1>4, NoHandshakeIsReached DEF AbandonHandshake
  <2> QED BY <1>4, <2>1, <2>2, StillStep DEF AbandonHandshake
<1> QED BY <1>1, <1>2, <1>3, <1>4

LEMMA InstallHubStep ==
  ASSUME IInv, InstallHub
  PROVE  Core'
<1> DEFINE j == journal["hub"]
           all == AllProcessed(j)
<1>0. "hub" \in Side /\ JournalType(j)
  BY DEF Side, IInv, Consistent
<1>1. OnlyInboxMoves(j, all) /\ JournalType(all)
  <2>1. /\ DOMAIN all = DOMAIN j /\ all.outSeq = j.outSeq /\ all.outAck = j.outAck
        /\ all.inAck = j.inAck /\ all.outbox = j.outbox
        /\ DOMAIN all.inbox = DOMAIN j.inbox
        /\ \A n \in DOMAIN all.inbox : all.inbox[n] \in InboxRow
    BY <1>0 DEF JournalType, AllProcessed, InboxRow, RowState
  <2> HIDE DEF all
  <2>2. OnlyInboxMoves(j, all)
    BY <1>0, <2>1 DEF OnlyInboxMoves, JournalType
  <2> QED BY <1>0, <2>2 DEF OnlyInboxMoves, JournalType
<1>2. OnlyInboxMoves(j, PruneProcessed(all))
  <2>1. OnlyInboxMoves(all, PruneProcessed(all))
    BY <1>1, InboxMoves
  <2> HIDE DEF all
  <2> QED BY <1>1, <2>1 DEF OnlyInboxMoves
<1>3. journal' = Put(journal, "hub", PruneProcessed(all))
  BY DEF InstallHub, Put
<1> HIDE DEF all, j
<1>4. Consistent(journal', sent, delivered) /\ Grows(journal, sent, journal', sent)
  BY <1>0, <1>2, <1>3, InboxMovesKeep DEF IInv, j
<1>5. FramesAreRows(wire', journal, sent)
  BY DrainedFrames DEF InstallHub, IInv
<1> QED BY <1>4, <1>5, CoreStep DEF InstallHub, IInv

LEMMA FinishStep ==
  ASSUME IInv, NEW n, FinishDispatch(n)
  PROVE  Core'
<1> DEFINE j == journal["node"]
           k1 == ClaimInbound(j, n)
           k2 == CompleteInbound(k1, n)
           k3 == PruneProcessed(k2)
<1>0. "node" \in Side /\ JournalType(j) /\ n \in DOMAIN j.inbox
  BY DEF Side, IInv, Consistent, FinishDispatch, Recoverable
<1>1. OnlyInboxMoves(j, k1) /\ n \in DOMAIN k1.inbox
  BY <1>0, InboxMoves
<1>2. JournalType(k1)
  BY <1>0, <1>1 DEF OnlyInboxMoves, JournalType
<1>3. OnlyInboxMoves(k1, k2)
  BY <1>1, <1>2, InboxMoves
<1>4. JournalType(k2)
  BY <1>2, <1>3 DEF OnlyInboxMoves, JournalType
<1>5. OnlyInboxMoves(k2, k3)
  BY <1>4, InboxMoves
<1>6. OnlyInboxMoves(j, k3)
  <2> HIDE DEF k1, k2, k3, j
  <2> QED BY <1>1, <1>3, <1>5 DEF OnlyInboxMoves
<1>7. journal' = Put(journal, "node", k3)
  BY DEF FinishDispatch, Put
<1> HIDE DEF k1, k2, k3, j
<1>8. Consistent(journal', sent, delivered) /\ Grows(journal, sent, journal', sent)
  BY <1>0, <1>6, <1>7, InboxMovesKeep DEF IInv, j
<1> QED BY <1>8, CoreStep DEF FinishDispatch, IInv

LEMMA ReceiveAcceptedStep ==
  ASSUME IInv, NEW s \in Side, ReceiveAccepted(s)
  PROVE  Core'
<1> DEFINE f == Incoming(s)
           D == Put(delivered, s, Append(delivered[s], f.body))
<1>0. /\ Arrives(s, "accepted") /\ Arriving(s) /\ handshake' = handshake
      /\ delivered' = D /\ s \in DOMAIN journal /\ s \in DOMAIN sent
  BY DEF ReceiveAccepted, Arrives, Put, IInv, Consistent
<1>1. PICK j \in {Claimed(s), Completed(s)} :
        \/ /\ journal' = [journal EXCEPT ![s] = j]
           /\ wire' \in {Consumed(s), Drained(wire, conn[s], s)}
           /\ UNCHANGED sent
        \/ /\ journal' = [journal EXCEPT ![s] = QueueAck(j)]
           /\ wire' = Consumed(s)
           /\ sent' = IF PendingAcks(j) = {}
                      THEN [sent EXCEPT ![s] = Append(@, Ack)] ELSE sent
  BY DEF ReceiveAccepted, CloseUnacknowledged
<1> DEFINE J == Put(journal, s, j)
<1>2. Consistent(J, sent, D) /\ Grows(journal, sent, J, sent) /\ J[s] = j
  BY <1>0, <1>1, AcceptIncoming
<1>3. FramesAreRows(wire', journal, sent)
  BY <1>0, <1>1, IncomingFacts, DrainedFrames DEF IInv
<1>4. CASE journal' = J /\ UNCHANGED sent
  <2> HIDE DEF J, D
  <2> QED BY <1>0, <1>2, <1>3, <1>4, CoreStep DEF IInv
<1>5. CASE /\ journal' = Put(journal, s, Enqueue(j, Ack))
           /\ sent' = Put(sent, s, Append(sent[s], Ack))
  <2>1. journal' = Put(J, s, Enqueue(J[s], Ack))
    BY <1>0, <1>2, <1>5, PutFacts
  <2> HIDE DEF J, D
  <2>2. Ack \in Body
    BY JournalAssumption
  <2>3. Consistent(journal', sent', D) /\ Grows(J, sent, journal', sent')
    BY <1>2, <1>5, <2>1, <2>2, EnqueueKeeps
  <2>4. Grows(journal, sent, journal', sent')
    BY <1>2, <2>3, GrowsTransitive DEF IInv
  <2> QED BY <1>0, <1>3, <2>3, <2>4, CoreStep DEF IInv
<1>6. QueueAck(j) = IF PendingAcks(j) # {} THEN j ELSE Enqueue(j, Ack)
  BY DEF QueueAck
<1> QED BY <1>1, <1>4, <1>5, <1>6 DEF Put

LEMMA ReceiveOtherStep ==
  ASSUME IInv, NEW s \in Side,
         ReceiveDuplicate(s) \/ ReceiveGap(s) \/ ReceiveRejected(s)
  PROVE  Core'
<1> DEFINE J == Put(journal, s, Acknowledged(s))
<1>0. s \in DOMAIN journal
  BY DEF IInv, Consistent
<1>1. CASE ReceiveDuplicate(s)
  <2>1. /\ Arriving(s) /\ AckInRange(journal[s], Incoming(s).ack)
        /\ journal' = J /\ wire' = Consumed(s)
        /\ UNCHANGED <<sent, delivered, handshake>>
    BY <1>1 DEF ReceiveDuplicate, Arrives, history, Put
  <2>2. Consistent(J, sent, delivered) /\ Grows(journal, sent, J, sent)
    BY <2>1, AcknowledgeIncoming
  <2> HIDE DEF J
  <2>3. FramesAreRows(wire', journal, sent)
    BY <2>1, IncomingFacts
  <2> QED BY <2>1, <2>2, <2>3, CoreStep DEF IInv
<1>2. CASE ReceiveGap(s)
  <2> DEFINE asks == s = "hub" /\ CanEnqueue(Acknowledged(s))
  <2>1. /\ Arriving(s) /\ AckInRange(journal[s], Incoming(s).ack)
        /\ UNCHANGED <<delivered, handshake>>
    BY <1>2 DEF ReceiveGap, Arrives
  <2>2. /\ Consistent(J, sent, delivered) /\ Grows(journal, sent, J, sent)
        /\ J[s] = Acknowledged(s)
    BY <2>1, AcknowledgeIncoming
  <2>3. CASE asks
    <3>1. /\ journal' = [journal EXCEPT ![s] = Enqueue(Acknowledged(s), Resync)]
          /\ sent' = [sent EXCEPT ![s] = Append(@, Resync)]
          /\ wire' = Drained(Transmit(s, Outgoing(Enqueue(Acknowledged(s), Resync), cursor[s])),
                             conn[s], s)
      BY <1>2, <2>3 DEF ReceiveGap
    <3>2. /\ journal' = Put(J, s, Enqueue(J[s], Resync))
          /\ sent' = Put(sent, s, Append(sent[s], Resync))
      BY <1>0, <2>2, <3>1, PutFacts DEF Put
    <3>3. journal'[s] = Enqueue(Acknowledged(s), Resync)
      BY <1>0, <3>1
    <3> HIDE DEF J
    <3>4. Resync \in Body
      BY ChannelAssumption
    <3>5. Consistent(journal', sent', delivered) /\ Grows(J, sent, journal', sent')
      BY <2>2, <3>2, <3>4, EnqueueKeeps
    <3>6. Grows(journal, sent, journal', sent')
      BY <2>2, <3>5, GrowsTransitive DEF IInv
    <3>7. FramesAreRows(wire, journal', sent')
      BY <3>5, <3>6, GrowthKeepsFrames DEF IInv
    <3>8. conn[s] \in Generation /\ cursor[s] \in Nat
      BY <2>1, IncomingFacts DEF IInv, Control
    <3>9. FramesAreRows(wire', journal', sent')
      <4>1. FramesAreRows(Transmit(s, Outgoing(journal'[s], cursor[s])), journal', sent')
        BY <3>5, <3>7, <3>8, TransmitFrames
      <4> QED BY <3>1, <3>3, <4>1, DrainedFrames
    <3> QED BY <2>1, <3>5, <3>6, <3>9, CoreStep DEF IInv
  <2>4. CASE ~asks
    <3>1. /\ journal' = J /\ sent' = sent
          /\ wire' = Drained(wire, conn[s], s)
      BY <1>2, <2>4 DEF ReceiveGap, Put
    <3> HIDE DEF J
    <3>2. FramesAreRows(wire', journal, sent)
      BY <3>1, DrainedFrames DEF IInv
    <3> QED BY <2>1, <2>2, <3>1, <3>2, CoreStep DEF IInv
  <2> QED BY <2>3, <2>4
<1>3. CASE ReceiveRejected(s)
  <2>1. FramesAreRows(wire', journal, sent)
    BY <1>3, DrainedFrames DEF ReceiveRejected, IInv
  <2> QED BY <1>3, <2>1, StillStep DEF ReceiveRejected, history, IInv
<1> QED BY <1>1, <1>2, <1>3

LEMMA LossStep ==
  ASSUME IInv, NEW s \in Side,
         LoseEarlyFrame(s) \/ LoseConnection(s) \/ PeerGone(s) \/ AbandonAccept
  PROVE  Core'
<1> USE DEF history
<1>1. CASE LoseEarlyFrame(s)
  <2>1. PICK g \in Generation :
          /\ wire[<<g, Peer(s)>>] # <<>>
          /\ wire' = [wire EXCEPT ![<<g, Peer(s)>>] = Tail(@)]
          /\ UNCHANGED <<journal, sent, delivered, handshake>>
    BY <1>1 DEF LoseEarlyFrame
  <2>2. <<g, Peer(s)>> \in Generation \X Side /\ wire[<<g, Peer(s)>>] \in Seq(Frame)
    BY PeerFacts DEF IInv, FramesAreRows
  <2>3. /\ wire' \in [Generation \X Side -> Seq(Frame)]
        /\ \A x \in Generation \X Side :
             wire'[x] = wire[x] \/ (wire[x] # <<>> /\ wire'[x] = Tail(wire[x]))
    BY <2>1, <2>2, HeadTailProperties DEF IInv, FramesAreRows
  <2>4. FramesAreRows(wire', journal, sent)
    BY <2>3, ShorterWireKeepsFrames DEF IInv
  <2> QED BY <2>1, <2>4, StillStep DEF IInv
<1>2. CASE LoseConnection(s) \/ PeerGone(s)
  <2>1. FramesAreRows(wire', journal, sent)
    BY <1>2, DrainedFrames DEF LoseConnection, PeerGone, IInv
  <2> QED BY <1>2, <2>1, StillStep DEF LoseConnection, PeerGone, IInv
<1>3. CASE AbandonAccept
  <2>1. FramesAreRows(wire', journal, sent)
    BY <1>3, DrainedFrames DEF AbandonAccept, IInv
  <2> QED BY <1>3, <2>1, StillStep DEF AbandonAccept, IInv
<1> QED BY <1>1, <1>2, <1>3

LEMMA CrashStep ==
  ASSUME IInv, NEW s \in Side, Crash(s) \/ CrashInReceive(s)
  PROVE  Core'
<1>1. Forget(s)
  BY DEF Crash, CrashInReceive
<1>2. FramesAreRows(wire', journal, sent)
  BY <1>1, ForgottenFrames
<1>3. HandshakeIsReached(handshake', journal)
  BY <1>1, NoHandshakeIsReached DEF Forget, IInv
<1>4. CASE Crash(s)
  BY <1>2, <1>3, <1>4, StillStep DEF Crash, history
<1>5. CASE CrashInReceive(s)
  <2> DEFINE D == Put(delivered, s, Append(delivered[s], Incoming(s).body))
  <2>1. PICK k \in {Accepted(s), Claimed(s), Completed(s)} : journal' = Put(journal, s, k)
    BY <1>5 DEF CrashInReceive, Put
  <2>2. Arrives(s, "accepted") /\ delivered' = D /\ sent' = sent
    BY <1>5 DEF CrashInReceive, Put
  <2>3. Consistent(journal', sent, D) /\ Grows(journal, sent, journal', sent)
    BY <2>1, <2>2, AcceptIncoming
  <2> HIDE DEF D
  <2> QED BY <1>2, <1>3, <2>2, <2>3, CoreStep
<1> QED BY <1>4, <1>5

\* The volatile variables keep their types.
LEMMA ControlStep ==
  ASSUME IInv, [Next]_vars
  PROVE  Control'
<1> USE DEF Control, history
<1>0. MaxGeneration \in Nat /\ MaxFaults \in Nat
  BY ChannelAssumption
<1>1. CASE UNCHANGED vars
  BY <1>1 DEF IInv, vars
<1>2. ASSUME NEW s \in Side, SideStep(s) PROVE Control'
  <2>1. CASE Submit(s)
    BY <2>1 DEF Submit, Commit, IInv
  <2>2. CASE Flush(s)
    BY <2>2, FlushStep DEF Flush, IInv
  <2>3. CASE ReceiveAccepted(s)
    <3>1. Incoming(s).seq \in Nat
      BY <2>3, IncomingFacts DEF ReceiveAccepted, Arrives, FrameIsRow, Frame
    <3>2. /\ finished' \in [Side -> SUBSET Nat]
          /\ generation' = generation /\ accepting' = accepting /\ faults' = faults
      BY <2>3, <3>1 DEF ReceiveAccepted, IInv
    <3>3. /\ conn' \in [Side -> 0 .. MaxGeneration]
          /\ cursor' \in [Side -> Nat] /\ wantFlush' \in [Side -> BOOLEAN]
      <4>1. \/ Hangup(s)
            \/ UNCHANGED <<conn, cursor>> /\ wantFlush' = [wantFlush EXCEPT ![s] = TRUE]
            \/ UNCHANGED <<conn, cursor>> /\ wantFlush' = [wantFlush EXCEPT ![s] = @ \/ s = "node"]
        BY <2>3 DEF ReceiveAccepted, CloseUnacknowledged
      <4>2. CASE Hangup(s)
        BY <1>0, <4>2 DEF Hangup, IInv
      <4>3. ASSUME UNCHANGED <<conn, cursor>>, NEW b \in BOOLEAN,
                   wantFlush' = [wantFlush EXCEPT ![s] = b]
            PROVE  /\ conn' \in [Side -> 0 .. MaxGeneration]
                   /\ cursor' \in [Side -> Nat] /\ wantFlush' \in [Side -> BOOLEAN]
        BY <4>3 DEF IInv
      <4>4. (wantFlush[s] \/ s = "node") \in BOOLEAN
        OBVIOUS
      <4> QED BY <4>1, <4>2, <4>3, <4>4
    <3> QED BY <3>2, <3>3 DEF IInv
  <2>4. CASE ReceiveDuplicate(s)
    BY <2>4 DEF ReceiveDuplicate, IInv
  <2>5. CASE ReceiveGap(s)
    BY <1>0, <2>5 DEF ReceiveGap, Hangup, IInv
  <2>6. CASE ReceiveRejected(s)
    BY <1>0, <2>6 DEF ReceiveRejected, Hangup, IInv
  <2>7. CASE LoseEarlyFrame(s)
    BY <1>0, <2>7 DEF LoseEarlyFrame, Fault, IInv
  <2>8. CASE LoseConnection(s)
    BY <1>0, <2>8 DEF LoseConnection, Hangup, Fault, IInv
  <2>9. CASE PeerGone(s)
    BY <1>0, <2>9 DEF PeerGone, Hangup, IInv
  <2>10. CASE Crash(s)
    BY <1>0, <2>10 DEF Crash, Forget, Hangup, Fault, IInv
  <2>11. CASE CrashInReceive(s)
    <3>1. Incoming(s).seq \in Nat
      BY <2>11, IncomingFacts DEF CrashInReceive, Arrives, FrameIsRow, Frame
    <3> QED BY <1>0, <2>11, <3>1 DEF CrashInReceive, Forget, Hangup, Fault, IInv
  <2> QED BY <1>2, <2>1, <2>2, <2>3, <2>4, <2>5, <2>6, <2>7, <2>8, <2>9, <2>10, <2>11
          DEF SideStep
<1>3. CASE SendProof
  BY <1>3 DEF SendProof, IInv
<1>4. CASE AcceptProof
  BY <1>0, <1>4 DEF AcceptProof, IInv
<1>5. CASE InstallHub
  <2>1. Recoverable(journal["hub"]) \in SUBSET Nat
    BY DEF Side, IInv, Consistent, JournalType, Recoverable
  <2> QED BY <1>0, <1>5, <2>1 DEF InstallHub, Side, IInv
<1>6. CASE InstallNode
  BY <1>6 DEF InstallNode, IInv, HandshakeIsReached, HandshakeType
<1>7. CASE AbandonHandshake
  BY <1>0, <1>7 DEF AbandonHandshake, Fault, IInv
<1>8. CASE AbandonAccept
  BY <1>0, <1>8 DEF AbandonAccept, IInv
<1>9. CASE StatusTick
  BY <1>9, TickCases DEF Commit, IInv
<1>10. ASSUME NEW n \in DOMAIN journal["node"].inbox, FinishDispatch(n) PROVE Control'
  <2>1. n \in Nat
    BY DEF Side, IInv, Consistent, JournalType
  <2> QED BY <1>10, <2>1 DEF FinishDispatch, IInv
<1> QED BY <1>1, <1>2, <1>3, <1>4, <1>5, <1>6, <1>7, <1>8, <1>9, <1>10 DEF Next

LEMMA Inductive == IInv /\ [Next]_vars => IInv'
<1> SUFFICES ASSUME IInv, [Next]_vars PROVE IInv'
  OBVIOUS
<1>1. Control'
  BY ControlStep
<1>2. Core'
  <2>1. CASE UNCHANGED vars
    BY <2>1, StillStep DEF vars, history, IInv
  <2>2. ASSUME NEW s \in Side, SideStep(s) PROVE Core'
    <3>1. ASSUME Submit(s) PROVE Core'
      <4>1. Payload \subseteq Body
        BY ChannelAssumption
      <4> QED BY <3>1, <4>1, CommitStep DEF Submit
    <3> QED BY <2>2, <3>1, FlushStep, ReceiveAcceptedStep, ReceiveOtherStep, LossStep,
               CrashStep DEF SideStep
  <2>3. ASSUME StatusTick PROVE Core'
    <3>1. Status \in Body /\ "node" \in Side
      BY ChannelAssumption DEF Side
    <3> QED BY <2>3, <3>1, TickCases, CommitStep, StillStep DEF IInv
  <2>4. "hub" \in Side
    BY DEF Side
  <2> QED BY <2>1, <2>2, <2>3, <2>4, HandshakeStep, InstallHubStep, LossStep, FinishStep
          DEF Next
<1> QED BY <1>1, <1>2 DEF IInv, Core

LEMMA Invariance == Spec => []IInv
<1> QED BY InitCore, Inductive, PTL DEF Spec

-----------------------------------------------------------------------------
(* Theorems *)

\* Both databases, the sockets and the connection state keep their types.
THEOREM TypesHold == Spec => []TypeOK
<1>1. IInv => TypeOK
  BY DEF IInv, Consistent, FramesAreRows, HandshakeIsReached, Control, TypeOK
<1> QED BY <1>1, Invariance, PTL

\* No committed body is ever in neither the sender's outbox nor accepted by
\* the receiver, over any number of reconnects, losses and crashes.
THEOREM NothingIsLost == Spec => []NothingLost
<1>1. IInv => NothingLost
  BY DEF IInv, Consistent, OutboxIsSuffix, NothingLost
<1> QED BY <1>1, Invariance, PTL

-----------------------------------------------------------------------------
(* The link implements exactly-once, in-order delivery *)

\* A frame that is accepted carries the first body not dispatched yet.
LEMMA AcceptedIsNext ==
  ASSUME IInv, NEW s \in Side, Arrives(s, "accepted")
  PROVE  Abstract!HasNext(s) /\ Incoming(s).body = Abstract!NextBody(s)
<1> DEFINE f == Incoming(s)
<1>1. FrameIsRow(journal, sent, Peer(s), f)
  BY IncomingFacts DEF Arrives
<1>2. /\ f.seq \in Nat /\ f.seq <= journal[Peer(s)].outSeq
      /\ f.body = sent[Peer(s)][f.seq]
  BY <1>1 DEF FrameIsRow, Frame
<1>3. f.seq = journal[s].inAck + 1
  <2>1. Acknowledged(s).inAck = journal[s].inAck
    BY AcknowledgeIncoming DEF Arrives
  <2>2. journal[s].inAck \in Nat
    BY SideFacts DEF IInv
  <2>3. Acceptance(Acknowledged(s), f.seq, f.body) = "accepted"
    BY DEF Arrives
  <2> QED BY <1>2, <2>1, <2>2, <2>3 DEF Acceptance
<1>4. /\ journal[s].inAck = Len(delivered[s]) /\ journal[s].inAck \in Nat
      /\ journal[Peer(s)].outSeq = Len(sent[Peer(s)]) /\ journal[Peer(s)].outSeq \in Nat
  BY SideFacts, PeerFacts DEF IInv
<1>5. Abstract!Peer(s) = Peer(s)
  BY DEF Abstract!Peer, Peer
<1> QED BY <1>2, <1>3, <1>4, <1>5 DEF Abstract!HasNext, Abstract!NextBody

\* Every step commits a body, dispatches the next one, does both, or neither.
LEMMA StepImplements ==
  ASSUME IInv, [Next]_vars
  PROVE  [Abstract!Next]_(Abstract!vars)
<1> USE DEF history
<1> DEFINE Still == UNCHANGED <<sent, delivered>>
<1>0. Abstract!Side = Side
  BY DEF Abstract!Side, Side
<1>1. ASSUME NEW s \in Side, NEW b \in Body,
             sent' = [sent EXCEPT ![s] = Append(@, b)], UNCHANGED delivered
      PROVE  Abstract!Next
  BY <1>0, <1>1 DEF Abstract!Next, Abstract!Send
<1>2. ASSUME NEW s \in Side, Arrives(s, "accepted"),
             delivered' = [delivered EXCEPT ![s] = Append(@, Incoming(s).body)],
             \/ UNCHANGED sent
             \/ \E b \in Body : sent' = [sent EXCEPT ![s] = Append(@, b)]
      PROVE  Abstract!Next
  <2>1. Abstract!HasNext(s) /\ Incoming(s).body = Abstract!NextBody(s)
    BY <1>2, AcceptedIsNext
  <2>2. Abstract!Deliver(s) \/ Abstract!DeliverAndReply(s)
    BY <1>2, <2>1 DEF Abstract!Deliver, Abstract!DeliverAndReply
  <2> QED BY <1>0, <2>2 DEF Abstract!Next
<1>3. ASSUME NEW s \in Side, SideStep(s) PROVE Abstract!Next \/ Still
  <2>1. CASE Submit(s)
    <3>1. Payload \subseteq Body
      BY ChannelAssumption
    <3> QED BY <1>1, <2>1, <3>1 DEF Submit, Commit
  <2>2. CASE ReceiveAccepted(s)
    <3>1. Ack \in Body
      BY JournalAssumption
    <3>2. /\ Arrives(s, "accepted")
          /\ delivered' = [delivered EXCEPT ![s] = Append(@, Incoming(s).body)]
          /\ \/ UNCHANGED sent
             \/ sent' = [sent EXCEPT ![s] = Append(@, Ack)]
      BY <2>2 DEF ReceiveAccepted
    <3> QED BY <1>2, <3>1, <3>2
  <2>3. CASE CrashInReceive(s)
    BY <1>2, <2>3 DEF CrashInReceive
  <2>4. CASE ReceiveGap(s)
    <3>1. Resync \in Body
      BY ChannelAssumption
    <3>2. /\ UNCHANGED delivered
          /\ UNCHANGED sent \/ sent' = [sent EXCEPT ![s] = Append(@, Resync)]
      BY <2>4 DEF ReceiveGap
    <3> QED BY <1>1, <3>1, <3>2
  <2>5. CASE \/ Flush(s) \/ ReceiveDuplicate(s) \/ ReceiveRejected(s)
             \/ LoseEarlyFrame(s) \/ LoseConnection(s) \/ PeerGone(s) \/ Crash(s)
    BY <2>5 DEF Flush, ReceiveDuplicate, ReceiveRejected, LoseEarlyFrame,
                LoseConnection, PeerGone, Crash
  <2> QED BY <1>3, <2>1, <2>2, <2>3, <2>4, <2>5 DEF SideStep
<1>4. ASSUME StatusTick PROVE Abstract!Next \/ Still
  <2>1. Status \in Body /\ "node" \in Side
    BY ChannelAssumption DEF Side
  <2> QED BY <1>1, <1>4, <2>1, TickCases DEF Commit
<1>5. ASSUME \/ SendProof \/ AcceptProof \/ InstallHub \/ InstallNode
             \/ AbandonHandshake \/ AbandonAccept \/ UNCHANGED vars
             \/ \E n \in DOMAIN journal["node"].inbox : FinishDispatch(n)
      PROVE  Still
  BY <1>5 DEF SendProof, AcceptProof, InstallHub, InstallNode, AbandonHandshake,
              AbandonAccept, FinishDispatch, vars
<1>6. Abstract!Next \/ Still
  BY <1>3, <1>4, <1>5 DEF Next
<1> QED BY <1>6 DEF Abstract!vars

\* Everything a side commits is dispatched by the other side exactly once and
\* in order: the journals, handshake and message loops implement the abstract
\* delivery promise.
THEOREM LinkDeliversExactlyOnce == Spec => ImplementsDelivery
<1>1. Init => Abstract!Init
  BY DEF Init, Abstract!Init, Side, Abstract!Side
<1> QED BY <1>1, Invariance, StepImplements, PTL
        DEF Spec, ImplementsDelivery, Abstract!Spec

-----------------------------------------------------------------------------
(* Accepted work keeps its row *)

\* What WorkIsKept says of one journal and of the sequences finished there.
Kept(j, F) ==
  \A n \in 1 .. j.inAck :
    n \notin F => n \in DOMAIN j.inbox /\ j.inbox[n].state # "processed"

LEMMA OutboundKeepsWork ==
  ASSUME NEW j, JournalType(j), NEW F, Kept(j, F)
  PROVE  /\ \A a : Kept(AcknowledgeOutbound(j, a), F)
         /\ \A b \in Body : Kept(Enqueue(j, b), F)
         /\ Kept(QueueAck(j), F)
<1>1. ASSUME NEW a PROVE Kept(AcknowledgeOutbound(j, a), F)
  <2>1. /\ AcknowledgeOutbound(j, a).inAck = j.inAck
        /\ AcknowledgeOutbound(j, a).inbox = j.inbox
    BY DEF AcknowledgeOutbound, JournalType
  <2> QED BY <2>1 DEF Kept
<1>2. ASSUME NEW b PROVE Kept(Enqueue(j, b), F)
  <2>1. Enqueue(j, b).inAck = j.inAck /\ Enqueue(j, b).inbox = j.inbox
    BY DEF Enqueue, JournalType
  <2> QED BY <2>1 DEF Kept
<1>3. QueueAck(j) = j \/ QueueAck(j) = Enqueue(j, Ack)
  BY DEF QueueAck
<1> QED BY <1>1, <1>2, <1>3

LEMMA AcceptKeepsWork ==
  ASSUME NEW j, JournalType(j), NEW F, Kept(j, F), NEW b
  PROVE  Kept(AcceptInbound(j, j.inAck + 1, b), F)
<1> DEFINE k == AcceptInbound(j, j.inAck + 1, b)
<1>1. /\ k.inAck = j.inAck + 1 /\ j.inAck \in Nat
      /\ DOMAIN k.inbox = DOMAIN j.inbox \cup {j.inAck + 1}
      /\ \A n \in DOMAIN k.inbox :
           k.inbox[n] = IF n = j.inAck + 1 THEN [hash |-> b, state |-> "pending"] ELSE j.inbox[n]
  BY DEF AcceptInbound, JournalType
<1> HIDE DEF k
<1>2. ASSUME NEW n \in 1 .. k.inAck, n \notin F
      PROVE  n \in DOMAIN k.inbox /\ k.inbox[n].state # "processed"
  <2>1. CASE n = j.inAck + 1 BY <1>1, <2>1
  <2>2. CASE n \in 1 .. j.inAck
    <3>1. n \in DOMAIN j.inbox /\ j.inbox[n].state # "processed" /\ n # j.inAck + 1
      BY <1>1, <1>2, <2>2 DEF Kept
    <3> QED BY <1>1, <3>1
  <2> QED BY <1>1, <2>1, <2>2
<1>3. Kept(k, F) BY <1>2 DEF Kept
<1> QED BY <1>3 DEF k

LEMMA MovesKeepWork ==
  ASSUME NEW j, JournalType(j), NEW F, Kept(j, F), NEW n
  PROVE  /\ Kept(ClaimInbound(j, n), F)
         /\ Kept(CompleteInbound(j, n), F \cup {n})
<1> DEFINE Moved(st) == [j EXCEPT !.inbox[n].state = st]
<1>1. ASSUME NEW st
      PROVE  /\ Moved(st).inAck = j.inAck /\ DOMAIN Moved(st).inbox = DOMAIN j.inbox
             /\ \A m \in DOMAIN j.inbox : m # n => Moved(st).inbox[m] = j.inbox[m]
             /\ n \in DOMAIN j.inbox => Moved(st).inbox[n].state = st
  <2>1. Moved(st).inbox = [j.inbox EXCEPT ![n] = [j.inbox[n] EXCEPT !.state = st]]
        /\ Moved(st).inAck = j.inAck
    BY DEF JournalType
  <2>2. n \in DOMAIN j.inbox => [j.inbox[n] EXCEPT !.state = st].state = st
    BY DEF JournalType, InboxRow
  <2> HIDE DEF Moved
  <2> QED BY <2>1, <2>2
<1>2. ClaimInbound(j, n) = Moved("processing") /\ CompleteInbound(j, n) = Moved("processed")
  BY DEF ClaimInbound, CompleteInbound
<1> HIDE DEF Moved
<1>3. Kept(Moved("processing"), F) BY <1>1 DEF Kept
<1>4. Kept(Moved("processed"), F \cup {n}) BY <1>1 DEF Kept
<1> QED BY <1>2, <1>3, <1>4

LEMMA PruneKeepsWork ==
  ASSUME NEW j, JournalType(j), NEW F, Kept(j, F)
  PROVE  Kept(PruneProcessed(j), F)
<1>1. /\ PruneProcessed(j).inAck = j.inAck
      /\ \A m \in DOMAIN j.inbox : j.inbox[m].state # "processed" =>
           m \in DOMAIN PruneProcessed(j).inbox /\ PruneProcessed(j).inbox[m] = j.inbox[m]
  BY DEF PruneProcessed, JournalType
<1> QED BY <1>1 DEF Kept

\* recoverInbound() on the Hub finishes all the rows that are left.
LEMMA RecoveryKeepsWork ==
  ASSUME NEW j, JournalType(j), NEW F, Kept(j, F)
  PROVE  JournalType(AllProcessed(j)) /\ Kept(AllProcessed(j), F \cup Recoverable(j))
<1> DEFINE k == AllProcessed(j)
<1>1. /\ DOMAIN k = DOMAIN j /\ k.inAck = j.inAck /\ k.outSeq = j.outSeq /\ k.outAck = j.outAck
      /\ k.outbox = j.outbox /\ DOMAIN k.inbox = DOMAIN j.inbox
      /\ \A n \in DOMAIN j.inbox : k.inbox[n] = [hash |-> j.inbox[n].hash, state |-> "processed"]
  BY DEF AllProcessed, JournalType
<1> HIDE DEF k
<1>2. \A n \in DOMAIN j.inbox : k.inbox[n] \in InboxRow
  <2> SUFFICES ASSUME NEW n \in DOMAIN j.inbox PROVE k.inbox[n] \in InboxRow OBVIOUS
  <2>1. j.inbox[n].hash \in Body /\ "processed" \in RowState BY DEF JournalType, InboxRow, RowState
  <2>2. [hash |-> j.inbox[n].hash, state |-> "processed"] \in InboxRow BY <2>1 DEF InboxRow
  <2> QED BY <1>1, <2>2
<1>3. JournalType(k) BY <1>1, <1>2 DEF JournalType
<1>4. \A n \in 1 .. j.inAck : n \in F \cup Recoverable(j) BY DEF Kept, Recoverable
<1>5. Kept(k, F \cup Recoverable(j)) BY <1>1, <1>4 DEF Kept
<1> QED BY <1>3, <1>5 DEF k

\* A step that replaces one journal, and adds to what its side has finished.
LEMMA OneJournalKeepsWork ==
  ASSUME IInv, WorkIsKept, NEW s \in Side, NEW k, NEW F, Kept(k, F),
         journal' = [journal EXCEPT ![s] = k],
         finished' = [finished EXCEPT ![s] = F]
  PROVE  WorkIsKept'
<1>1. DOMAIN journal = Side /\ DOMAIN finished = Side BY DEF IInv, Consistent, Control
<1>2. \A t \in Side : Kept(journal'[t], finished'[t])
  BY <1>1 DEF WorkIsKept, Kept
<1> QED BY <1>2 DEF WorkIsKept, Kept

LEMMA SameFinished ==
  ASSUME IInv, NEW s \in Side, UNCHANGED finished
  PROVE  finished' = [finished EXCEPT ![s] = finished[s]]
BY DEF IInv, Control

\* The journals a frame leaves behind at the stages of its acceptance.
LEMMA ReceiptKeepsWork ==
  ASSUME IInv, WorkIsKept, NEW s \in Side, Arrives(s, "accepted")
  PROVE  LET F == finished[s] IN
         /\ JournalType(Claimed(s)) /\ JournalType(Completed(s))
         /\ Kept(Accepted(s), F) /\ Kept(Claimed(s), F)
         /\ Kept(Completed(s), F \cup {Incoming(s).seq})
<1> DEFINE F == finished[s]
           f == Incoming(s)
           K4 == CompleteInbound(Claimed(s), f.seq)
<1>1. Kept(journal[s], F) /\ JournalType(journal[s])
  BY DEF WorkIsKept, Kept, IInv, Consistent
<1>2. JournalType(Acknowledged(s)) /\ Acknowledged(s).inAck = journal[s].inAck
  BY AcknowledgeIncoming DEF Consistent, Arrives
<1>3. Kept(Acknowledged(s), F) BY <1>1, OutboundKeepsWork DEF Acknowledged
<1>4. JournalType(Accepted(s)) /\ JournalType(Claimed(s)) /\ JournalType(Completed(s))
  <2>1. ASSUME NEW k \in {Accepted(s), Claimed(s), Completed(s)} PROVE JournalType(k)
    <3> DEFINE J == Put(journal, s, k)
               D == Put(delivered, s, Append(delivered[s], f.body))
    <3>1. Consistent(J, sent, D) /\ J[s] = k
      <4>1. J = Put(journal, s, k) /\ D = Put(delivered, s, Append(delivered[s], f.body)) OBVIOUS
      <4> HIDE DEF J, D
      <4> QED BY <4>1, AcceptIncoming
    <3> HIDE DEF J, D
    <3> QED BY <3>1 DEF Consistent
  <2> QED BY <2>1
<1>5. f.seq = Acknowledged(s).inAck + 1
  <2>1. FrameIsRow(journal, sent, Peer(s), f) BY IncomingFacts DEF Arrives
  <2>2. f.seq \in Nat /\ Acknowledged(s).inAck \in Nat
    BY <1>2, <2>1 DEF FrameIsRow, Frame, JournalType
  <2>3. Acceptance(Acknowledged(s), f.seq, f.body) = "accepted" BY DEF Arrives
  <2> QED BY <2>2, <2>3 DEF Acceptance
<1> HIDE DEF F, f
<1>6. Kept(Accepted(s), F) BY <1>2, <1>3, <1>5, AcceptKeepsWork DEF Accepted, f
<1>7. Kept(Claimed(s), F) BY <1>4, <1>6, MovesKeepWork DEF Claimed
<1>8. Kept(K4, F \cup {f.seq}) BY <1>4, <1>7, MovesKeepWork
<1>9. JournalType(K4)
  <2>1. f.seq \in DOMAIN Claimed(s).inbox
    <3>1. f.seq \in DOMAIN Accepted(s).inbox
      BY <1>2 DEF Accepted, AcceptInbound, JournalType, f
    <3> QED BY <1>4, <3>1, InboxMoves DEF Claimed, f
  <2>2. OnlyInboxMoves(Claimed(s), K4) BY <1>4, <2>1, InboxMoves
  <2> HIDE DEF K4
  <2> QED BY <1>4, <2>2 DEF OnlyInboxMoves, JournalType
<1>10. Kept(Completed(s), F \cup {f.seq})
  BY <1>8, <1>9, PruneKeepsWork DEF Completed, f
<1> QED BY <1>4, <1>6, <1>7, <1>10 DEF F, f

LEMMA SideKeepsWork ==
  ASSUME IInv, WorkIsKept, NEW s \in Side, SideStep(s)
  PROVE  WorkIsKept'
<1> USE DEF history
<1>1. Kept(journal[s], finished[s]) /\ JournalType(journal[s])
  BY DEF WorkIsKept, Kept, IInv, Consistent
<1>2. CASE Submit(s)
  <2>1. PICK b \in Body : Commit(s, b)
    <3>1. Payload \subseteq Body BY ChannelAssumption
    <3> QED BY <1>2, <3>1 DEF Submit
  <2>2. journal' = [journal EXCEPT ![s] = Enqueue(journal[s], b)] /\ UNCHANGED finished
    BY <2>1 DEF Commit
  <2>3. Kept(Enqueue(journal[s], b), finished[s]) BY <1>1, OutboundKeepsWork
  <2> QED BY <2>2, <2>3, SameFinished, OneJournalKeepsWork
<1>3. CASE ReceiveAccepted(s)
  <2>0. PICK done \in BOOLEAN : \E j :
          /\ j = IF done THEN Completed(s) ELSE Claimed(s)
          /\ finished' = [finished EXCEPT ![s] =
                            IF done THEN finished[s] \cup {Incoming(s).seq} ELSE finished[s]]
          /\ \/ journal' = [journal EXCEPT ![s] = j]
             \/ journal' = [journal EXCEPT ![s] = QueueAck(j)]
    BY <1>3 DEF ReceiveAccepted
  <2>1. PICK j :
          /\ j = IF done THEN Completed(s) ELSE Claimed(s)
          /\ finished' = [finished EXCEPT ![s] =
                            IF done THEN finished[s] \cup {Incoming(s).seq} ELSE finished[s]]
          /\ \/ journal' = [journal EXCEPT ![s] = j]
             \/ journal' = [journal EXCEPT ![s] = QueueAck(j)]
    BY <2>0
  <2> DEFINE F == IF done THEN finished[s] \cup {Incoming(s).seq} ELSE finished[s]
  <2>2. Arrives(s, "accepted") BY <1>3 DEF ReceiveAccepted
  <2>3. JournalType(j) /\ Kept(j, F) BY <2>1, <2>2, ReceiptKeepsWork
  <2>4. finished' = [finished EXCEPT ![s] = F] BY <2>1
  <2> HIDE DEF F
  <2>5. Kept(QueueAck(j), F) BY <2>3, OutboundKeepsWork
  <2> QED BY <2>1, <2>3, <2>4, <2>5, OneJournalKeepsWork
<1>4. CASE CrashInReceive(s)
  <2>1. Arrives(s, "accepted") BY <1>4 DEF CrashInReceive
  <2>2. \/ /\ \/ journal' = [journal EXCEPT ![s] = Accepted(s)]
              \/ journal' = [journal EXCEPT ![s] = Claimed(s)]
           /\ UNCHANGED finished
        \/ /\ journal' = [journal EXCEPT ![s] = Completed(s)]
           /\ finished' = [finished EXCEPT ![s] = finished[s] \cup {Incoming(s).seq}]
    BY <1>4 DEF CrashInReceive
  <2>3. /\ Kept(Accepted(s), finished[s]) /\ Kept(Claimed(s), finished[s])
        /\ Kept(Completed(s), finished[s] \cup {Incoming(s).seq})
    BY <2>1, ReceiptKeepsWork
  <2>4. CASE UNCHANGED finished /\ journal' = [journal EXCEPT ![s] = Accepted(s)]
    BY <2>3, <2>4, SameFinished, OneJournalKeepsWork
  <2>5. CASE UNCHANGED finished /\ journal' = [journal EXCEPT ![s] = Claimed(s)]
    BY <2>3, <2>5, SameFinished, OneJournalKeepsWork
  <2>6. CASE /\ journal' = [journal EXCEPT ![s] = Completed(s)]
             /\ finished' = [finished EXCEPT ![s] = finished[s] \cup {Incoming(s).seq}]
    BY <2>3, <2>6, OneJournalKeepsWork
  <2> QED BY <2>2, <2>4, <2>5, <2>6
<1>5. CASE ReceiveDuplicate(s) \/ ReceiveGap(s)
  <2> DEFINE j == Acknowledged(s)
  <2>1. UNCHANGED finished /\ AckInRange(journal[s], Incoming(s).ack) /\ Arriving(s)
    BY <1>5 DEF ReceiveDuplicate, ReceiveGap, Arrives
  <2>2. JournalType(j) BY <2>1, AcknowledgeIncoming DEF Consistent
  <2>3. Kept(j, finished[s]) BY <1>1, OutboundKeepsWork DEF Acknowledged
  <2>4. Resync \in Body BY ChannelAssumption
  <2>5. \/ journal' = [journal EXCEPT ![s] = j]
        \/ journal' = [journal EXCEPT ![s] = Enqueue(j, Resync)]
    BY <1>5 DEF ReceiveDuplicate, ReceiveGap
  <2> HIDE DEF j
  <2>6. Kept(Enqueue(j, Resync), finished[s]) BY <2>2, <2>3, <2>4, OutboundKeepsWork
  <2> QED BY <2>1, <2>3, <2>5, <2>6, SameFinished, OneJournalKeepsWork
<1>6. CASE UNCHANGED <<journal, finished>> BY <1>6 DEF WorkIsKept
<1>7. CASE \/ Flush(s) \/ ReceiveRejected(s) \/ LoseEarlyFrame(s) \/ LoseConnection(s)
           \/ PeerGone(s) \/ Crash(s)
  BY <1>6, <1>7 DEF Flush, ReceiveRejected, LoseEarlyFrame, LoseConnection, PeerGone, Crash
<1> QED BY <1>2, <1>3, <1>4, <1>5, <1>7 DEF SideStep

LEMMA StepKeepsWork ==
  ASSUME IInv, WorkIsKept, [Next]_vars
  PROVE  WorkIsKept'
<1> USE DEF history
<1>1. "hub" \in Side /\ "node" \in Side BY DEF Side
<1>2. \A s \in Side : Kept(journal[s], finished[s]) /\ JournalType(journal[s])
  BY DEF WorkIsKept, Kept, IInv, Consistent
<1>3. ASSUME UNCHANGED <<journal, finished>> PROVE WorkIsKept' BY <1>3 DEF WorkIsKept
<1>4. ASSUME NEW s \in Side, NEW a, UNCHANGED finished,
             journal' = [journal EXCEPT ![s] = AcknowledgeOutbound(journal[s], a)]
      PROVE  WorkIsKept'
  <2>1. Kept(AcknowledgeOutbound(journal[s], a), finished[s]) BY <1>2, OutboundKeepsWork
  <2> QED BY <1>4, <2>1, SameFinished, OneJournalKeepsWork
<1>5. CASE AcceptProof \/ InstallNode
  <2>1. UNCHANGED finished /\ \E s \in Side :
          journal' = [journal EXCEPT ![s] = AcknowledgeOutbound(journal[s], handshake.ack)]
    BY <1>1, <1>5 DEF AcceptProof, InstallNode
  <2> QED BY <1>4, <2>1
<1>6. CASE InstallHub
  <2> DEFINE j == journal["hub"]
             F == finished["hub"] \cup Recoverable(j)
             k == AllProcessed(j)
  <2>1. journal' = [journal EXCEPT !["hub"] = PruneProcessed(k)]
        /\ finished' = [finished EXCEPT !["hub"] = F]
    BY <1>6 DEF InstallHub
  <2>2. JournalType(k) /\ Kept(k, F) BY <1>1, <1>2, RecoveryKeepsWork
  <2> HIDE DEF k, F
  <2>3. Kept(PruneProcessed(k), F) BY <2>2, PruneKeepsWork
  <2> QED BY <1>1, <2>1, <2>3, OneJournalKeepsWork
<1>7. ASSUME NEW n \in DOMAIN journal["node"].inbox, FinishDispatch(n) PROVE WorkIsKept'
  <2> DEFINE j == journal["node"]
             F == finished["node"] \cup {n}
             c == ClaimInbound(j, n)
             k == CompleteInbound(c, n)
  <2>1. journal' = [journal EXCEPT !["node"] = PruneProcessed(k)]
        /\ finished' = [finished EXCEPT !["node"] = F]
    BY <1>7 DEF FinishDispatch
  <2>2. JournalType(j) /\ Kept(j, finished["node"]) BY <1>1, <1>2
  <2>3. OnlyInboxMoves(j, c) /\ DOMAIN c.inbox = DOMAIN j.inbox BY <2>2, InboxMoves
  <2>4. JournalType(c)
    <3> HIDE DEF c, j
    <3> QED BY <2>2, <2>3 DEF OnlyInboxMoves, JournalType
  <2>5. OnlyInboxMoves(c, k)
    <3> HIDE DEF c
    <3> QED BY <2>3, <2>4, InboxMoves
  <2>6. JournalType(k)
    <3> HIDE DEF c, k
    <3> QED BY <2>4, <2>5 DEF OnlyInboxMoves, JournalType
  <2>7. Kept(c, finished["node"]) BY <2>2, MovesKeepWork
  <2>8. Kept(k, F)
    <3> HIDE DEF c
    <3> QED BY <2>4, <2>7, MovesKeepWork
  <2> HIDE DEF k, F
  <2>9. Kept(PruneProcessed(k), F) BY <2>6, <2>8, PruneKeepsWork
  <2> QED BY <1>1, <2>1, <2>9, OneJournalKeepsWork
<1>8. CASE StatusTick
  <2>1. CASE Commit("node", Status)
    <3>1. Status \in Body BY ChannelAssumption
    <3>2. journal' = [journal EXCEPT !["node"] = Enqueue(journal["node"], Status)]
          /\ UNCHANGED finished
      BY <2>1 DEF Commit
    <3>3. Kept(Enqueue(journal["node"], Status), finished["node"])
      BY <1>1, <1>2, <3>1, OutboundKeepsWork
    <3> QED BY <1>1, <3>2, <3>3, SameFinished, OneJournalKeepsWork
  <2>2. CASE UNCHANGED <<journal, finished>> BY <1>3, <2>2
  <2> QED BY <1>8, <2>1, <2>2 DEF StatusTick, StatusTickWhen
<1>9. CASE SendProof \/ AbandonHandshake \/ AbandonAccept \/ UNCHANGED vars
  BY <1>3, <1>9 DEF SendProof, AbandonHandshake, AbandonAccept, vars
<1> QED BY <1>5, <1>6, <1>7, <1>8, <1>9, SideKeepsWork DEF Next

\* Accepted work that has not been finished keeps its inbox row and its body,
\* for any number of frames, reconnects, prunings and crashes between two
\* transactions of a handler.
THEOREM WorkIsNotForgotten == Spec => []WorkIsKept
<1>1. Init => WorkIsKept BY DEF Init, WorkIsKept, EmptyJournal
<1>2. IInv /\ WorkIsKept /\ [Next]_vars => WorkIsKept' BY StepKeepsWork
<1> QED BY <1>1, <1>2, Invariance, PTL DEF Spec
=============================================================================
