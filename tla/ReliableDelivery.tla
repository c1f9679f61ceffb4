--------------------------- MODULE ReliableDelivery ---------------------------
(***************************************************************************)
(* What the reliable transport promises to the code above it, with no      *)
(* mention of journals, sockets or generations: each side hands bodies     *)
(* over in an order, and the other side dispatches exactly those bodies,   *)
(* each once, in that order, whatever happens in between                   *)
(* (hub-transport/README.md, "Delivery contract").                         *)
(***************************************************************************)
EXTENDS Integers, Sequences

CONSTANT Body

Side == {"hub", "node"}
Peer(s) == IF s = "hub" THEN "node" ELSE "hub"

VARIABLES
  sent,       \* sent[s]: every body side s committed to its outbox, in order
  delivered   \* delivered[s]: every body side s accepted for dispatch, in order

vars == <<sent, delivered>>

Init == /\ sent = [s \in Side |-> <<>>]
        /\ delivered = [s \in Side |-> <<>>]

\* The next body s has not dispatched yet.
NextBody(s) == sent[Peer(s)][Len(delivered[s]) + 1]
HasNext(s) == Len(delivered[s]) < Len(sent[Peer(s)])

Send(s) ==
  /\ \E b \in Body : sent' = [sent EXCEPT ![s] = Append(@, b)]
  /\ UNCHANGED delivered

Deliver(s) ==
  /\ HasNext(s)
  /\ delivered' = [delivered EXCEPT ![s] = Append(@, NextBody(s))]
  /\ UNCHANGED sent

\* A handler that dispatches a body and queues its answer in one step.
DeliverAndReply(s) ==
  /\ HasNext(s)
  /\ delivered' = [delivered EXCEPT ![s] = Append(@, NextBody(s))]
  /\ \E b \in Body : sent' = [sent EXCEPT ![s] = Append(@, b)]

Next == \E s \in Side : Send(s) \/ Deliver(s) \/ DeliverAndReply(s)

Spec == Init /\ [][Next]_vars
=============================================================================
