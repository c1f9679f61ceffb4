----------------------------- MODULE NodeAdmission -----------------------------
(***************************************************************************)
(* How a machine becomes a node of the Hub, connects, is superseded,       *)
(* revoked and forgotten (hub-server/src/agents.ts, server.ts,             *)
(* hub-storage/src/store.ts, hub-node-agent/src/agent.ts, state.ts).       *)
(*                                                                         *)
(* One node identifier is modelled.  Several installations may be set up   *)
(* for it, each with an identity (key and service token) of its own.  The  *)
(* Hub serves several sockets of a node at once: accept() is split at its  *)
(* two awaits, the wait for the proof and the sending of auth.accepted.    *)
(* What the reliable link carries afterwards is a queue of lifecycle       *)
(* frames per installation; a frame the Hub has persisted and not yet      *)
(* processed is still at the head of that queue.                           *)
(*                                                                         *)
(* Bounds: MaxSockets is the number of sockets that exist at a time (they  *)
(* are reused), MaxFaults counts the sockets lost for no reason of the     *)
(* program and the process crashes, MaxStarts the starts of a Connector.   *)
(***************************************************************************)
EXTENDS Integers, Sequences, FiniteSets

CONSTANTS Installations, Codes, None, MaxSockets, MaxFaults, MaxStarts

ASSUME AdmissionAssumption ==
  /\ None \notin Installations \cup Codes \cup Nat
  /\ {MaxSockets, MaxFaults, MaxStarts} \subseteq Nat

Sockets == 1 .. MaxSockets

VARIABLES
  (* Hub database *)
  grant,     \* enrollment_codes: "none", "live", "consumed", or "dead"
  owner,     \* nodes: the installation the node is bound to
  revoked,   \* nodes.status is "revoked"
  online,    \* runtimes.online of the node's runtime
  index,     \* session_index has rows of the node
  (* Hub process *)
  current,   \* connections: the socket installed for the node
  (* sockets, both ends *)
  sock,
  (* Node Agents *)
  held,      \* the enrollment code in each configuration
  connector, \* a Connector is connected to the installation
  queue,     \* lifecycle frames the Hub has yet to process
  (* bookkeeping *)
  restarted, \* history: the Hub stopped and admitted nobody since
  faults, starts

db == <<grant, owner, revoked>>
view == <<online, index>>
agents == <<held, connector, queue>>
counters == <<faults, starts>>
vars == <<db, view, current, sock, agents, restarted, counters>>

(* A socket: the Node Agent's end is in connectOnce() at "proving" (proof   *)
(* sent), "clearing" (accepted, rewriting its configuration), "open",       *)
(* "announced" (baselines sent); the Hub's end is in accept() at "waiting"  *)
(* or "accepting", then "live" until it is told to close ("closing").       *)
NodeEnd == {"proving", "clearing", "open", "announced", "left"}
HubEnd == {"waiting", "accepting", "live", "closing", "over"}
Socket == [who : Installations \cup {None}, code : Codes \cup {None},
           node : NodeEnd, hub : HubEnd, accepted : BOOLEAN]
Unused == [who |-> None, code |-> None, node |-> "left", hub |-> "over",
           accepted |-> FALSE]
Frame == {"hello", "index", "goodbye"}

Init ==
  /\ grant = [c \in Codes |-> "none"] /\ owner = None /\ revoked = FALSE
  /\ online = FALSE /\ index = FALSE /\ current = None
  /\ sock = [s \in Sockets |-> Unused]
  /\ held = [a \in Installations |-> None]
  /\ connector = [a \in Installations |-> FALSE]
  /\ queue = [a \in Installations |-> <<>>]
  /\ restarted = FALSE
  /\ faults = 0 /\ starts = 0

\* A socket both ends have left is forgotten.
Tidy(r) == IF r.node = "left" /\ r.hub = "over" THEN Unused ELSE r
NodeMoves(s, stage) == [sock EXCEPT ![s] = Tidy([@ EXCEPT !.node = stage])]
HubMoves(s, stage) == [sock EXCEPT ![s] = Tidy([@ EXCEPT !.hub = stage])]

Fault == faults < MaxFaults /\ faults' = faults + 1 /\ UNCHANGED starts

-----------------------------------------------------------------------------
(* Administration *)

\* Mutant: the unconsumed grants of the node are not deleted.
Keep(g) == g

\* The unconsumed grants of the node are deleted.
Rotate(g) == [c \in Codes |-> IF g[c] = "live" THEN "dead" ELSE g[c]]

\* createEnrollment(), and the installation of an agent with the new code.
CreateEnrollment(c, a) ==
  /\ grant[c] = "none" /\ owner = None
  /\ grant' = [Rotate(grant) EXCEPT ![c] = "live"]
  /\ held' = [held EXCEPT ![a] = c]
  /\ UNCHANGED <<owner, revoked, view, current, sock, connector, queue, restarted, counters>>

\* cancelEnrollment(), or the grant expires.
Withdraw(c) ==
  /\ grant[c] = "live" /\ grant' = [grant EXCEPT ![c] = "dead"]
  /\ UNCHANGED <<owner, revoked, view, current, sock, agents, restarted, counters>>

\* The revoke route: revokeNode(), then fence() of the installed connection.
Revoke ==
  /\ owner # None /\ ~revoked
  /\ revoked' = TRUE /\ online' = FALSE /\ index' = FALSE
  /\ current' = None
  /\ sock' = IF current = None THEN sock ELSE HubMoves(current, "closing")
  /\ UNCHANGED <<grant, owner, agents, restarted, counters>>

IsOnline == current # None /\ sock[current].hub = "live"

\* clearSessionIndex(), refused while the node's runtime is reachable.
ClearDiscovery ==
  /\ owner # None /\ index /\ ~(IsOnline /\ online)
  /\ index' = FALSE
  /\ UNCHANGED <<db, online, current, sock, agents, restarted, counters>>

-----------------------------------------------------------------------------
(* The handshake *)

\* connectOnce() up to its proof, which carries the code still configured.  An
\* installation without a code may have lost its identity, or be a copy.
OpenSocket(a) ==
  /\ \A s \in Sockets : sock[s].node # "left" => sock[s].who # a
  /\ \E s \in Sockets :
       /\ sock[s] = Unused /\ \A x \in Sockets : sock[x] = Unused => s <= x
       /\ sock' = [sock EXCEPT ![s] =
            [who |-> a, code |-> held[a], node |-> "proving", hub |-> "waiting",
             accepted |-> FALSE]]
  /\ UNCHANGED <<db, view, current, agents, restarted, counters>>

\* Mutant: the public key of the proof is not compared with the node's.
KnownNodeByCode(a, c) == ~revoked /\ c = None

\* What accept() requires of a proof for a node that exists.
KnownNode(a, c) == ~revoked /\ owner = a /\ c = None

\* accept(), from the proof to the sending of auth.accepted.  beginConnection()
\* marks the node's runtimes offline.
Verify(s) ==
  LET a == sock[s].who
      c == sock[s].code
      enrolls == owner = None /\ c # None /\ grant[c] = "live"
  IN
  /\ sock[s].hub = "waiting"
  /\ \/ /\ enrolls \/ (owner # None /\ KnownNode(a, c))
        /\ grant' = IF enrolls THEN [grant EXCEPT ![c] = "consumed"] ELSE grant
        /\ owner' = IF enrolls THEN a ELSE owner
        /\ online' = FALSE /\ restarted' = FALSE
        /\ sock' = [sock EXCEPT ![s].hub = "accepting", ![s].accepted = TRUE]
     \/ /\ ~enrolls /\ ~(owner # None /\ KnownNode(a, c))
        /\ sock' = HubMoves(s, "over")
        /\ UNCHANGED <<grant, owner, online, restarted>>
  /\ UNCHANGED <<revoked, index, current, agents, counters>>

\* The proof was lost with its socket and the Hub stops waiting for it.
ProofLost(s) ==
  /\ sock[s].hub = "waiting" /\ sock[s].node = "left"
  /\ sock' = HubMoves(s, "over")
  /\ UNCHANGED <<db, view, current, agents, restarted, counters>>

\* auth.accepted is sent: the connection replaces whatever is installed, and
\* the socket of that is told to close.
AcceptSent(s) ==
  /\ sock[s].hub = "accepting"
  /\ current' = s
  /\ sock' = [x \in Sockets |->
       IF x = s THEN [sock[x] EXCEPT !.hub = "live"]
       ELSE IF x = current THEN [sock[x] EXCEPT !.hub = "closing"] ELSE sock[x]]
  /\ UNCHANGED <<db, view, agents, restarted, counters>>

\* auth.accepted cannot be sent: accept() throws before it installs anything.
AcceptFails(s) ==
  /\ sock[s].hub = "accepting" /\ sock[s].node = "left"
  /\ sock' = HubMoves(s, "over")
  /\ UNCHANGED <<db, view, current, agents, restarted, counters>>

\* The Node Agent has auth.accepted and begins clearEnrollmentCode().
NodeAccepted(s) ==
  /\ sock[s].node = "proving" /\ sock[s].accepted
  /\ sock' = NodeMoves(s, "clearing")
  /\ UNCHANGED <<db, view, current, agents, restarted, counters>>

\* Mutant: the configuration keeps the code.
KeepCode(a) == held

ClearCode(a) == [held EXCEPT ![a] = None]

\* The configuration is rewritten; installConnection() and the first flush.
CodeCleared(s) ==
  /\ sock[s].node = "clearing"
  /\ held' = ClearCode(sock[s].who)
  /\ sock' = NodeMoves(s, "open")
  /\ UNCHANGED <<db, view, current, connector, queue, restarted, counters>>

-----------------------------------------------------------------------------
(* Lifecycle frames *)

\* connectOnce() queues the baselines of the Connectors it has.
Announce(s) ==
  LET a == sock[s].who IN
  /\ sock[s].node = "open"
  /\ sock' = NodeMoves(s, "announced")
  /\ queue' = IF connector[a] THEN [queue EXCEPT ![a] = Append(@, "hello")] ELSE queue
  /\ UNCHANGED <<db, view, current, held, connector, restarted, counters>>

\* A Connector starts: its baseline, then its session index.
ConnectorUp(a) ==
  /\ ~connector[a] /\ starts < MaxStarts /\ starts' = starts + 1
  /\ connector' = [connector EXCEPT ![a] = TRUE]
  /\ queue' = [queue EXCEPT ![a] = @ \o <<"hello", "index">>]
  /\ UNCHANGED <<db, view, current, sock, held, restarted, faults>>

ConnectorDown(a) ==
  /\ connector[a]
  /\ connector' = [connector EXCEPT ![a] = FALSE]
  /\ queue' = [queue EXCEPT ![a] = Append(@, "goodbye")]
  /\ UNCHANGED <<db, view, current, sock, held, restarted, counters>>

\* Mutant: requireActiveNode() is left out.
Anyone == TRUE

\* requireActiveNode(), which upsertRuntime() and replaceSessionIndex() call.
ActiveNode == ~revoked

\* processInbound() of the installed connection's next frame.  A frame of a
\* revoked node throws, which closes the socket.
Process(s) ==
  LET a == sock[s].who
      f == Head(queue[a])
      refused == f # "goodbye" /\ ~ActiveNode
  IN
  /\ current = s /\ sock[s].hub \in {"live", "closing"}
  /\ sock[s].node \in {"open", "announced"} /\ queue[a] # <<>>
  /\ queue' = [queue EXCEPT ![a] = Tail(@)]
  /\ online' = IF refused THEN online
               ELSE IF f = "index" THEN online ELSE f = "hello"
  /\ index' = (index \/ (f = "index" /\ ~refused))
  /\ sock' = IF refused THEN HubMoves(s, "closing") ELSE sock
  /\ UNCHANGED <<db, current, held, connector, restarted, counters>>

-----------------------------------------------------------------------------
(* Ends *)

\* markNodeDisconnected(), for the installed connection only.
OnlineWithout(s) == IF current = s THEN FALSE ELSE online

\* disconnected(): the Hub's end of an installed socket closes.
HubEnds(s) ==
  /\ sock[s].hub \in {"live", "closing"}
  /\ sock' = HubMoves(s, "over")
  /\ current' = IF current = s THEN None ELSE current
  /\ online' = OnlineWithout(s)
  /\ UNCHANGED <<db, index, agents, restarted>>

\* It follows the Node Agent, which left first.
Disconnected(s) == sock[s].node = "left" /\ HubEnds(s) /\ UNCHANGED counters

NodeEnds(s) ==
  /\ sock[s].node \in {"proving", "open", "announced"}
  /\ sock' = NodeMoves(s, "left")
  /\ UNCHANGED <<db, view, current, agents, restarted>>

\* connectOnce() ends because the Hub closed the socket.
NodeReconnects(s) ==
  sock[s].hub \in {"closing", "over"} /\ NodeEnds(s) /\ UNCHANGED counters

\* The network fails and either end notices first.  Service tokens that
\* expire are counted here too.
DropSocket(s) == Fault /\ (HubEnds(s) \/ NodeEnds(s))

HubCrash ==
  /\ Fault
  /\ current' = None /\ restarted' = TRUE
  /\ sock' = [s \in Sockets |-> Tidy([sock[s] EXCEPT !.hub = "over"])]
  /\ UNCHANGED <<db, view, agents>>

\* The machine stops, and with it DSH.
NodeCrash(a) ==
  /\ Fault
  /\ connector' = [connector EXCEPT ![a] = FALSE]
  /\ sock' = [s \in Sockets |->
       IF sock[s].who = a THEN Tidy([sock[s] EXCEPT !.node = "left"]) ELSE sock[s]]
  /\ UNCHANGED <<db, view, current, held, queue, restarted>>

-----------------------------------------------------------------------------
Next ==
  \/ \E c \in Codes : Withdraw(c) \/ \E a \in Installations : CreateEnrollment(c, a)
  \/ Revoke \/ ClearDiscovery \/ HubCrash
  \/ \E a \in Installations :
       OpenSocket(a) \/ ConnectorUp(a) \/ ConnectorDown(a) \/ NodeCrash(a)
  \/ \E s \in Sockets :
       \/ Verify(s) \/ ProofLost(s) \/ AcceptSent(s) \/ AcceptFails(s)
       \/ NodeAccepted(s) \/ CodeCleared(s) \/ Announce(s) \/ Process(s)
       \/ Disconnected(s) \/ NodeReconnects(s) \/ DropSocket(s)

\* Event loops run, timeouts fire, the agents' service manager restarts them
\* and run() retries; nothing obliges an operator or a Connector to act.
Fairness ==
  /\ \A a \in Installations : WF_vars(OpenSocket(a))
  /\ \A s \in Sockets :
       /\ WF_vars(Verify(s)) /\ WF_vars(ProofLost(s))
       /\ WF_vars(AcceptSent(s) \/ AcceptFails(s))
       /\ WF_vars(NodeAccepted(s)) /\ WF_vars(CodeCleared(s)) /\ WF_vars(Announce(s))
       /\ WF_vars(Process(s)) /\ WF_vars(Disconnected(s)) /\ WF_vars(NodeReconnects(s))

Spec == Init /\ [][Next]_vars
FairSpec == Spec /\ Fairness

-----------------------------------------------------------------------------
(* Properties *)

\* Every variable has the shape its comment says.
TypeOK ==
  /\ grant \in [Codes -> {"none", "live", "consumed", "dead"}]
  /\ owner \in Installations \cup {None} /\ revoked \in BOOLEAN
  /\ online \in BOOLEAN /\ index \in BOOLEAN /\ restarted \in BOOLEAN
  /\ current \in Sockets \cup {None}
  /\ sock \in [Sockets -> Socket]
  /\ held \in [Installations -> Codes \cup {None}]
  /\ connector \in [Installations -> BOOLEAN]
  /\ queue \in [Installations -> Seq(Frame)]
  /\ faults \in 0 .. MaxFaults /\ starts \in 0 .. MaxStarts

\* The node is bound by exactly one grant, and by then every other grant ever
\* made for it is useless.
OneGrantBinds ==
  /\ owner = None => \A c, d \in Codes : grant[c] = "live" /\ grant[d] = "live" => c = d
  /\ owner # None => /\ \A c \in Codes : grant[c] # "live"
                     /\ \E c \in Codes : /\ grant[c] = "consumed"
                                         /\ \A d \in Codes \ {c} : grant[d] # "consumed"

\* Whatever handshakes overlap, the installed connection and every socket on
\* its way to be installed belong to the installation the node is bound to.
OnlyOwnerIsInstalled ==
  /\ \A s \in Sockets : sock[s].hub \in {"accepting", "live"} => sock[s].who = owner
  /\ current # None => sock[current].who = owner

\* Once a node is revoked no runtime of it is shown online and none of its
\* sessions is listed, whatever was in flight (store.ts:335-348).
RevokedLeavesNothing == revoked => ~online /\ ~index

\* A runtime is shown online only while a connection of its node is installed,
\* or after a Hub restart until the node is admitted again.
OnlineNeedsConnection == online => current # None \/ restarted

Attached(a) ==
  /\ current # None /\ sock[current].who = a
  /\ sock[current].hub = "live" /\ sock[current].node = "announced"

\* An agent that got as far as an open connection and is not revoked comes
\* back after every fault, and in the end stays.
ReturnsOnceAccepted ==
  \A a \in Installations :
    (\E s \in Sockets : sock[s].who = a /\ sock[s].node = "open")
      ~> [](revoked \/ Attached(a))

\* A node that exists gets in: its one-time code is removed after the Hub's
\* acceptance (hub-node-agent/README.md:19).
EnrolledGetsIn ==
  \A a \in Installations : owner = a ~> (revoked \/ Attached(a))
=============================================================================
