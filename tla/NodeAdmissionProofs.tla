-------------------------- MODULE NodeAdmissionProofs --------------------------
(***************************************************************************)
(* Theorems about NodeAdmission, for any number of installations, codes,   *)
(* sockets and faults.                                                     *)
(***************************************************************************)
EXTENDS NodeAdmission, TLAPS

-----------------------------------------------------------------------------
(* The inductive invariant *)

\* The Hub's end of a socket that exists is held for an installation, and one
\* that is past the proof check for the owner.
SocketsAreOwned ==
  \A s \in Sockets :
    /\ sock[s].hub # "over" => sock[s].who \in Installations
    /\ sock[s].node # "left" => sock[s].who \in Installations
    /\ sock[s].hub \in {"accepting", "live"} => sock[s].who = owner

\* The installed connection is one whose end disconnected() has not seen.
InstalledIsOpen ==
  current # None => /\ sock[current].hub \in {"live", "closing"}
                    /\ sock[current].who = owner /\ owner # None

\* No grant is consumed before the node exists.
UnboundUnconsumed == owner = None => \A c \in Codes : grant[c] # "consumed"

\* Only a node that exists is revoked.
RevokedExists == revoked => owner # None

IInv ==
  /\ TypeOK /\ OneGrantBinds /\ UnboundUnconsumed /\ SocketsAreOwned /\ InstalledIsOpen
  /\ RevokedExists /\ RevokedLeavesNothing /\ OnlineNeedsConnection

-----------------------------------------------------------------------------
LEMMA NoneApart == None \notin Installations /\ None \notin Codes /\ None \notin Sockets
BY AdmissionAssumption DEF AdmissionAssumption, Sockets

\* A socket record stays one when an end of it moves.
LEMMA TidyIsSocket ==
  ASSUME NEW r \in Socket PROVE Tidy(r) \in Socket
BY DEF Tidy, Socket, Unused, NodeEnd, HubEnd

LEMMA NodeMovesAreTyped ==
  ASSUME TypeOK, NEW s \in Sockets, NEW e \in NodeEnd
  PROVE  NodeMoves(s, e) \in [Sockets -> Socket]
<1>1. [sock[s] EXCEPT !.node = e] \in Socket BY DEF TypeOK, Socket
<1>2. Tidy([sock[s] EXCEPT !.node = e]) \in Socket BY <1>1, TidyIsSocket
<1> QED BY <1>2 DEF NodeMoves, TypeOK

LEMMA HubMovesAreTyped ==
  ASSUME TypeOK, NEW s \in Sockets, NEW h \in HubEnd
  PROVE  HubMoves(s, h) \in [Sockets -> Socket]
<1>1. [sock[s] EXCEPT !.hub = h] \in Socket BY DEF TypeOK, Socket
<1>2. Tidy([sock[s] EXCEPT !.hub = h]) \in Socket BY <1>1, TidyIsSocket
<1> QED BY <1>2 DEF HubMoves, TypeOK

LEMMA InitHolds == Init => IInv
<1> SUFFICES ASSUME Init PROVE IInv OBVIOUS
<1>1. Unused \in Socket BY DEF Unused, Socket, NodeEnd, HubEnd
<1>6. queue \in [Installations -> Seq(Frame)] BY DEF Init
<1>7. MaxFaults \in Nat /\ MaxStarts \in Nat
  BY AdmissionAssumption DEF AdmissionAssumption
<1>8. sock \in [Sockets -> Socket] /\ held \in [Installations -> Codes \cup {None}]
  BY <1>1 DEF Init
<1>9. connector \in [Installations -> BOOLEAN]
      /\ grant \in [Codes -> {"none", "live", "consumed", "dead"}]
  BY DEF Init
<1>10. faults \in 0 .. MaxFaults /\ starts \in 0 .. MaxStarts BY <1>7 DEF Init
<1>2. TypeOK BY <1>6, <1>8, <1>9, <1>10 DEF Init, TypeOK
<1>3. OneGrantBinds /\ UnboundUnconsumed BY DEF Init, OneGrantBinds, UnboundUnconsumed
<1>4. SocketsAreOwned BY DEF Init, SocketsAreOwned, Unused
<1>5. InstalledIsOpen /\ RevokedExists /\ RevokedLeavesNothing /\ OnlineNeedsConnection
  BY DEF Init, InstalledIsOpen, RevokedExists, RevokedLeavesNothing, OnlineNeedsConnection
<1> QED BY <1>2, <1>3, <1>4, <1>5 DEF IInv

-----------------------------------------------------------------------------
(* Every step preserves it *)

\* Type correctness alone.
LEMMA TypeStep == TypeOK /\ [Next]_vars => TypeOK'
<1> SUFFICES ASSUME TypeOK, [Next]_vars PROVE TypeOK'
  OBVIOUS
<1> USE NoneApart
<1>1. CASE UNCHANGED vars
  BY <1>1 DEF TypeOK, vars, db, view, agents, counters
<1>2. CASE \E c \in Codes, a \in Installations : CreateEnrollment(c, a)
  BY <1>2 DEF TypeOK, CreateEnrollment, Rotate, view, counters
<1>3. CASE \E c \in Codes : Withdraw(c)
  BY <1>3 DEF TypeOK, Withdraw, view, agents, counters
<1>4. CASE Revoke
  <2>1. sock' \in [Sockets -> Socket]
    BY <1>4, HubMovesAreTyped DEF TypeOK, Revoke, HubEnd
  <2> QED BY <1>4, <2>1 DEF TypeOK, Revoke, agents, counters
<1>5. CASE ClearDiscovery
  BY <1>5 DEF TypeOK, ClearDiscovery, db, agents, counters
<1>6. CASE HubCrash
  <2>1. ASSUME NEW s \in Sockets PROVE Tidy([sock[s] EXCEPT !.hub = "over"]) \in Socket
    <3>1. [sock[s] EXCEPT !.hub = "over"] \in Socket BY DEF TypeOK, Socket, HubEnd
    <3> QED BY <3>1, TidyIsSocket
  <2>2. sock' \in [Sockets -> Socket] BY <1>6, <2>1 DEF HubCrash
  <2>3. faults' \in 0 .. MaxFaults
    BY <1>6, AdmissionAssumption DEF TypeOK, HubCrash, Fault, AdmissionAssumption
  <2> QED BY <1>6, <2>2, <2>3 DEF TypeOK, HubCrash, Fault, db, view, agents
<1>7. CASE \E a \in Installations : OpenSocket(a)
  <2>1. PICK a \in Installations : OpenSocket(a) BY <1>7
  <2>2. [who |-> a, code |-> held[a], node |-> "proving", hub |-> "waiting",
         accepted |-> FALSE] \in Socket
    BY DEF TypeOK, Socket, NodeEnd, HubEnd
  <2>3. sock' \in [Sockets -> Socket] BY <2>1, <2>2 DEF TypeOK, OpenSocket
  <2> QED BY <2>1, <2>3 DEF TypeOK, OpenSocket, db, view, agents, counters
<1>8. CASE \E a \in Installations : ConnectorUp(a)
  <2>1. PICK a \in Installations : ConnectorUp(a) BY <1>8
  <2>2. queue[a] \o <<"hello", "index">> \in Seq(Frame) BY DEF TypeOK, Frame
  <2>3. starts' \in 0 .. MaxStarts
    BY <2>1, AdmissionAssumption DEF TypeOK, ConnectorUp, AdmissionAssumption
  <2> QED BY <2>1, <2>2, <2>3 DEF TypeOK, ConnectorUp, db, view
<1>9. CASE \E a \in Installations : ConnectorDown(a)
  BY <1>9 DEF TypeOK, ConnectorDown, Frame, db, view, counters
<1>10. CASE \E a \in Installations : NodeCrash(a)
  <2>1. PICK a \in Installations : NodeCrash(a) BY <1>10
  <2>2. ASSUME NEW s \in Sockets PROVE Tidy([sock[s] EXCEPT !.node = "left"]) \in Socket
    <3>1. [sock[s] EXCEPT !.node = "left"] \in Socket BY DEF TypeOK, Socket, NodeEnd
    <3> QED BY <3>1, TidyIsSocket
  <2>3. sock' \in [Sockets -> Socket] BY <2>1, <2>2 DEF TypeOK, NodeCrash
  <2>4. faults' \in 0 .. MaxFaults
    BY <2>1, AdmissionAssumption DEF TypeOK, NodeCrash, Fault, AdmissionAssumption
  <2> QED BY <2>1, <2>3, <2>4 DEF TypeOK, NodeCrash, Fault, db, view
<1>11. ASSUME NEW s \in Sockets,
              \/ Verify(s) \/ ProofLost(s) \/ AcceptSent(s) \/ AcceptFails(s)
              \/ NodeAccepted(s) \/ CodeCleared(s) \/ Announce(s) \/ Process(s)
              \/ Disconnected(s) \/ NodeReconnects(s) \/ DropSocket(s)
       PROVE  TypeOK'
  <2> USE DEF HubEnd, NodeEnd
  <2>1. CASE Verify(s)
    <3>1. [sock[s] EXCEPT !.hub = "accepting", !.accepted = TRUE] \in Socket
      BY DEF TypeOK, Socket
    <3>2. [sock EXCEPT ![s].hub = "accepting", ![s].accepted = TRUE] \in [Sockets -> Socket]
      BY <3>1 DEF TypeOK
    <3>3. HubMoves(s, "over") \in [Sockets -> Socket] BY HubMovesAreTyped
    <3>4. \/ sock' = [sock EXCEPT ![s].hub = "accepting", ![s].accepted = TRUE]
          \/ sock' = HubMoves(s, "over")
      BY <2>1, Zenon DEF Verify
    <3>5. sock' \in [Sockets -> Socket] BY <3>2, <3>3, <3>4, Zenon
    <3>6. sock[s].who \in Installations \cup {None}
      BY DEF TypeOK, Socket
    <3>7. /\ owner' \in Installations \cup {None}
          /\ grant' \in [Codes -> {"none", "live", "consumed", "dead"}]
      BY <2>1, <3>6 DEF TypeOK, Verify
    <3> QED BY <2>1, <3>5, <3>7 DEF TypeOK, Verify, agents, counters
  <2>2. CASE ProofLost(s)
    BY <2>2, HubMovesAreTyped DEF TypeOK, ProofLost, db, view, agents, counters
  <2>3. CASE AcceptSent(s)
    <3>1. ASSUME NEW x \in Sockets
          PROVE  /\ [sock[x] EXCEPT !.hub = "live"] \in Socket
                 /\ [sock[x] EXCEPT !.hub = "closing"] \in Socket
      BY DEF TypeOK, Socket
    <3>2. sock' \in [Sockets -> Socket] BY <2>3, <3>1 DEF TypeOK, AcceptSent
    <3> QED BY <2>3, <3>2 DEF TypeOK, AcceptSent, db, view, agents, counters
  <2>4. CASE AcceptFails(s)
    BY <2>4, HubMovesAreTyped DEF TypeOK, AcceptFails, db, view, agents, counters
  <2>5. CASE NodeAccepted(s)
    BY <2>5, NodeMovesAreTyped DEF TypeOK, NodeAccepted, db, view, agents, counters
  <2>6. CASE CodeCleared(s)
    BY <2>6, NodeMovesAreTyped DEF TypeOK, CodeCleared, ClearCode, db, view, counters
  <2>7. CASE Announce(s)
    <3>1. sock' \in [Sockets -> Socket] BY <2>7, NodeMovesAreTyped DEF Announce
    <3>2. \A a \in Installations : Append(queue[a], "hello") \in Seq(Frame)
      BY DEF TypeOK, Frame
    <3>3. queue' \in [Installations -> Seq(Frame)] BY <2>7, <3>2 DEF TypeOK, Announce
    <3> QED BY <2>7, <3>1, <3>3 DEF TypeOK, Announce, db, view, counters
  <2>8. CASE Process(s)
    <3>1. sock' \in [Sockets -> Socket] BY <2>8, HubMovesAreTyped DEF TypeOK, Process
    <3>2. \A q \in Seq(Frame) : q # <<>> => Tail(q) \in Seq(Frame) OBVIOUS
    <3>3. queue' \in [Installations -> Seq(Frame)] BY <2>8, <3>2 DEF TypeOK, Process
    <3>4. online' \in BOOLEAN /\ index' \in BOOLEAN BY <2>8 DEF TypeOK, Process
    <3> QED BY <2>8, <3>1, <3>3, <3>4 DEF TypeOK, Process, db, counters
  <2>9. ASSUME HubEnds(s) \/ NodeEnds(s), UNCHANGED starts, faults' \in 0 .. MaxFaults
        PROVE  TypeOK'
    <3>1. CASE HubEnds(s)
      BY <2>9, <3>1, HubMovesAreTyped DEF TypeOK, HubEnds, OnlineWithout, db, agents
    <3>2. CASE NodeEnds(s)
      BY <2>9, <3>2, NodeMovesAreTyped DEF TypeOK, NodeEnds, db, view, agents
    <3> QED BY <2>9, <3>1, <3>2
  <2>10. CASE Disconnected(s)
    BY <2>9, <2>10 DEF TypeOK, Disconnected, counters
  <2>11. CASE NodeReconnects(s)
    BY <2>9, <2>11 DEF TypeOK, NodeReconnects, counters
  <2>12. CASE DropSocket(s)
    <3>1. faults' \in 0 .. MaxFaults /\ UNCHANGED starts
      BY <2>12, AdmissionAssumption DEF TypeOK, DropSocket, Fault, AdmissionAssumption
    <3> QED BY <2>9, <2>12, <3>1 DEF DropSocket
  <2> QED BY <1>11, <2>1, <2>2, <2>3, <2>4, <2>5, <2>6, <2>7, <2>8, <2>10, <2>11, <2>12
<1> QED BY <1>1, <1>2, <1>3, <1>4, <1>5, <1>6, <1>7, <1>8, <1>9, <1>10, <1>11 DEF Next

\* The grants and the binding, which only four actions touch.
LEMMA GrantStep ==
  ASSUME IInv, [Next]_vars
  PROVE  OneGrantBinds' /\ UnboundUnconsumed' /\ RevokedExists' /\ (owner # None => owner' = owner)
<1> USE NoneApart
<1> USE DEF IInv, TypeOK, OneGrantBinds, UnboundUnconsumed, RevokedExists
<1>1. ASSUME NEW c \in Codes, NEW a \in Installations, CreateEnrollment(c, a)
      PROVE  OneGrantBinds' /\ UnboundUnconsumed' /\ RevokedExists' /\ owner' = owner
  BY <1>1 DEF CreateEnrollment, Rotate
<1>2. ASSUME NEW c \in Codes, Withdraw(c)
      PROVE  OneGrantBinds' /\ UnboundUnconsumed' /\ RevokedExists' /\ owner' = owner
  BY <1>2 DEF Withdraw
<1>3. ASSUME Revoke
      PROVE  OneGrantBinds' /\ UnboundUnconsumed' /\ RevokedExists' /\ owner' = owner
  BY <1>3 DEF Revoke
<1>4. ASSUME NEW s \in Sockets, Verify(s)
      PROVE  /\ OneGrantBinds' /\ UnboundUnconsumed' /\ RevokedExists'
             /\ owner # None => owner' = owner
  <2>1. sock[s].who \in Installations
    BY <1>4 DEF Verify, SocketsAreOwned
  <2>2. sock[s].code \in Codes \cup {None} BY DEF Socket
  <2> DEFINE c == sock[s].code
  <2>3. revoked' = revoked BY <1>4 DEF Verify
  <2>4. CASE owner = None /\ c # None /\ grant[c] = "live"
    <3>1. grant' = [grant EXCEPT ![c] = "consumed"] /\ owner' = sock[s].who
      BY <1>4, <2>4 DEF Verify
    <3>2. c \in Codes BY <2>2, <2>4
    <3>3. \A d \in Codes \ {c} : grant'[d] \notin {"live", "consumed"}
      BY <2>4, <3>1, <3>2
    <3>4. grant'[c] = "consumed" BY <3>1, <3>2
    <3>5. OneGrantBinds' BY <2>1, <3>1, <3>2, <3>3, <3>4
    <3> QED BY <2>1, <2>3, <2>4, <3>1, <3>5
  <2>5. CASE ~(owner = None /\ c # None /\ grant[c] = "live")
    <3>1. grant' = grant /\ owner' = owner BY <1>4, <2>5 DEF Verify
    <3> QED BY <2>3, <3>1
  <2> QED BY <2>4, <2>5
<1>5. CASE grant' = grant /\ owner' = owner /\ revoked' = revoked
  BY <1>5
<1>6. ASSUME [Next]_vars,
             ~\E c \in Codes, a \in Installations : CreateEnrollment(c, a),
             ~\E c \in Codes : Withdraw(c), ~Revoke, ~\E s \in Sockets : Verify(s)
      PROVE  grant' = grant /\ owner' = owner /\ revoked' = revoked
  BY <1>6 DEF Next, vars, db, ClearDiscovery, HubCrash, OpenSocket, ConnectorUp,
     ConnectorDown, NodeCrash, ProofLost, AcceptSent, AcceptFails, NodeAccepted,
     CodeCleared, Announce, Process, Disconnected, NodeReconnects, DropSocket,
     HubEnds, NodeEnds
<1> QED BY <1>1, <1>2, <1>3, <1>4, <1>5, <1>6

\* Moving one end of a socket changes that end, or forgets the socket.
LEMMA HubMoved ==
  ASSUME TypeOK, NEW s \in Sockets, NEW h \in HubEnd, NEW x \in Sockets
  PROVE  /\ x # s => HubMoves(s, h)[x] = sock[x]
         /\ HubMoves(s, h)[s].hub = h
         /\ \/ HubMoves(s, h)[s].node = sock[s].node /\ HubMoves(s, h)[s].who = sock[s].who
            \/ HubMoves(s, h)[s].node = "left" /\ HubMoves(s, h)[s].hub = "over"
BY DEF HubMoves, Tidy, Unused, TypeOK, Socket

LEMMA NodeMoved ==
  ASSUME TypeOK, NEW s \in Sockets, NEW e \in NodeEnd, NEW x \in Sockets
  PROVE  /\ x # s => NodeMoves(s, e)[x] = sock[x]
         /\ NodeMoves(s, e)[s].node = e
         /\ NodeMoves(s, e)[s].hub = sock[s].hub
         /\ \/ NodeMoves(s, e)[s].who = sock[s].who
            \/ NodeMoves(s, e)[s].node = "left" /\ NodeMoves(s, e)[s].hub = "over"
BY DEF NodeMoves, Tidy, Unused, TypeOK, Socket

\* No step gives an open socket to a stranger or installs one.
LEMMA SocketStep ==
  ASSUME IInv, [Next]_vars
  PROVE  SocketsAreOwned' /\ InstalledIsOpen'
<1> USE NoneApart, GrantStep
<1> USE DEF IInv, TypeOK, SocketsAreOwned, InstalledIsOpen, HubEnd, NodeEnd
<1>1. CASE sock' = sock /\ current' = current /\ owner' = owner
  BY <1>1
<1>2. ASSUME [Next]_vars, ~Revoke, ~HubCrash,
             ~\E a \in Installations : OpenSocket(a) \/ NodeCrash(a),
             ~\E s \in Sockets :
                \/ Verify(s) \/ ProofLost(s) \/ AcceptSent(s) \/ AcceptFails(s)
                \/ NodeAccepted(s) \/ CodeCleared(s) \/ Announce(s) \/ Process(s)
                \/ Disconnected(s) \/ NodeReconnects(s) \/ DropSocket(s)
      PROVE  sock' = sock /\ current' = current /\ owner' = owner
  BY <1>2 DEF Next, vars, db, CreateEnrollment, Withdraw, ClearDiscovery,
     ConnectorUp, ConnectorDown
<1>3. CASE Revoke
  BY <1>3, HubMoved DEF Revoke
<1>4. CASE HubCrash
  <2>1. \A x \in Sockets : sock'[x].hub = "over" /\ (sock'[x].node = "left" \/ sock'[x].who = sock[x].who)
    BY <1>4 DEF HubCrash, Tidy, Unused, Socket
  <2>2. \A x \in Sockets : sock'[x].node # "left" => sock[x].node # "left"
    BY <1>4 DEF HubCrash, Tidy, Unused, Socket
  <2> QED BY <1>4, <2>1, <2>2 DEF HubCrash, db
<1>5. ASSUME NEW a \in Installations, OpenSocket(a) PROVE SocketsAreOwned' /\ InstalledIsOpen'
  <2>1. PICK s \in Sockets : /\ sock[s] = Unused
                             /\ sock' = [sock EXCEPT ![s] =
                                  [who |-> a, code |-> held[a], node |-> "proving",
                                   hub |-> "waiting", accepted |-> FALSE]]
    BY <1>5 DEF OpenSocket
  <2>2. UNCHANGED <<owner, current>> BY <1>5 DEF OpenSocket, db
  <2> QED BY <2>1, <2>2 DEF Unused
<1>6. ASSUME NEW a \in Installations, NodeCrash(a) PROVE SocketsAreOwned' /\ InstalledIsOpen'
  <2>1. \A x \in Sockets : /\ sock'[x].hub = sock[x].hub
                           /\ sock'[x].node # "left" => sock[x].node # "left"
                           /\ \/ sock'[x].who = sock[x].who
                              \/ sock'[x].hub = "over" /\ sock'[x].node = "left"
    BY <1>6 DEF NodeCrash, Tidy, Unused, Socket
  <2> QED BY <1>6, <2>1 DEF NodeCrash, db
<1>7. ASSUME NEW s \in Sockets,
             \/ Verify(s) \/ ProofLost(s) \/ AcceptSent(s) \/ AcceptFails(s)
             \/ NodeAccepted(s) \/ CodeCleared(s) \/ Announce(s) \/ Process(s)
             \/ HubEnds(s) \/ NodeEnds(s)
      PROVE  SocketsAreOwned' /\ InstalledIsOpen'
  <2>1. ASSUME NEW h \in {"closing", "over"}, sock' = HubMoves(s, h), owner' = owner,
               current' = current \/ (current = s /\ current' = None),
               h = "over" => current' # s, h = "closing" => sock[s].hub # "over"
        PROVE  SocketsAreOwned' /\ InstalledIsOpen'
    <3>1. \A x \in Sockets : x # s => sock'[x] = sock[x]
      BY <2>1, HubMoved
    <3>2. sock'[s].hub = h BY <2>1, HubMoved
    <3>3. \/ sock'[s].node = sock[s].node /\ sock'[s].who = sock[s].who
          \/ sock'[s].node = "left" /\ sock'[s].hub = "over"
      BY <2>1, HubMoved
    <3>4. h = "closing" => sock'[s].who = sock[s].who BY <3>2, <3>3
    <3> QED BY <2>1, <3>1, <3>2, <3>3, <3>4
  <2>2. ASSUME NEW e \in NodeEnd, sock' = NodeMoves(s, e), owner' = owner,
               current' = current, sock[s].node # "left"
        PROVE  SocketsAreOwned' /\ InstalledIsOpen'
    <3>1. \A x \in Sockets : x # s => sock'[x] = sock[x]
      BY <2>2, NodeMoved
    <3>2. /\ sock'[s].node = e /\ sock'[s].hub = sock[s].hub
          /\ \/ sock'[s].who = sock[s].who
             \/ sock'[s].node = "left" /\ sock'[s].hub = "over"
      BY <2>2, NodeMoved
    <3> QED BY <2>2, <3>1, <3>2
  <2>3. CASE Verify(s)
    <3>1. sock[s].who \in Installations BY <2>3 DEF Verify
    <3>2. CASE sock' = [sock EXCEPT ![s].hub = "accepting", ![s].accepted = TRUE]
               /\ owner' = sock[s].who
      BY <2>3, <3>1, <3>2 DEF Verify, Socket
    <3>3. CASE sock' = HubMoves(s, "over") /\ owner' = owner
      BY <2>1, <2>3, <3>3 DEF Verify
    <3>4. \/ sock' = [sock EXCEPT ![s].hub = "accepting", ![s].accepted = TRUE]
             /\ owner' = sock[s].who
          \/ sock' = HubMoves(s, "over") /\ owner' = owner
      BY <2>3, Zenon DEF Verify, KnownNode
    <3> QED BY <3>2, <3>3, <3>4
  <2>4. CASE ProofLost(s)
    BY <2>1, <2>4 DEF ProofLost, db
  <2>5. CASE AcceptSent(s)
    BY <2>5 DEF AcceptSent, db, Socket
  <2>6. CASE AcceptFails(s)
    BY <2>1, <2>6 DEF AcceptFails, db
  <2>7. CASE NodeAccepted(s)
    BY <2>2, <2>7 DEF NodeAccepted, db
  <2>8. CASE CodeCleared(s)
    BY <2>2, <2>8 DEF CodeCleared, db
  <2>9. CASE Announce(s)
    BY <2>2, <2>9 DEF Announce, db
  <2>10. CASE Process(s)
    <3>1. \/ sock' = sock
          \/ sock' = HubMoves(s, "closing") /\ sock[s].hub # "over"
      BY <2>10 DEF Process
    <3>2. owner' = owner /\ current' = current BY <2>10 DEF Process, db
    <3> QED BY <1>1, <2>1, <3>1, <3>2
  <2>11. CASE HubEnds(s)
    <3>1. current' # s BY <2>11 DEF HubEnds
    <3>2. current' = current \/ (current = s /\ current' = None) BY <2>11 DEF HubEnds
    <3> QED BY <2>1, <2>11, <3>1, <3>2 DEF HubEnds, db
  <2>12. CASE NodeEnds(s)
    BY <2>2, <2>12 DEF NodeEnds, db
  <2> QED BY <1>7, <2>3, <2>4, <2>5, <2>6, <2>7, <2>8, <2>9, <2>10, <2>11, <2>12
<1>8. CASE \E a \in Installations : OpenSocket(a) \/ NodeCrash(a)
  BY <1>5, <1>6, <1>8, Zenon
<1>9. ASSUME NEW s \in Sockets,
             \/ Verify(s) \/ ProofLost(s) \/ AcceptSent(s) \/ AcceptFails(s)
             \/ NodeAccepted(s) \/ CodeCleared(s) \/ Announce(s) \/ Process(s)
             \/ Disconnected(s) \/ NodeReconnects(s) \/ DropSocket(s)
      PROVE  SocketsAreOwned' /\ InstalledIsOpen'
  <2>1. Disconnected(s) => HubEnds(s) BY DEF Disconnected
  <2>2. NodeReconnects(s) => NodeEnds(s) BY DEF NodeReconnects
  <2>3. DropSocket(s) => HubEnds(s) \/ NodeEnds(s) BY DEF DropSocket
  <2> QED BY <1>7, <1>9, <2>1, <2>2, <2>3
<1> QED BY <1>1, <1>2, <1>3, <1>4, <1>8, <1>9, Zenon

\* No step shows what a revoked node, or a disconnected one, should not.
LEMMA ViewStep ==
  ASSUME IInv, [Next]_vars
  PROVE  RevokedLeavesNothing' /\ OnlineNeedsConnection'
<1> USE DEF IInv, TypeOK, RevokedLeavesNothing, OnlineNeedsConnection, RevokedExists
<1>1. CASE Revoke BY <1>1 DEF Revoke
<1>2. CASE ClearDiscovery BY <1>2 DEF ClearDiscovery, db
<1>3. CASE HubCrash BY <1>3 DEF HubCrash, db, view
<1>4. ASSUME NEW s \in Sockets, Verify(s)
      PROVE  RevokedLeavesNothing' /\ OnlineNeedsConnection'
  BY <1>4 DEF Verify
<1>5. ASSUME NEW s \in Sockets, AcceptSent(s)
      PROVE  RevokedLeavesNothing' /\ OnlineNeedsConnection'
  BY <1>5, NoneApart DEF AcceptSent, db, view
<1>6. ASSUME NEW s \in Sockets, Process(s)
      PROVE  RevokedLeavesNothing' /\ OnlineNeedsConnection'
  BY <1>6, NoneApart DEF Process, ActiveNode, db
<1>7. ASSUME NEW s \in Sockets, HubEnds(s)
      PROVE  RevokedLeavesNothing' /\ OnlineNeedsConnection'
  BY <1>7 DEF HubEnds, OnlineWithout, db
<1>8. CASE UNCHANGED <<revoked, online, index, current, restarted>>
  BY <1>8
<1>9. ASSUME ~Revoke, ~ClearDiscovery, ~HubCrash,
             ~\E s \in Sockets : Verify(s) \/ AcceptSent(s) \/ Process(s) \/ HubEnds(s)
      PROVE  UNCHANGED <<revoked, online, index, current, restarted>>
  BY <1>9 DEF Next, vars, db, view, CreateEnrollment, Withdraw, OpenSocket, ConnectorUp,
     ConnectorDown, NodeCrash, ProofLost, AcceptFails, NodeAccepted,
     CodeCleared, Announce, Disconnected, NodeReconnects, DropSocket, NodeEnds
<1> QED BY <1>1, <1>2, <1>3, <1>4, <1>5, <1>6, <1>7, <1>8, <1>9

-----------------------------------------------------------------------------
(* The theorems *)

LEMMA InvariantHolds == Spec => []IInv
<1>1. IInv /\ [Next]_vars => IInv'
  BY TypeStep, GrantStep, SocketStep, ViewStep DEF IInv
<1> QED BY InitHolds, <1>1, PTL DEF Spec

\* Every variable keeps its shape, for all constants.
THEOREM AdmissionTypes == Spec => []TypeOK
BY InvariantHolds, PTL DEF IInv

\* However enrollments are created, rotated, withdrawn and used, one grant
\* binds the node and no other grant is left that could (store.ts:232-310).
THEOREM OneGrantOneNode == Spec => []OneGrantBinds
BY InvariantHolds, PTL DEF IInv

\* However many handshakes overlap, the Hub installs the owner's alone
\* (agents.ts:223-243, 297-299).
THEOREM StrangersStayOut == Spec => []OnlyOwnerIsInstalled
<1>1. IInv => OnlyOwnerIsInstalled
  BY DEF IInv, SocketsAreOwned, InstalledIsOpen, OnlyOwnerIsInstalled
<1> QED BY InvariantHolds, <1>1, PTL

\* A revoked node is neither online nor listed, whatever frames and handshakes
\* were in flight (store.ts:335-348, 732-736).
THEOREM RevocationSticks == Spec => []RevokedLeavesNothing
BY InvariantHolds, PTL DEF IInv

\* What is shown online has an installed connection (store.ts:417-422).
THEOREM OnlineIsConnected == Spec => []OnlineNeedsConnection
BY InvariantHolds, PTL DEF IInv
=============================================================================
