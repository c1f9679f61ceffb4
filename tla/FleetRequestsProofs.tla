------------------------- MODULE FleetRequestsProofs -------------------------
(***************************************************************************)
(* Theorems about FleetRequests, for any fleet, any requests and any       *)
(* faults.                                                                 *)
(***************************************************************************)
EXTENDS FleetRequests, FiniteSetTheorems, TLAPS

-----------------------------------------------------------------------------
(* The inductive invariant *)

WaitState == {"none", "sending", "waiting", "live", "failed", "late", "read"}
AnswerState == {"none", "asking", "done", "refused", "timeout", "unavailable"}
Part == Runtimes \X {"live", "cached"}

Shape ==
  /\ online \subseteq Runtimes
  /\ wait \in [Requests -> [Runtimes -> WaitState]]
  /\ DOMAIN command = Requests /\ \A q \in Requests : DOMAIN command[q] = Runtimes
  /\ absent \in [Requests -> SUBSET Runtimes]
  /\ answer \in [Requests -> [state : AnswerState, parts : SUBSET Part]]

PartsOf(q, r) == {part \in answer[q].parts : part[1] = r}

\* A list that has not begun waits for nobody; one that is being asked waits for
\* exactly those it did not find absent, and has installed none of them; one
\* that is answered shows every runtime in one part.
ListInOrder(q) ==
  /\ answer[q].state \in {"none", "asking", "done"}
  /\ answer[q].state = "none" => \A r \in Runtimes : wait[q][r] = "none"
  /\ answer[q].state = "asking" =>
       \A r \in Runtimes : (r \in absent[q] <=> wait[q][r] = "none") /\ wait[q][r] # "read"
  /\ answer[q].state = "done" =>
       \A r \in Runtimes : PartsOf(q, r) = {<<r, "live">>} \/ PartsOf(q, r) = {<<r, "cached">>}

ListsInOrder == \A q \in Lists : ListInOrder(q)

IInv == Shape /\ NoLostWakeup /\ ListsInOrder

-----------------------------------------------------------------------------
LEMMA Kinds == Lists \cap Changes = {} /\ Lists \subseteq Requests /\ Changes \subseteq Requests
BY FleetAssumption DEF FleetAssumption, Requests

LEMMA InitHolds == Init => IInv
<1> SUFFICES ASSUME Init PROVE IInv OBVIOUS
<1>1. Shape BY DEF Init, Shape, NoAnswer, WaitState, AnswerState, Part
<1>2. NoLostWakeup BY DEF Init, NoLostWakeup
<1>3. ListsInOrder BY Kinds DEF Init, ListsInOrder, ListInOrder, NoAnswer
<1> QED BY <1>1, <1>2, <1>3 DEF IInv

\* What does not concern the requests.
LEMMA Elsewhere ==
  ASSUME IInv, online' \subseteq Runtimes, UNCHANGED asked
  PROVE  IInv'
BY DEF IInv, asked, Shape, NoLostWakeup, ListsInOrder, ListInOrder, PartsOf

\* What a requester is waiting for changes at one place only.
LEMMA WaitAt ==
  ASSUME Shape, NEW q \in Requests, NEW r \in Runtimes, NEW w \in WaitState,
         wait' = [wait EXCEPT ![q][r] = w]
  PROVE  /\ wait' \in [Requests -> [Runtimes -> WaitState]]
         /\ \A p \in Requests, s \in Runtimes :
              wait'[p][s] = IF p = q /\ s = r THEN w ELSE wait[p][s]
BY DEF Shape

\* A part that ends does not disturb the list it belongs to.
LEMMA PartEnds ==
  ASSUME Shape, ListsInOrder, NEW q \in Lists, NEW r \in Runtimes,
         NEW w \in {"waiting", "live", "failed", "late"},
         wait[q][r] \in {"sending", "waiting"}, wait' = [wait EXCEPT ![q][r] = w],
         absent' = absent, answer' = answer
  PROVE  ListsInOrder'
<1>1. w \in WaitState /\ q \in Requests BY Kinds DEF WaitState
<1>2. \A p \in Requests, s \in Runtimes : wait'[p][s] = IF p = q /\ s = r THEN w ELSE wait[p][s]
  BY <1>1, WaitAt
<1> SUFFICES ASSUME NEW p \in Lists PROVE ListInOrder(p)' BY DEF ListsInOrder
<1>3. ListInOrder(p) /\ p \in Requests BY Kinds DEF ListsInOrder
<1>4. ListInOrder(q) BY DEF ListsInOrder
<1>5. p = q => answer[p].state # "none" BY <1>4 DEF ListInOrder
<1>6. answer[p].state = "none" => \A s \in Runtimes : wait'[p][s] = "none"
  BY <1>2, <1>3, <1>5 DEF ListInOrder
<1>7. answer[p].state = "asking" =>
        \A s \in Runtimes : (s \in absent[p] <=> wait'[p][s] = "none") /\ wait'[p][s] # "read"
  BY <1>2, <1>3 DEF ListInOrder
<1> QED BY <1>3, <1>6, <1>7 DEF ListInOrder, PartsOf

\* Nor does what happens to a change.
LEMMA ChangeApart ==
  ASSUME Shape, ListsInOrder, NEW q \in Changes, NEW a,
         absent' = absent, answer' = [answer EXCEPT ![q] = a],
         \A p \in Requests \ {q}, s \in Runtimes : wait'[p][s] = wait[p][s]
  PROVE  ListsInOrder'
<1> SUFFICES ASSUME NEW p \in Lists PROVE ListInOrder(p)' BY DEF ListsInOrder
<1>1. p \in Requests \ {q} /\ q \in Requests BY Kinds
<1>2. answer'[p] = answer[p] BY <1>1 DEF Shape
<1>3. ListInOrder(p) BY DEF ListsInOrder
<1> QED BY <1>1, <1>2, <1>3 DEF ListInOrder, PartsOf

\* The answer to a change stays an answer.
LEMMA StateAt ==
  ASSUME Shape, NEW q \in Requests, NEW st \in AnswerState, answer' = [answer EXCEPT ![q].state = st]
  PROVE  /\ answer' \in [Requests -> [state : AnswerState, parts : SUBSET Part]]
         /\ answer' = [answer EXCEPT ![q] = [answer[q] EXCEPT !.state = st]]
         /\ answer'[q].state = st
BY DEF Shape

\* A result is read by the requester that waits for it, and by no other.
LEMMA ReadStep ==
  ASSUME IInv, NEW q \in Requests, NEW r \in Runtimes, NEW status, NEW rows,
         wait[q][r] \in {"sending", "waiting"}, Read(q, r, status, rows),
         online' = online, absent' = absent
  PROVE  IInv'
<1> USE DEF IInv
<1>1. CASE ReadList(q, r, status, rows)
  <2>1. PICK w \in {"live", "failed"} : wait' = [wait EXCEPT ![q][r] = w] BY <1>1 DEF ReadList
  <2>2. w \in WaitState BY DEF WaitState
  <2>3. /\ wait' \in [Requests -> [Runtimes -> WaitState]]
        /\ \A p \in Requests, s \in Runtimes : wait'[p][s] = IF p = q /\ s = r THEN w ELSE wait[p][s]
    BY <2>1, <2>2 DEF Shape
  <2>4. /\ DOMAIN command' = Requests /\ \A p \in Requests : DOMAIN command'[p] = Runtimes
        /\ \A p \in Requests, s \in Runtimes : p # q \/ s # r => command'[p][s] = command[p][s]
    <3> DEFINE c == [status |-> status, rows |-> rows, kept |-> FALSE]
    <3>1. command' = [command EXCEPT ![q][r] = c] BY <1>1 DEF ReadList
    <3> HIDE DEF c
    <3> QED BY <3>1 DEF Shape
  <2>5. Shape' BY <1>1, <2>3, <2>4 DEF ReadList, Shape
  <2>6. NoLostWakeup' BY <2>3, <2>4 DEF NoLostWakeup
  <2>7. ListsInOrder' BY <1>1, <2>1, PartEnds DEF ReadList
  <2> QED BY <2>5, <2>6, <2>7
<1>2. CASE ReadChange(q, r, status, rows)
  <2>1. wait' = [wait EXCEPT ![q][r] = "read"] /\ "read" \in WaitState BY <1>2 DEF ReadChange, WaitState
  <2>2. /\ wait' \in [Requests -> [Runtimes -> WaitState]]
        /\ \A p \in Requests, s \in Runtimes : wait'[p][s] = IF p = q /\ s = r THEN "read" ELSE wait[p][s]
    BY <2>1 DEF Shape
  <2>3. /\ DOMAIN command' = Requests /\ \A p \in Requests : DOMAIN command'[p] = Runtimes
        /\ \A p \in Requests, s \in Runtimes : p # q \/ s # r => command'[p][s] = command[p][s]
    <3> DEFINE c == [status |-> status, rows |-> {}, kept |-> FALSE]
    <3>1. command' = [command EXCEPT ![q][r] = c] BY <1>2 DEF ReadChange
    <3> HIDE DEF c
    <3> QED BY <3>1 DEF Shape
  <2>4. PICK st \in {"done", "refused"} : answer' = [answer EXCEPT ![q].state = st] BY <1>2 DEF ReadChange
  <2>5. st \in AnswerState BY DEF AnswerState
  <2>6. /\ answer' \in [Requests -> [state : AnswerState, parts : SUBSET Part]]
        /\ answer' = [answer EXCEPT ![q] = [answer[q] EXCEPT !.state = st]]
    BY <2>4, <2>5, StateAt
  <2>7. Shape' BY <2>2, <2>3, <2>6 DEF Shape
  <2>8. NoLostWakeup' BY <2>2, <2>3 DEF NoLostWakeup
  <2>9. q \in Changes /\ \A p \in Requests \ {q}, s \in Runtimes : wait'[p][s] = wait[p][s]
    BY <1>2, <2>2 DEF ReadChange
  <2>10. ListsInOrder' BY <2>6, <2>9, ChangeApart
  <2> QED BY <2>7, <2>8, <2>10
<1> QED BY <1>1, <1>2 DEF Read

LEMMA ListenStep ==
  ASSUME IInv, NEW q \in Requests, NEW r \in Runtimes, Listen(q, r)
  PROVE  IInv'
<1> USE DEF IInv
<1>1. CASE command[q][r].status \in Terminal BY <1>1, ReadStep DEF Listen
<1>2. CASE command[q][r].status \notin Terminal
  <2>1. /\ wait[q][r] = "sending" /\ wait' = [wait EXCEPT ![q][r] = "waiting"]
        /\ UNCHANGED <<online, command, absent, answer>>
    BY <1>2 DEF Listen, Wait
  <2>2. "waiting" \in WaitState BY DEF WaitState
  <2>3. /\ wait' \in [Requests -> [Runtimes -> WaitState]]
        /\ \A p \in Requests, s \in Runtimes : wait'[p][s] = IF p = q /\ s = r THEN "waiting" ELSE wait[p][s]
    BY <2>1, <2>2 DEF Shape
  <2>4. Shape' BY <2>1, <2>3 DEF Shape
  <2>5. NoLostWakeup' BY <1>2, <2>1, <2>3 DEF NoLostWakeup
  <2>6. CASE q \in Lists BY <2>1, <2>4, <2>5, <2>6, PartEnds
  <2>7. CASE q \in Changes
    <3>1. answer' = [answer EXCEPT ![q] = answer[q]] BY <2>1 DEF Shape
    <3>2. \A p \in Requests \ {q}, s \in Runtimes : wait'[p][s] = wait[p][s] BY <2>3
    <3> QED BY <2>1, <2>4, <2>5, <2>7, <3>1, <3>2, ChangeApart
  <2> QED BY <2>6, <2>7 DEF Requests
<1> QED BY <1>1, <1>2

LEMMA TimeoutStep ==
  ASSUME IInv, NEW q \in Requests, NEW r \in Runtimes, Timeout(q, r)
  PROVE  IInv'
<1> USE DEF IInv
<1>1. /\ wait[q][r] = "waiting" /\ wait' = [wait EXCEPT ![q][r] = "late"]
      /\ UNCHANGED <<online, command, absent>>
  BY DEF Timeout
<1>2. "late" \in WaitState BY DEF WaitState
<1>3. /\ wait' \in [Requests -> [Runtimes -> WaitState]]
      /\ \A p \in Requests, s \in Runtimes : wait'[p][s] = IF p = q /\ s = r THEN "late" ELSE wait[p][s]
  BY <1>1, <1>2 DEF Shape
<1>4. NoLostWakeup' BY <1>1, <1>3 DEF NoLostWakeup
<1>5. CASE q \in Lists
  <2>1. answer' = answer BY <1>5, Kinds DEF Timeout
  <2>2. Shape' BY <1>1, <1>3, <2>1 DEF Shape
  <2> QED BY <1>1, <1>4, <1>5, <2>1, <2>2, PartEnds
<1>6. CASE q \in Changes
  <2>1. answer' = [answer EXCEPT ![q].state = "timeout"] /\ "timeout" \in AnswerState
    BY <1>6 DEF Timeout, AnswerState
  <2>2. /\ answer' \in [Requests -> [state : AnswerState, parts : SUBSET Part]]
        /\ answer' = [answer EXCEPT ![q] = [answer[q] EXCEPT !.state = "timeout"]]
    BY <2>1, StateAt
  <2>3. Shape' BY <1>1, <1>3, <2>2 DEF Shape
  <2>4. \A p \in Requests \ {q}, s \in Runtimes : wait'[p][s] = wait[p][s] BY <1>3
  <2> QED BY <1>1, <1>4, <1>6, <2>2, <2>3, <2>4, ChangeApart
<1> QED BY <1>5, <1>6 DEF Requests

LEMMA TakeResultStep ==
  ASSUME IInv, NEW r \in Runtimes, TakeResult(r)
  PROVE  IInv'
<1> USE DEF IInv
<1> DEFINE m == Head(link[r])
           q == m.of
<1>0. UNCHANGED <<online, absent>> BY DEF TakeResult
<1>1. CASE command[q][r].status \in Terminal
  <2>1. UNCHANGED <<command, wait, answer>> BY <1>1 DEF TakeResult
  <2> QED BY <1>0, <2>1, Elsewhere DEF asked, Shape
<1>2. CASE command[q][r].status \notin Terminal /\ wait[q][r] = "waiting" /\ q \in Requests
  <2>1. Read(q, r, m.status, m.rows) BY <1>2 DEF TakeResult
  <2> QED BY <1>0, <1>2, <2>1, ReadStep
<1>3. CASE command[q][r].status \notin Terminal /\ wait[q][r] = "waiting" /\ q \notin Requests
  <2>1. Read(q, r, m.status, m.rows) BY <1>3 DEF TakeResult
  <2> QED BY <1>3, <2>1, Kinds DEF Read, ReadList, ReadChange
<1>4. CASE command[q][r].status \notin Terminal /\ wait[q][r] # "waiting"
  <2>1. /\ command' = [command EXCEPT ![q][r].status = m.status, ![q][r].rows = m.rows]
        /\ UNCHANGED <<wait, answer>>
    BY <1>4 DEF TakeResult
  <2>2. DOMAIN command' = Requests /\ \A p \in Requests : DOMAIN command'[p] = Runtimes
    BY <2>1 DEF Shape
  <2>3. \A p \in Requests, s \in Runtimes : p # q \/ s # r => command'[p][s] = command[p][s]
    BY <2>1 DEF Shape
  <2>4. Shape' BY <1>0, <2>1, <2>2 DEF Shape
  <2>5. NoLostWakeup' BY <1>4, <2>1, <2>3 DEF NoLostWakeup
  <2>6. ListsInOrder' BY <1>0, <2>1 DEF ListsInOrder, ListInOrder, PartsOf
  <2> QED BY <2>4, <2>5, <2>6
<1> QED BY <1>1, <1>2, <1>3, <1>4

LEMMA MaintainStep == IInv /\ Maintain => IInv'
<1> SUFFICES ASSUME IInv, Maintain PROVE IInv' OBVIOUS
<1> USE DEF IInv
<1>1. UNCHANGED <<online, wait, absent, answer>> BY DEF Maintain
<1>2. /\ DOMAIN command' = Requests /\ \A p \in Requests : DOMAIN command'[p] = Runtimes
      /\ \A q \in Requests, r \in Runtimes :
           <<q, r>> \notin Forgettable => command'[q][r] = command[q][r]
  BY DEF Maintain
<1>3. Shape' BY <1>1, <1>2 DEF Shape
<1>4. \A q \in Requests, r \in Runtimes : wait[q][r] = "waiting" => <<q, r>> \notin Forgettable
  BY DEF Forgettable
<1>5. NoLostWakeup' BY <1>1, <1>2, <1>4 DEF NoLostWakeup
<1>6. ListsInOrder' BY <1>1 DEF ListsInOrder, ListInOrder, PartsOf
<1> QED BY <1>3, <1>5, <1>6

\* A command is on its way before anybody waits for its result.
LEMMA Dispatched ==
  ASSUME Shape, NoLostWakeup, NEW q \in Requests, NEW targets \in SUBSET Runtimes, Dispatch(q, targets)
  PROVE  /\ wait' \in [Requests -> [Runtimes -> WaitState]]
         /\ DOMAIN command' = Requests /\ \A p \in Requests : DOMAIN command'[p] = Runtimes
         /\ \A p \in Requests, s \in Runtimes :
              wait'[p][s] = IF p = q /\ s \in targets THEN "sending" ELSE wait[p][s]
         /\ NoLostWakeup'
<1>1. "sending" \in WaitState BY DEF WaitState
<1>2. /\ wait' \in [Requests -> [Runtimes -> WaitState]]
      /\ \A p \in Requests, s \in Runtimes :
           wait'[p][s] = IF p = q /\ s \in targets THEN "sending" ELSE wait[p][s]
  BY <1>1 DEF Dispatch, Shape
<1>3. /\ DOMAIN command' = Requests /\ \A p \in Requests : DOMAIN command'[p] = Runtimes
      /\ \A p \in Requests, s \in Runtimes : ~(p = q /\ s \in targets) => command'[p][s] = command[p][s]
  BY DEF Dispatch, Shape
<1>4. NoLostWakeup' BY <1>2, <1>3 DEF NoLostWakeup
<1> QED BY <1>2, <1>3, <1>4

LEMMA StartStep ==
  ASSUME IInv, \/ \E q \in Requests, r \in Runtimes : StartChange(q, r)
               \/ \E q \in Lists : StartList(q)
  PROVE  IInv'
<1> USE DEF IInv
<1>1. ASSUME NEW q \in Requests, NEW r \in Runtimes, StartChange(q, r) PROVE IInv'
  <2>0. q \in Changes /\ UNCHANGED <<online, absent>> BY <1>1 DEF StartChange
  <2>1. PICK st \in {"asking", "unavailable"} : answer' = [answer EXCEPT ![q].state = st]
    BY <1>1 DEF StartChange
  <2>2. st \in AnswerState BY DEF AnswerState
  <2>3. /\ answer' \in [Requests -> [state : AnswerState, parts : SUBSET Part]]
        /\ answer' = [answer EXCEPT ![q] = [answer[q] EXCEPT !.state = st]]
    BY <2>1, <2>2, StateAt
  <2>4. /\ wait' \in [Requests -> [Runtimes -> WaitState]]
        /\ DOMAIN command' = Requests /\ \A p \in Requests : DOMAIN command'[p] = Runtimes
        /\ \A p \in Requests \ {q}, s \in Runtimes : wait'[p][s] = wait[p][s]
        /\ NoLostWakeup'
    <3>1. CASE Dispatch(q, {r}) BY <3>1, Dispatched
    <3>2. CASE UNCHANGED <<command, wait>> BY <3>2 DEF Shape, NoLostWakeup
    <3> QED BY <1>1, <3>1, <3>2 DEF StartChange
  <2>5. Shape' BY <2>0, <2>3, <2>4 DEF Shape
  <2> QED BY <2>0, <2>3, <2>4, <2>5, ChangeApart
<1>2. ASSUME NEW q \in Lists, StartList(q) PROVE IInv'
  <2>0. q \in Requests /\ online \in SUBSET Runtimes BY Kinds DEF Shape
  <2>1. /\ wait' \in [Requests -> [Runtimes -> WaitState]]
        /\ DOMAIN command' = Requests /\ \A p \in Requests : DOMAIN command'[p] = Runtimes
        /\ \A p \in Requests, s \in Runtimes :
             wait'[p][s] = IF p = q /\ s \in online THEN "sending" ELSE wait[p][s]
        /\ NoLostWakeup'
    BY <1>2, <2>0, Dispatched DEF StartList
  <2>2. "asking" \in AnswerState BY DEF AnswerState
  <2>3. /\ answer' \in [Requests -> [state : AnswerState, parts : SUBSET Part]]
        /\ answer'[q].state = "asking"
        /\ \A p \in Requests \ {q} : answer'[p] = answer[p]
    <3>1. answer' = [answer EXCEPT ![q].state = "asking"] BY <1>2 DEF StartList
    <3> QED BY <2>0, <2>2, <3>1, StateAt DEF Shape
  <2>4. /\ absent' \in [Requests -> SUBSET Runtimes] /\ absent'[q] = Runtimes \ online
        /\ \A p \in Requests \ {q} : absent'[p] = absent[p]
    BY <1>2, <2>0 DEF StartList, Shape
  <2>5. Shape' BY <1>2, <2>1, <2>3, <2>4 DEF StartList, Shape
  <2>6. ASSUME NEW p \in Lists PROVE ListInOrder(p)'
    <3>1. ListInOrder(p) /\ p \in Requests BY Kinds DEF ListsInOrder
    <3>2. CASE p = q
      <4>1. \A s \in Runtimes : wait[q][s] = "none" BY <1>2, <3>1, <3>2 DEF StartList, ListInOrder
      <4> QED BY <2>0, <2>1, <2>3, <2>4, <3>2, <4>1 DEF ListInOrder
    <3>3. CASE p # q BY <2>1, <2>3, <2>4, <3>1, <3>3 DEF ListInOrder, PartsOf
    <3> QED BY <3>2, <3>3
  <2> QED BY <2>1, <2>5, <2>6 DEF ListsInOrder
<1> QED BY <1>1, <1>2

\* The parts that answered and the parts that did not are all the parts.
LEMMA CombineStep ==
  ASSUME IInv, NEW q \in Lists, Combine(q)
  PROVE  IInv'
<1> USE DEF IInv
<1> DEFINE live == Parts(q, {"live"})
           rows == (live \X {"live"}) \cup (Cached(q) \X {"cached"})
<1>0. q \in Requests /\ UNCHANGED <<online, absent>> BY Kinds DEF Combine
<1>1. live \subseteq Runtimes /\ Cached(q) \subseteq Runtimes BY <1>0 DEF Parts, Cached, Shape
<1>2. rows \in SUBSET Part BY <1>1 DEF Part
<1>3. answer' = [answer EXCEPT ![q] = [state |-> "done", parts |-> rows]] BY DEF Combine
<1>4. "done" \in AnswerState /\ "read" \in WaitState BY DEF AnswerState, WaitState
<1>5. /\ answer' \in [Requests -> [state : AnswerState, parts : SUBSET Part]]
      /\ answer'[q] = [state |-> "done", parts |-> rows]
      /\ \A p \in Requests \ {q} : answer'[p] = answer[p]
  BY <1>0, <1>2, <1>3, <1>4 DEF Shape
<1>6. /\ wait' \in [Requests -> [Runtimes -> WaitState]]
      /\ \A p \in Requests, s \in Runtimes :
           wait'[p][s] = IF p = q /\ s \in live THEN "read" ELSE wait[p][s]
  BY <1>0, <1>4 DEF Combine, Shape
<1>7. /\ DOMAIN command' = Requests /\ \A p \in Requests : DOMAIN command'[p] = Runtimes
      /\ \A p \in Requests \ {q}, s \in Runtimes : command'[p][s] = command[p][s]
  BY <1>0 DEF Combine, Shape
<1>8. Shape' BY <1>0, <1>5, <1>6, <1>7 DEF Shape
<1>9. \A s \in Runtimes : wait[q][s] # "waiting" BY DEF Combine, Parts
<1>10. NoLostWakeup' BY <1>6, <1>7, <1>9 DEF NoLostWakeup
<1>11. ASSUME NEW r \in Runtimes
       PROVE  PartsOf(q, r)' = {<<r, "live">>} \/ PartsOf(q, r)' = {<<r, "cached">>}
  <2>1. PartsOf(q, r)' = {part \in rows : part[1] = r} BY <1>5 DEF PartsOf
  <2>2. wait[q][r] \in WaitState /\ wait[q][r] \notin {"sending", "waiting"}
    BY <1>0 DEF Shape, Combine, Parts
  <2>3. (r \in absent[q] <=> wait[q][r] = "none") /\ wait[q][r] # "read"
    BY DEF Combine, ListsInOrder, ListInOrder
  <2>4. CASE wait[q][r] = "live"
    <3>1. r \in live /\ r \notin Cached(q) BY <2>3, <2>4 DEF Parts, Cached
    <3> QED BY <2>1, <3>1
  <2>5. CASE wait[q][r] \in {"none", "failed", "late"}
    <3>1. r \notin live /\ r \in Cached(q) BY <2>3, <2>5 DEF Parts, Cached
    <3> QED BY <2>1, <3>1
  <2> QED BY <2>2, <2>3, <2>4, <2>5 DEF WaitState
<1>12. ASSUME NEW p \in Lists PROVE ListInOrder(p)'
  <2>1. ListInOrder(p) /\ p \in Requests BY Kinds DEF ListsInOrder
  <2>2. CASE p = q
    <3>1. (answer[q].state)' = "done" BY <1>5
    <3> QED BY <1>11, <2>2, <3>1 DEF ListInOrder
  <2>3. CASE p # q BY <1>0, <1>5, <1>6, <2>1, <2>3 DEF ListInOrder, PartsOf
  <2> QED BY <2>2, <2>3
<1> QED BY <1>8, <1>10, <1>12 DEF ListsInOrder

LEMMA StepHolds == IInv /\ [Next]_vars => IInv'
<1> SUFFICES ASSUME IInv, [Next]_vars PROVE IInv' OBVIOUS
<1>0. online \subseteq Runtimes BY DEF IInv, Shape
<1>1. CASE UNCHANGED vars BY <1>0, <1>1, Elsewhere DEF vars
<1>2. ASSUME NEW r \in Runtimes,
             LocalChange(r) \/ Connect(r) \/ Disconnect(r) \/ TakeFrame(r)
      PROVE  IInv'
  <2>1. UNCHANGED asked /\ online' \subseteq Runtimes
    BY <1>0, <1>2 DEF LocalChange, Connect, Disconnect, TakeFrame
  <2> QED BY <2>1, Elsewhere
<1>3. ASSUME NEW q \in Requests, NEW r \in Runtimes, Execute(q, r) PROVE IInv'
  BY <1>0, <1>3, Elsewhere DEF Execute
<1>4. CASE OpenStream \/ CloseStream BY <1>0, <1>4, Elsewhere DEF OpenStream, CloseStream
<1> QED BY <1>1, <1>2, <1>3, <1>4, ListenStep, TimeoutStep, TakeResultStep, MaintainStep, StartStep,
           CombineStep DEF Next

LEMMA FleetInvariant == Spec => []IInv
<1> QED BY InitHolds, StepHolds, PTL DEF Spec

\* waitCommand() looks at the row once more before it waits: no result is
\* committed behind its back.
THEOREM WakeupsArrive == Spec => []NoLostWakeup
<1>1. IInv => NoLostWakeup BY DEF IInv
<1> QED BY <1>1, FleetInvariant, PTL

\* aggregateOfficialRequest() answers with every runtime of the fleet and with
\* none twice.
THEOREM ListsAreWhole == Spec => []EachRuntimeOnce
<1>1. IInv => EachRuntimeOnce
  <2> SUFFICES ASSUME IInv, NEW q \in Lists, answer[q].state = "done", NEW r \in Runtimes
               PROVE  Cardinality({part \in answer[q].parts : part[1] = r}) = 1
    BY DEF EachRuntimeOnce
  <2>1. PartsOf(q, r) = {<<r, "live">>} \/ PartsOf(q, r) = {<<r, "cached">>}
    BY DEF IInv, ListsInOrder, ListInOrder
  <2>2. Cardinality({<<r, "live">>}) = 1 /\ Cardinality({<<r, "cached">>}) = 1 BY FS_Singleton
  <2> QED BY <2>1, <2>2 DEF PartsOf
<1> QED BY <1>1, FleetInvariant, PTL

-----------------------------------------------------------------------------
(* Sequences of frames and results *)

Message == [type : {"frame"}, kind : {"changed", "removed", "order"}, rows : SUBSET Ids]
           \cup [type : {"result"}, of : Requests, status : Terminal, rows : SUBSET Ids]

\* A frame touches a row when it says whether the row is there; what the last
\* such frame says is what the runtime has.
Touches(m, i) == ~IsResult(m) /\ (m.kind = "order" \/ i \in m.rows)
Says(m, i) == m.kind # "removed" /\ i \in m.rows
Silent(s, i, p) == \A k \in DOMAIN s : k > p => ~Touches(s[k], i)
LastWord(s, now) ==
  \A i \in Ids, k \in DOMAIN s : Touches(s[k], i) /\ Silent(s, i, k) => (Says(s[k], i) <=> i \in now)

\* The frames of s after position p make what the runtime has now of these rows.
Leads(s, p, rows, now) == \A i \in Ids : Silent(s, i, p) => (i \in rows <=> i \in now)

LEMMA Shifted ==
  ASSUME NEW s \in Seq(Message), s # <<>>
  PROVE  /\ Tail(s) \in Seq(Message) /\ Head(s) = s[1] /\ s[1] \in Message /\ 1 \in DOMAIN s
         /\ \A k \in DOMAIN Tail(s) : k + 1 \in DOMAIN s /\ Tail(s)[k] = s[k + 1] /\ k >= 1 /\ k \in Nat
         /\ \A k \in DOMAIN s : k \in Nat /\ k >= 1 /\ (k > 1 => k - 1 \in DOMAIN Tail(s) /\ s[k] = Tail(s)[k - 1])
OBVIOUS

LEMMA SilentTail ==
  ASSUME NEW s \in Seq(Message), s # <<>>, NEW i, NEW p \in Nat, Silent(Tail(s), i, p)
  PROVE  /\ Silent(s, i, p + 1)
         /\ p = 0 /\ ~Touches(s[1], i) => Silent(s, i, 0)
<1>1. ASSUME NEW k \in DOMAIN s, k > p + 1 PROVE ~Touches(s[k], i)
  <2>1. k - 1 \in DOMAIN Tail(s) /\ s[k] = Tail(s)[k - 1] /\ k - 1 > p BY <1>1, Shifted
  <2> QED BY <2>1 DEF Silent
<1>2. ASSUME p = 0, ~Touches(s[1], i), NEW k \in DOMAIN s PROVE ~Touches(s[k], i)
  <2>1. k = 1 \/ k > 1 BY Shifted
  <2> QED BY <1>1, <1>2, <2>1
<1> QED BY <1>1, <1>2 DEF Silent

\* What has arrived is no longer on its way.
LEMMA TailKeeps ==
  ASSUME NEW s \in Seq(Message), s # <<>>, NEW now
  PROVE  /\ LastWord(s, now) => LastWord(Tail(s), now)
         /\ \A p \in Nat : \A rows : Leads(s, p + 1, rows, now) => Leads(Tail(s), p, rows, now)
         /\ IsResult(s[1]) => \A rows : Leads(s, 0, rows, now) => Leads(Tail(s), 0, rows, now)
<1>1. ASSUME LastWord(s, now) PROVE LastWord(Tail(s), now)
  <2> SUFFICES ASSUME NEW i \in Ids, NEW k \in DOMAIN Tail(s), Touches(Tail(s)[k], i), Silent(Tail(s), i, k)
               PROVE  Says(Tail(s)[k], i) <=> i \in now
    BY DEF LastWord
  <2>1. k \in Nat /\ k + 1 \in DOMAIN s /\ Tail(s)[k] = s[k + 1] BY Shifted
  <2>2. Silent(s, i, k + 1) BY <2>1, SilentTail
  <2> QED BY <1>1, <2>1, <2>2 DEF LastWord
<1>2. \A p \in Nat : \A rows : Leads(s, p + 1, rows, now) => Leads(Tail(s), p, rows, now)
  BY SilentTail DEF Leads
<1>3. ASSUME IsResult(s[1]), NEW rows, Leads(s, 0, rows, now) PROVE Leads(Tail(s), 0, rows, now)
  <2>1. \A i : ~Touches(s[1], i) BY <1>3 DEF Touches
  <2>2. \A i : Silent(Tail(s), i, 0) => Silent(s, i, 0) BY <2>1, SilentTail
  <2> QED BY <1>3, <2>2 DEF Leads
<1> QED BY <1>1, <1>2, <1>3

\* A frame that is seen takes the snapshot as far as the frames behind it need.
LEMMA FrameApplied ==
  ASSUME NEW s \in Seq(Message), s # <<>>, NEW now, NEW rows,
         ~IsResult(s[1]), LastWord(s, now), s[1].kind = "order" \/ Leads(s, 0, rows, now)
  PROVE  Leads(Tail(s), 0, Applied(rows, s[1]), now)
<1> SUFFICES ASSUME NEW i \in Ids, Silent(Tail(s), i, 0)
             PROVE  i \in Applied(rows, s[1]) <=> i \in now
  BY DEF Leads
<1> DEFINE m == s[1]
<1>1. m \in Message /\ 1 \in DOMAIN s /\ m.type # "result" BY Shifted DEF IsResult
<1>2. m.kind \in {"changed", "removed", "order"} BY <1>1 DEF Message
<1>3. CASE Touches(m, i)
  <2>1. Silent(s, i, 1) BY SilentTail
  <2>2. Says(m, i) <=> i \in now BY <1>1, <1>3, <2>1 DEF LastWord
  <2>3. i \in Applied(rows, m) <=> Says(m, i)
    BY <1>2, <1>3 DEF Applied, Says, Touches
  <2> QED BY <2>2, <2>3
<1>4. CASE ~Touches(m, i)
  <2>1. Silent(s, i, 0) BY <1>4, SilentTail
  <2>2. i \notin m.rows /\ m.kind # "order" BY <1>4 DEF Touches
  <2>3. i \in rows <=> i \in now BY <2>1, <2>2 DEF Leads
  <2>4. i \in Applied(rows, m) <=> i \in rows BY <1>2, <2>2 DEF Applied
  <2> QED BY <2>3, <2>4
<1> QED BY <1>3, <1>4

\* What is said last comes after everything that is on its way.
LEMMA Appended ==
  ASSUME NEW s \in Seq(Message), NEW m \in Message
  PROVE  /\ Append(s, m) \in Seq(Message) /\ Len(s) \in Nat
         /\ s \o <<m>> = Append(s, m)
         /\ DOMAIN s = 1 .. Len(s) /\ DOMAIN Append(s, m) = 1 .. Len(s) + 1
         /\ \A k \in DOMAIN s : Append(s, m)[k] = s[k]
         /\ Append(s, m)[Len(s) + 1] = m
OBVIOUS

LEMMA SilentBefore ==
  ASSUME NEW s \in Seq(Message), NEW m \in Message, NEW i, NEW p \in Nat
  PROVE  /\ Silent(Append(s, m), i, p) => Silent(s, i, p)
         /\ p <= Len(s) /\ Silent(Append(s, m), i, p) => ~Touches(m, i)
<1>1. \A k \in DOMAIN s : k \in DOMAIN Append(s, m) /\ Append(s, m)[k] = s[k] BY Appended
<1>2. Silent(Append(s, m), i, p) => Silent(s, i, p) BY <1>1 DEF Silent
<1>3. Len(s) + 1 \in DOMAIN Append(s, m) /\ Append(s, m)[Len(s) + 1] = m /\ Len(s) \in Nat BY Appended
<1>4. p <= Len(s) => Len(s) + 1 > p BY <1>3
<1>5. p <= Len(s) /\ Silent(Append(s, m), i, p) => ~Touches(m, i) BY <1>3, <1>4 DEF Silent
<1> QED BY <1>2, <1>5

\* A frame that tells the change it comes with, or a result that comes with none.
Tells(m, before, now) ==
  \A i \in Ids : IF Touches(m, i) THEN Says(m, i) <=> i \in now ELSE i \in before <=> i \in now

LEMMA ToldLast ==
  ASSUME NEW s \in Seq(Message), NEW m \in Message, NEW before, NEW now, Tells(m, before, now)
  PROVE  /\ LastWord(s, before) => LastWord(Append(s, m), now)
         /\ \A p \in 0 .. Len(s) : \A rows : Leads(s, p, rows, before) => Leads(Append(s, m), p, rows, now)
         /\ Leads(Append(s, m), Len(s) + 1, now, now)
<1>0. Len(s) \in Nat BY Appended
<1>1. ASSUME LastWord(s, before) PROVE LastWord(Append(s, m), now)
  <2> SUFFICES ASSUME NEW i \in Ids, NEW k \in DOMAIN Append(s, m),
                      Touches(Append(s, m)[k], i), Silent(Append(s, m), i, k)
               PROVE  Says(Append(s, m)[k], i) <=> i \in now
    BY DEF LastWord
  <2>1. CASE k \in DOMAIN s
    <3>1. Append(s, m)[k] = s[k] /\ k \in Nat /\ k <= Len(s) BY <2>1, Appended
    <3>2. Silent(s, i, k) /\ ~Touches(m, i) BY <3>1, SilentBefore
    <3>3. Says(s[k], i) <=> i \in before BY <1>1, <2>1, <3>1, <3>2 DEF LastWord
    <3> QED BY <3>1, <3>2, <3>3 DEF Tells
  <2>2. CASE k \notin DOMAIN s
    <3>1. k = Len(s) + 1 BY <2>2, Appended
    <3>2. Append(s, m)[k] = m BY <3>1, Appended
    <3> QED BY <3>2 DEF Tells
  <2> QED BY <2>1, <2>2
<1>2. ASSUME NEW p \in 0 .. Len(s), NEW rows, Leads(s, p, rows, before) PROVE Leads(Append(s, m), p, rows, now)
  <2> SUFFICES ASSUME NEW i \in Ids, Silent(Append(s, m), i, p) PROVE i \in rows <=> i \in now
    BY DEF Leads
  <2>1. p \in Nat /\ p <= Len(s) BY <1>0
  <2>2. Silent(s, i, p) /\ ~Touches(m, i) BY <2>1, SilentBefore
  <2> QED BY <1>2, <2>2 DEF Leads, Tells
<1>3. Leads(Append(s, m), Len(s) + 1, now, now) BY DEF Leads
<1> QED BY <1>1, <1>2, <1>3

\* A set of numbers that is not empty has a first one.
LEMMA FirstOf ==
  ASSUME NEW S \in SUBSET Nat, S # {}
  PROVE  \E m \in S : \A j \in S : m <= j
<1>1. PICK n \in S : TRUE OBVIOUS
<1> DEFINE Low == {k \in S : k <= n}
           Below(m) == {k \in S : k < m}
           T == {Below(m) : m \in Low}
           R == StrictSubsetOrdering(Low)
<1>7. \A k \in S : k \in Nat OBVIOUS
<1>2. n \in Low /\ n \in Nat /\ Low \subseteq 0 .. n
  <2>1. n \in Nat /\ n <= n BY <1>7
  <2>2. \A k \in Low : k \in 0 .. n BY <1>7, <2>1
  <2>3. n \in Low BY <2>1
  <2> QED BY <2>1, <2>2, <2>3
<1>3. IsFiniteSet(Low)
  <2>1. IsFiniteSet(0 .. n) BY <1>2, FS_Interval
  <2> QED BY <1>2, <2>1, FS_Subset
<1>4. T \subseteq FiniteSubsetsOf(Low) /\ T # {}
  <2>1. ASSUME NEW m \in Low PROVE Below(m) \subseteq Low
    <3>1. \A k \in S : k < m => k <= n BY <1>2, <1>7
    <3> QED BY <3>1
  <2>2. \A m \in Low : IsFiniteSet(Below(m)) BY <1>3, <2>1, FS_Subset
  <2> QED BY <1>2, <2>1, <2>2 DEF FiniteSubsetsOf
<1>5. PICK x \in T : \A y \in T : ~(<<y, x>> \in R)
  <2>1. IsWellFoundedOn(R, FiniteSubsetsOf(Low)) BY <1>3, FS_StrictSubsetOrderingWellFounded
  <2> HIDE DEF T, R
  <2> QED BY <1>4, <2>1, WFMin
<1>6. PICK m \in Low : x = Below(m) OBVIOUS
<1>8. ASSUME NEW j \in S, j < m PROVE FALSE
  <2>1. j \in Low BY <1>2, <1>6, <1>7, <1>8
  <2>2. Below(j) \in T BY <2>1
  <2>3. Below(j) \subseteq Below(m)
    <3> SUFFICES ASSUME NEW k \in Below(j) PROVE k < m OBVIOUS
    <3> QED BY <1>6, <1>7, <1>8
  <2>4. j \in Below(m) /\ j \notin Below(j) BY <1>7, <1>8
  <2>5. \A k \in Below(m) : k \in Low BY <1>2, <1>6, <1>7
  <2>6. <<Below(j), Below(m)>> \in R BY <2>3, <2>4, <2>5 DEF StrictSubsetOrdering
  <2> QED BY <1>5, <1>6, <2>2, <2>6
<1> QED BY <1>6, <1>7, <1>8

\* Of a finite set of positions there is an n-th.
LEMMA NthOf ==
  ASSUME NEW l \in Nat, NEW at \in SUBSET (1 .. l), NEW n \in 1 .. Cardinality(at)
  PROVE  \E i \in at : Cardinality({j \in at : j < i}) = n - 1
<1> DEFINE UpTo(m) == {j \in at : j <= m}
           T == {m \in Nat : Cardinality(UpTo(m)) >= n}
<1>1. IsFiniteSet(at)
  <2>1. IsFiniteSet(1 .. l) BY FS_Interval
  <2> QED BY <2>1, FS_Subset
<1>2. \A j \in at : j \in Nat /\ j >= 1 /\ j <= l OBVIOUS
<1>3. Cardinality(at) \in Nat BY <1>1, FS_CardinalityType
<1>4. n \in Nat /\ n >= 1 /\ n <= Cardinality(at) BY <1>3
<1>5. UpTo(l) = at BY <1>2
<1>6. l \in T BY <1>3, <1>4, <1>5
<1>7. PICK m \in T : \A j \in T : m <= j
  <2> HIDE DEF T
  <2> QED BY <1>6, FirstOf DEF T
<1>8. m \in Nat /\ Cardinality(UpTo(m)) >= n OBVIOUS
<1>9. \A k : IsFiniteSet(UpTo(k)) /\ Cardinality(UpTo(k)) \in Nat
  <2> SUFFICES ASSUME NEW k PROVE IsFiniteSet(UpTo(k)) /\ Cardinality(UpTo(k)) \in Nat OBVIOUS
  <2>1. UpTo(k) \in SUBSET at OBVIOUS
  <2>2. IsFiniteSet(UpTo(k)) BY <1>1, <2>1, FS_Subset
  <2> QED BY <2>2, FS_CardinalityType
<1>10. m >= 1
  <2>1. UpTo(0) = {}
    <3>1. \A j \in at : ~(j <= 0) BY <1>2
    <3> QED BY <3>1
  <2>2. Cardinality(UpTo(0)) = 0 BY <2>1, FS_EmptySet
  <2> QED BY <1>4, <1>8, <2>2
<1>11. m - 1 \in Nat /\ m - 1 \notin T
  <2>1. m - 1 \in Nat /\ ~(m <= m - 1) BY <1>8, <1>10
  <2> HIDE DEF T
  <2> QED BY <1>7, <2>1
<1>12. Cardinality(UpTo(m - 1)) < n
  <2>1. ~(Cardinality(UpTo(m - 1)) >= n) BY <1>11
  <2>2. Cardinality(UpTo(m - 1)) \in Nat BY <1>9
  <2> HIDE DEF UpTo
  <2> QED BY <1>4, <2>1, <2>2
<1>13. m \in at
  <2> SUFFICES ASSUME m \notin at PROVE FALSE OBVIOUS
  <2>1. UpTo(m) = UpTo(m - 1)
    <3>1. \A j \in at : j <= m <=> j <= m - 1 BY <1>2, <1>8
    <3> QED BY <3>1
  <2> QED BY <1>4, <1>8, <1>9, <1>12, <2>1
<1>14. UpTo(m) = UpTo(m - 1) \cup {m} /\ m \notin UpTo(m - 1) /\ UpTo(m - 1) = {j \in at : j < m}
  <2>1. \A j \in at : (j <= m <=> j <= m - 1 \/ j = m) /\ (j <= m - 1 <=> j < m) BY <1>2, <1>8
  <2>2. ~(m <= m - 1) BY <1>8
  <2> QED BY <1>13, <2>1, <2>2
<1>15. Cardinality(UpTo(m)) = Cardinality(UpTo(m - 1)) + 1
  <2>1. IsFiniteSet(UpTo(m - 1)) BY <1>9
  <2>2. UpTo(m) = UpTo(m - 1) \cup {m} /\ m \notin UpTo(m - 1) BY <1>14
  <2> HIDE DEF UpTo
  <2> QED BY <2>1, <2>2, FS_AddElement
<1>16. Cardinality(UpTo(m - 1)) = n - 1
  <2>1. Cardinality(UpTo(m - 1)) \in Nat BY <1>9
  <2> HIDE DEF UpTo
  <2> QED BY <1>4, <1>8, <1>12, <1>15, <2>1
<1> QED BY <1>13, <1>14, <1>16

\* What is left of a sequence are results that were in it.
LEMMA OnlyResults ==
  ASSUME NEW s \in Seq(Message)
  PROVE  /\ Results(s) \in Seq(Message)
         /\ \A k \in DOMAIN Results(s) :
              /\ IsResult(Results(s)[k])
              /\ \E i \in DOMAIN s : Results(s)[k] = s[i]
<1> DEFINE at == {i \in DOMAIN s : IsResult(s[i])}
           Nth(n) == CHOOSE i \in at : Cardinality({j \in at : j < i}) = n - 1
<1>1. Len(s) \in Nat /\ DOMAIN s = 1 .. Len(s) /\ \A i \in DOMAIN s : s[i] \in Message OBVIOUS
<1>2. at \in SUBSET (1 .. Len(s)) BY <1>1
<1>3. Cardinality(at) \in Nat
  <2>1. IsFiniteSet(1 .. Len(s)) BY <1>1, FS_Interval
  <2>2. IsFiniteSet(at) BY <1>2, <2>1, FS_Subset
  <2> QED BY <2>2, FS_CardinalityType
<1>4. Results(s) = [n \in 1 .. Cardinality(at) |-> s[Nth(n)]] BY DEF Results
<1>5. ASSUME NEW n \in 1 .. Cardinality(at) PROVE Nth(n) \in at
  <2>1. \E i \in at : Cardinality({j \in at : j < i}) = n - 1
    <3> HIDE DEF at
    <3> QED BY <1>1, <1>2, NthOf
  <2> HIDE DEF at
  <2> QED BY <2>1
<1> HIDE DEF Nth
<1>6. \A n \in 1 .. Cardinality(at) : s[Nth(n)] \in Message /\ IsResult(s[Nth(n)]) /\ Nth(n) \in DOMAIN s
  BY <1>1, <1>5
<1> HIDE DEF at
<1>7. DOMAIN Results(s) = 1 .. Cardinality(at) /\ \A k \in DOMAIN Results(s) : Results(s)[k] = s[Nth(k)]
  BY <1>4
<1>8. Results(s) \in [1 .. Cardinality(at) -> Message] BY <1>4, <1>6
<1>9. Results(s) \in Seq(Message) BY <1>3, <1>8
<1> QED BY <1>6, <1>7, <1>9

-----------------------------------------------------------------------------
(* What the Hub knows follows what the runtime has *)

Row == [status : Terminal \cup {"none", "sent"}, rows : SUBSET Ids, kept : BOOLEAN]

Stored ==
  /\ real \in [Runtimes -> SUBSET Ids] /\ snapshot \in [Runtimes -> SUBSET Ids]
  /\ link \in [Runtimes -> Seq(Message)]
  /\ command \in [Requests -> [Runtimes -> Row]]
  /\ missed \in [Runtimes -> BOOLEAN] /\ behind \subseteq Requests \X Runtimes

\* A request that has not begun has no command and no result.
Fresh(q) ==
  \A r \in Runtimes :
    /\ command[q][r].status # "sent"
    /\ \A k \in DOMAIN link[r] : IsResult(link[r][k]) => link[r][k].of # q
Begun == \A q \in Requests : answer[q].state = "none" => Fresh(q)

Ended == \A q \in Requests, r \in Runtimes : wait[q][r] = "live" => command[q][r].status = "ok"

\* No frame is on its way from a runtime without a connection.
Quiet == \A r \in Runtimes \ online : \A k \in DOMAIN link[r] : IsResult(link[r][k])

\* A result that will be installed when it comes, and one that is there to be
\* installed: no frame has passed it.
Coming(q, r) ==
  /\ wait[q][r] \in {"sending", "waiting"} /\ command[q][r].status \notin Terminal
  /\ <<q, r>> \notin behind
Held(q, r) == wait[q][r] = "live" \/ (wait[q][r] = "sending" /\ command[q][r].status \in Terminal)
ToRead(q, r) == Held(q, r) /\ command[q][r].status = "ok" /\ <<q, r>> \notin behind

\* The frames that are still on their way in s make of the snapshot, of a result
\* among them and of one that is there, what the runtime has now.
FollowsOn(s, r) ==
  /\ LastWord(s, real[r])
  /\ ~missed[r] => Leads(s, 0, snapshot[r], real[r])
  /\ \A k \in DOMAIN s :
       IsResult(s[k]) /\ s[k].status = "ok" /\ Coming(s[k].of, r) => Leads(s, k, s[k].rows, real[r])
  /\ \A q \in Requests : ToRead(q, r) => Leads(s, 0, command[q][r].rows, real[r])

Follows == \A r \in Runtimes : FollowsOn(link[r], r)

OInv == Stored /\ Begun /\ Ended /\ Quiet /\ Follows

LEMMA InitFollows == Init => OInv
<1> SUFFICES ASSUME Init PROVE OInv OBVIOUS
<1>1. \A r \in Runtimes : link[r] = <<>> /\ missed[r] /\ real[r] = {}
  BY DEF Init
<1>2. Stored
  <2>1. NoCommand \in Row BY DEF NoCommand, Row
  <2>2. <<>> \in Seq(Message) OBVIOUS
  <2> QED BY <2>1, <2>2 DEF Init, Stored
<1>3. Begun BY <1>1 DEF Init, Begun, Fresh, NoCommand
<1>4. Ended BY DEF Init, Ended
<1>5. Quiet BY <1>1 DEF Quiet
<1>6. Follows
  <2> SUFFICES ASSUME NEW r \in Runtimes PROVE FollowsOn(link[r], r) BY DEF Follows
  <2>1. \A q \in Requests : ~ToRead(q, r) BY DEF Init, ToRead, Held
  <2>2. LastWord(<<>>, real[r]) BY DEF LastWord
  <2> QED BY <1>1, <2>1, <2>2 DEF FollowsOn
<1> QED BY <1>2, <1>3, <1>4, <1>5, <1>6 DEF OInv

\* A runtime whose rows, frames and snapshot are left alone, when no further
\* result of it is awaited or held.
LEMMA Undisturbed ==
  ASSUME NEW r \in Runtimes, NEW s, FollowsOn(s, r),
         real'[r] = real[r], snapshot'[r] = snapshot[r], missed'[r] = missed[r],
         \A q \in Requests : ToRead(q, r)' => ToRead(q, r) /\ command'[q][r].rows = command[q][r].rows,
         \A k \in DOMAIN s : IsResult(s[k]) /\ Coming(s[k].of, r)' => Coming(s[k].of, r)
  PROVE  FollowsOn(s, r)'
BY DEF FollowsOn

LEMMA StillFresh ==
  ASSUME NEW q \in Requests, Fresh(q),
         \A r \in Runtimes : command'[q][r].status = "sent" => command[q][r].status = "sent",
         \A r \in Runtimes : \A k \in DOMAIN link'[r] : IsResult(link'[r][k]) /\ link'[r][k].of = q =>
           \E j \in DOMAIN link[r] : link[r][j] = link'[r][k]
  PROVE  Fresh(q)'
BY DEF Fresh

\* Connections, streams, timers and the maintenance.
LEMMA AsideStep ==
  ASSUME IInv, OInv,
         \/ \E r \in Runtimes : Connect(r)
         \/ OpenStream \/ CloseStream \/ UNCHANGED vars
         \/ \E q \in Requests, r \in Runtimes : Timeout(q, r)
         \/ Maintain
  PROVE  OInv'
<1> USE DEF OInv
<1>1. UNCHANGED <<real, link, snapshot, missed, behind>> /\ online \subseteq online'
  BY DEF Connect, OpenStream, CloseStream, Timeout, Maintain, dsh, known, history, vars
<1>2. /\ command' \in [Requests -> [Runtimes -> Row]]
      /\ \A q \in Requests, r \in Runtimes :
           /\ command'[q][r].status = command[q][r].status
           /\ Held(q, r)' => command'[q][r].rows = command[q][r].rows /\ wait'[q][r] = wait[q][r]
           /\ wait'[q][r] \in {"sending", "waiting", "live"} => wait[q][r] = wait'[q][r]
      /\ \A q \in Requests : answer'[q].state = "none" => answer[q].state = "none"
  <2>1. CASE UNCHANGED asked BY <2>1 DEF asked, Stored
  <2>2. CASE \E q \in Requests, r \in Runtimes : Timeout(q, r)
    <3>1. PICK q \in Requests, r \in Runtimes : Timeout(q, r) BY <2>2
    <3>2. command' = command /\ wait' = [wait EXCEPT ![q][r] = "late"] /\ "late" \in WaitState
      BY <3>1 DEF Timeout, WaitState
    <3>3. \A p \in Requests, s \in Runtimes : wait'[p][s] = IF p = q /\ s = r THEN "late" ELSE wait[p][s]
      BY <3>2, WaitAt DEF IInv
    <3>4. \A p \in Requests : answer'[p].state = "none" => answer[p].state = "none"
      BY <3>1 DEF Timeout, IInv, Shape
    <3> QED BY <3>2, <3>3, <3>4 DEF Stored, Held
  <2>3. CASE Maintain
    <3>1. UNCHANGED <<wait, answer>> BY <2>3 DEF Maintain
    <3>2. command' = [q \in Requests |-> [r \in Runtimes |->
            IF <<q, r>> \in Forgettable THEN Redacted(command[q][r]) ELSE command[q][r]]]
      BY <2>3 DEF Maintain
    <3>3. \A q \in Requests, r \in Runtimes :
            command[q][r] \in Row /\ Redacted(command[q][r]) \in Row
            /\ Redacted(command[q][r]).status = command[q][r].status
      <4>1. \A q \in Requests, r \in Runtimes : command[q][r] \in Row BY DEF Stored
      <4>2. \A c \in Row : Redacted(c) \in Row /\ Redacted(c).status = c.status BY DEF Redacted, Row
      <4> QED BY <4>1, <4>2
    <3>4. \A q \in Requests, r \in Runtimes : <<q, r>> \in Forgettable => wait[q][r] = "late"
      BY DEF Forgettable
    <3> QED BY <3>1, <3>2, <3>3, <3>4 DEF Held
  <2>4. UNCHANGED asked \/ Maintain \/ \E q \in Requests, r \in Runtimes : Timeout(q, r)
    BY DEF Connect, OpenStream, CloseStream, vars
  <2> QED BY <2>1, <2>2, <2>3, <2>4
<1>3. Stored' BY <1>1, <1>2 DEF Stored
<1>4. Begun'
  <2>1. \A q \in Requests, r \in Runtimes : Fresh(q) => command'[q][r].status # "sent" /\ link'[r] = link[r]
    BY <1>1, <1>2 DEF Fresh
  <2>2. \A q \in Requests : Fresh(q) => Fresh(q)' BY <2>1 DEF Fresh
  <2> QED BY <1>2, <2>2 DEF Begun
<1>5. Ended' BY <1>2 DEF Ended
<1>6. Quiet' BY <1>1 DEF Quiet
<1>7. ASSUME NEW r \in Runtimes PROVE FollowsOn(link[r], r)'
  <2>1. \A q \in Requests : ToRead(q, r)' => ToRead(q, r) /\ command'[q][r].rows = command[q][r].rows
    BY <1>1, <1>2 DEF ToRead, Held
  <2>2. \A q \in Requests : Coming(q, r)' => Coming(q, r) BY <1>1, <1>2 DEF Coming
  <2>3. \A k \in DOMAIN link[r] : IsResult(link[r][k]) => link[r][k].of \in Requests
    BY DEF Stored, Message, IsResult
  <2> QED BY <1>1, <2>1, <2>2, <2>3, Undisturbed DEF Follows
<1> QED BY <1>1, <1>3, <1>4, <1>5, <1>6, <1>7 DEF Follows

\* A result that is read as it should be, with s on its way behind it: what it
\* installs, or what waits to be installed, is led on by s.
LEMMA ReadFollows ==
  ASSUME IInv, OInv, NEW q \in Requests, NEW r \in Runtimes, NEW status \in Terminal, NEW rows \in SUBSET Ids,
         Read(q, r, status, rows), wait[q][r] \in {"sending", "waiting"}, real' = real,
         status = "ok" /\ <<q, r>> \notin behind => Leads(link'[r], 0, rows, real[r]),
         FollowsOn(link'[r], r), link' \in [Runtimes -> Seq(Message)], \A x \in Runtimes \ {r} : link'[x] = link[x]
  PROVE  /\ snapshot' \in [Runtimes -> SUBSET Ids] /\ command' \in [Requests -> [Runtimes -> Row]]
         /\ missed' \in [Runtimes -> BOOLEAN] /\ behind' \subseteq Requests \X Runtimes
         /\ \A p \in Requests : answer'[p].state = "none" => answer[p].state = "none"
         /\ \A p \in Requests, x \in Runtimes : command'[p][x].status = "sent" => command[p][x].status = "sent"
         /\ Ended' /\ Follows'
<1> USE DEF OInv
<1>1. PICK w \in {"live", "failed", "read"} : wait' = [wait EXCEPT ![q][r] = w] /\ (w = "live" => status = "ok")
  BY DEF Read, ReadList, ReadChange
<1>2. w \in WaitState BY DEF WaitState
<1>3. \A p \in Requests, x \in Runtimes : wait'[p][x] = IF p = q /\ x = r THEN w ELSE wait[p][x]
  BY <1>1, <1>2, WaitAt DEF IInv
<1>4. PICK c \in Row : /\ command' = [command EXCEPT ![q][r] = c] /\ c.status = status
                       /\ w = "live" => c.rows = rows
  <2>1. CASE ReadList(q, r, status, rows)
    <3>1. [status |-> status, rows |-> rows, kept |-> FALSE] \in Row BY DEF Row
    <3> QED BY <2>1, <3>1 DEF ReadList
  <2>2. CASE ReadChange(q, r, status, rows)
    <3>1. [status |-> status, rows |-> {}, kept |-> FALSE] \in Row BY DEF Row
    <3>2. w # "live"
      <4>1. wait'[q][r] = "read" BY <2>2 DEF ReadChange, IInv, Shape
      <4> QED BY <1>3, <4>1
    <3> QED BY <2>2, <3>1, <3>2 DEF ReadChange
  <2> QED BY <2>1, <2>2 DEF Read
<1>5. /\ command' \in [Requests -> [Runtimes -> Row]]
      /\ \A p \in Requests, x \in Runtimes : command'[p][x] = IF p = q /\ x = r THEN c ELSE command[p][x]
  BY <1>4 DEF Stored
<1>6. \A p \in Requests : answer'[p].state = "none" => answer[p].state = "none"
  <2>1. CASE answer' = answer BY <2>1
  <2>2. CASE answer' # answer
    <3>1. PICK st \in {"done", "refused"} : answer' = [answer EXCEPT ![q].state = st]
      BY <2>2 DEF Read, ReadList, ReadChange
    <3>2. st \in AnswerState /\ st # "none" BY DEF AnswerState
    <3>3. answer' = [answer EXCEPT ![q] = [answer[q] EXCEPT !.state = st]] /\ answer'[q].state = st
      BY <3>1, <3>2, StateAt DEF IInv
    <3> QED BY <3>2, <3>3 DEF IInv, Shape
  <2> QED BY <2>1, <2>2
<1>7. \A p \in Requests, x \in Runtimes : command'[p][x].status = "sent" => command[p][x].status = "sent"
  BY <1>4, <1>5 DEF Terminal
<1>8. Ended' BY <1>1, <1>3, <1>4, <1>5 DEF Ended
<1>9. \A x \in Runtimes : FollowsOn(link'[x], x)
  BY DEF Follows
<1>10. \A p \in Requests, x \in Runtimes : p # q \/ x # r =>
         /\ command'[p][x] = command[p][x] /\ wait'[p][x] = wait[p][x]
         /\ (Held(p, x)' <=> Held(p, x))
  BY <1>3, <1>5 DEF Held
<1>11. behind' \subseteq behind /\ behind \subseteq behind' \cup {<<q, r>>}
  BY DEF Read, ReadList, ReadChange, Installed, history
<1>12. \A p \in Requests, x \in Runtimes :
         /\ Coming(p, x)' => Coming(p, x)
         /\ p # q \/ x # r => (ToRead(p, x)' => ToRead(p, x) /\ command'[p][x].rows = command[p][x].rows)
  <2>1. ~Coming(q, r)' BY <1>1, <1>3 DEF Coming
  <2>2. ASSUME NEW p \in Requests, NEW x \in Runtimes, p # q \/ x # r
        PROVE  <<p, x>> \in behind <=> <<p, x>> \in behind'
    BY <1>11, <2>2
  <2> QED BY <1>10, <2>1, <2>2 DEF Coming, ToRead
<1>13. ASSUME NEW x \in Runtimes, NEW k \in DOMAIN link'[x], IsResult(link'[x][k])
       PROVE  link'[x][k].of \in Requests
  <2>1. link'[x][k] \in Message OBVIOUS
  <2> QED BY <1>13, <2>1 DEF Message, IsResult
<1>14. \/ UNCHANGED <<snapshot, missed>>
       \/ /\ status = "ok" /\ snapshot' = [snapshot EXCEPT ![r] = rows]
          /\ missed' = [missed EXCEPT ![r] = <<q, r>> \in behind]
  BY DEF Read, ReadList, ReadChange, Installed, history
<1>15. snapshot' \in [Runtimes -> SUBSET Ids] /\ missed' \in [Runtimes -> BOOLEAN]
  <2>1. (<<q, r>> \in behind) \in BOOLEAN OBVIOUS
  <2> QED BY <1>14, <2>1 DEF Stored
<1>16. ASSUME NEW x \in Runtimes PROVE FollowsOn(link[x], x)'
  <2>1. PICK s : s = link'[x] OBVIOUS
  <2>2. FollowsOn(s, x) /\ real'[x] = real[x] BY <1>9, <2>1
  <2>3. \A k \in DOMAIN s : IsResult(s[k]) /\ Coming(s[k].of, x)' => Coming(s[k].of, x)
    BY <1>12, <1>13, <2>1
  <2>4. CASE x # r
    <3>1. snapshot'[x] = snapshot[x] /\ missed'[x] = missed[x] BY <1>14, <2>4 DEF Stored
    <3>2. FollowsOn(s, x)' BY <1>12, <2>2, <2>3, <2>4, <3>1, Undisturbed
    <3> QED BY <2>1, <3>2
  <2>5. CASE x = r
    <3>1. ~missed'[r] => Leads(s, 0, snapshot'[r], real[r])
      <4>1. CASE UNCHANGED <<snapshot, missed>> BY <2>2, <2>5, <4>1 DEF FollowsOn
      <4>2. CASE /\ status = "ok" /\ snapshot' = [snapshot EXCEPT ![r] = rows]
                 /\ missed' = [missed EXCEPT ![r] = <<q, r>> \in behind]
        <5>1. snapshot'[r] = rows /\ (missed'[r] <=> <<q, r>> \in behind) BY <4>2 DEF Stored
        <5> QED BY <2>1, <2>5, <4>2, <5>1
      <4> QED BY <1>14, <4>1, <4>2
    <3>2. ASSUME NEW p \in Requests, ToRead(p, r)' PROVE Leads(s, 0, command'[p][r].rows, real[r])
      <4>1. CASE p = q
        <5>1. w = "live" BY <1>1, <1>3, <3>2, <4>1 DEF ToRead, Held
        <5>2. ReadList(q, r, status, rows)
          <6>1. ReadChange(q, r, status, rows) => wait'[q][r] = "read" BY DEF ReadChange, IInv, Shape
          <6> QED BY <1>3, <5>1, <6>1 DEF Read
        <5>3. behind' = behind BY <5>2 DEF ReadList, history
        <5>4. command'[q][r].rows = rows /\ status = "ok" /\ <<q, r>> \notin behind
          BY <1>1, <1>4, <1>5, <3>2, <4>1, <5>1, <5>3 DEF ToRead
        <5> QED BY <2>1, <2>5, <4>1, <5>4
      <4>2. CASE p # q BY <1>12, <2>2, <2>5, <3>2, <4>2 DEF FollowsOn
      <4> QED BY <4>1, <4>2
    <3>3. FollowsOn(s, x)' BY <2>2, <2>3, <2>5, <3>1, <3>2 DEF FollowsOn
    <3> QED BY <2>1, <3>3
  <2> QED BY <2>4, <2>5
<1>17. Follows' BY <1>16 DEF Follows
<1>18. behind' \subseteq Requests \X Runtimes BY <1>11 DEF Stored
<1> QED BY <1>5, <1>6, <1>7, <1>8, <1>15, <1>17, <1>18

LEMMA ListenFollows ==
  ASSUME IInv, OInv, NEW q \in Requests, NEW r \in Runtimes, Listen(q, r)
  PROVE  OInv'
<1> USE DEF OInv
<1>1. UNCHANGED <<online, real, link>> /\ wait[q][r] = "sending" BY DEF Listen, dsh
<1>2. FollowsOn(link[r], r) /\ command[q][r] \in Row /\ \A x \in Runtimes : link'[x] = link[x]
  BY <1>1 DEF Follows, Stored
<1>3. Quiet' BY <1>1 DEF Quiet
<1>4. ASSUME \A p \in Requests : answer'[p].state = "none" => answer[p].state = "none",
             \A p \in Requests, x \in Runtimes : command'[p][x].status = "sent" => command[p][x].status = "sent"
      PROVE  Begun'
  BY <1>1, <1>4, StillFresh DEF Begun
<1>5. CASE command[q][r].status \in Terminal
  <2> DEFINE status == command[q][r].status
             rows == command[q][r].rows
  <2>1. status \in Terminal /\ rows \in SUBSET Ids BY <1>2, <1>5 DEF Row
  <2>2. Read(q, r, status, rows) BY <1>5 DEF Listen
  <2>3. status = "ok" /\ <<q, r>> \notin behind => Leads(link'[r], 0, rows, real[r])
    BY <1>1, <1>2, <1>5 DEF FollowsOn, ToRead, Held
  <2>4. link' \in [Runtimes -> Seq(Message)] /\ FollowsOn(link'[r], r) BY <1>1, <1>2 DEF Stored
  <2> HIDE DEF status, rows
  <2>5. /\ snapshot' \in [Runtimes -> SUBSET Ids] /\ command' \in [Requests -> [Runtimes -> Row]]
        /\ missed' \in [Runtimes -> BOOLEAN] /\ behind' \subseteq Requests \X Runtimes
        /\ \A p \in Requests : answer'[p].state = "none" => answer[p].state = "none"
        /\ \A p \in Requests, x \in Runtimes : command'[p][x].status = "sent" => command[p][x].status = "sent"
        /\ Ended' /\ Follows'
    BY <1>1, <1>2, <2>1, <2>2, <2>3, <2>4, ReadFollows
  <2>6. Stored' BY <1>1, <2>5 DEF Stored
  <2> QED BY <1>3, <1>4, <2>5, <2>6
<1>6. CASE command[q][r].status \notin Terminal
  <2>1. /\ UNCHANGED <<command, answer, snapshot, missed, behind>>
        /\ wait' = [wait EXCEPT ![q][r] = "waiting"] /\ "waiting" \in WaitState
    BY <1>6 DEF Listen, Wait, history, WaitState
  <2>2. \A p \in Requests, x \in Runtimes : wait'[p][x] = IF p = q /\ x = r THEN "waiting" ELSE wait[p][x]
    BY <2>1, WaitAt DEF IInv
  <2>3. Stored' BY <1>1, <2>1 DEF Stored
  <2>4. Ended' BY <2>1, <2>2 DEF Ended
  <2>5. ASSUME NEW x \in Runtimes PROVE FollowsOn(link[x], x)'
    <3>1. \A p \in Requests : ToRead(p, x)' => ToRead(p, x) BY <2>1, <2>2 DEF ToRead, Held
    <3>2. \A p \in Requests : Coming(p, x)' => Coming(p, x) BY <1>1, <2>1, <2>2 DEF Coming
    <3>3. \A k \in DOMAIN link[x] : IsResult(link[x][k]) => link[x][k].of \in Requests
      BY DEF Stored, Message, IsResult
    <3> QED BY <1>1, <2>1, <3>1, <3>2, <3>3, Undisturbed DEF Follows
  <2> QED BY <1>1, <1>3, <1>4, <2>1, <2>3, <2>4, <2>5 DEF Follows
<1> QED BY <1>5, <1>6

\* The result at the head of a link, and what is left behind it.
LEMMA HeadResult ==
  ASSUME OInv, NEW r \in Runtimes, link[r] # <<>>, IsResult(Head(link[r])), link' = [link EXCEPT ![r] = Tail(@)]
  PROVE  /\ link' \in [Runtimes -> Seq(Message)] /\ link'[r] = Tail(link[r])
         /\ \A x \in Runtimes \ {r} : link'[x] = link[x]
         /\ Head(link[r]) \in [type : {"result"}, of : Requests, status : Terminal, rows : SUBSET Ids]
         /\ FollowsOn(Tail(link[r]), r)
         /\ Coming(Head(link[r]).of, r) /\ Head(link[r]).status = "ok" =>
              Leads(Tail(link[r]), 0, Head(link[r]).rows, real[r])
<1> USE DEF OInv
<1>1. PICK s \in Seq(Message) : s = link[r] BY DEF Stored
<1>2. /\ Tail(s) \in Seq(Message) /\ Head(s) = s[1] /\ s[1] \in Message /\ 1 \in DOMAIN s
      /\ \A k \in DOMAIN Tail(s) : k + 1 \in DOMAIN s /\ Tail(s)[k] = s[k + 1] /\ k >= 1 /\ k \in Nat
  BY <1>1, Shifted
<1>3. link' \in [Runtimes -> Seq(Message)] /\ link'[r] = Tail(s) /\ \A x \in Runtimes \ {r} : link'[x] = link[x]
  BY <1>1, <1>2 DEF Stored
<1>4. s[1] \in [type : {"result"}, of : Requests, status : Terminal, rows : SUBSET Ids] /\ IsResult(s[1])
  BY <1>1, <1>2 DEF Message, IsResult
<1>5. FollowsOn(s, r) BY <1>1 DEF Follows
<1>6. /\ LastWord(s, real[r]) => LastWord(Tail(s), real[r])
      /\ \A p \in Nat : \A rows : Leads(s, p + 1, rows, real[r]) => Leads(Tail(s), p, rows, real[r])
      /\ \A rows : Leads(s, 0, rows, real[r]) => Leads(Tail(s), 0, rows, real[r])
  BY <1>1, <1>4, TailKeeps
<1>7. FollowsOn(Tail(s), r) BY <1>2, <1>5, <1>6 DEF FollowsOn
<1>8. Coming(s[1].of, r) /\ s[1].status = "ok" => Leads(Tail(s), 0, s[1].rows, real[r])
  <2>1. Coming(s[1].of, r) /\ s[1].status = "ok" => Leads(s, 1, s[1].rows, real[r])
    BY <1>2, <1>4, <1>5 DEF FollowsOn
  <2>2. 1 = 0 + 1 /\ 0 \in Nat OBVIOUS
  <2> QED BY <1>6, <2>1, <2>2
<1> QED BY <1>1, <1>2, <1>3, <1>4, <1>7, <1>8

LEMMA TakeResultFollows ==
  ASSUME IInv, OInv, NEW r \in Runtimes, TakeResult(r)
  PROVE  OInv'
<1> USE DEF OInv
<1>0. link[r] # <<>> /\ IsResult(Head(link[r])) /\ link' = [link EXCEPT ![r] = Tail(@)] /\ UNCHANGED <<online, real>>
  BY DEF TakeResult
<1>1. PICK m : m = Head(link[r]) OBVIOUS
<1>2. PICK q : q = m.of OBVIOUS
<1>3. /\ link' \in [Runtimes -> Seq(Message)] /\ link'[r] = Tail(link[r])
      /\ \A x \in Runtimes \ {r} : link'[x] = link[x]
      /\ q \in Requests /\ m.status \in Terminal /\ m.rows \in SUBSET Ids
      /\ FollowsOn(link'[r], r)
      /\ Coming(q, r) /\ m.status = "ok" => Leads(link'[r], 0, m.rows, real[r])
  <2>1. m \in [type : {"result"}, of : Requests, status : Terminal, rows : SUBSET Ids] BY <1>0, <1>1, HeadResult
  <2>2. /\ link' \in [Runtimes -> Seq(Message)] /\ link'[r] = Tail(link[r])
        /\ \A x \in Runtimes \ {r} : link'[x] = link[x]
        /\ FollowsOn(Tail(link[r]), r)
        /\ Coming(m.of, r) /\ m.status = "ok" => Leads(Tail(link[r]), 0, m.rows, real[r])
    BY <1>0, <1>1, HeadResult
  <2>3. m.of \in Requests /\ m.status \in Terminal /\ m.rows \in SUBSET Ids BY <2>1
  <2> QED BY <1>2, <2>2, <2>3
<1>4. \A x \in Runtimes : FollowsOn(link'[x], x)
  BY <1>3 DEF Follows
<1>5. \A x \in Runtimes : \A k \in DOMAIN link'[x] : \E j \in DOMAIN link[x] : link[x][j] = link'[x][k]
  <2> SUFFICES ASSUME NEW x \in Runtimes, NEW k \in DOMAIN link'[x]
               PROVE  \E j \in DOMAIN link[x] : link[x][j] = link'[x][k]
    OBVIOUS
  <2>1. link[r] \in Seq(Message) BY DEF Stored
  <2>2. CASE x = r BY <1>0, <1>3, <2>1, <2>2, Shifted
  <2>3. CASE x # r BY <1>3, <2>3
  <2> QED BY <2>2, <2>3
<1>6. Quiet' BY <1>0, <1>5 DEF Quiet
<1>7. ASSUME \A p \in Requests : answer'[p].state = "none" => answer[p].state = "none",
             \A p \in Requests, x \in Runtimes : command'[p][x].status = "sent" => command[p][x].status = "sent"
      PROVE  Begun'
  BY <1>5, <1>7, StillFresh DEF Begun
<1>8. \A x \in Runtimes : \A k \in DOMAIN link'[x] : IsResult(link'[x][k]) => link'[x][k].of \in Requests
  <2> SUFFICES ASSUME NEW x \in Runtimes, NEW k \in DOMAIN link'[x], IsResult(link'[x][k])
               PROVE  link'[x][k].of \in Requests
    OBVIOUS
  <2>1. link'[x][k] \in Message BY <1>3
  <2> QED BY <2>1 DEF Message, IsResult
<1>9. CASE command[q][r].status \in Terminal
  <2>1. UNCHANGED <<command, wait, answer, snapshot, missed, behind>> BY <1>1, <1>2, <1>9 DEF TakeResult, history
  <2>2. Stored' BY <1>0, <1>3, <2>1 DEF Stored
  <2>3. Ended' BY <2>1 DEF Ended
  <2>4. Follows'
    <3> SUFFICES ASSUME NEW x \in Runtimes PROVE FollowsOn(link'[x], x) => FollowsOn(link[x], x)'
      BY <1>4 DEF Follows
    <3>1. PICK s : s = link'[x] OBVIOUS
    <3>2. FollowsOn(s, x) => FollowsOn(s, x)'
      BY <1>0, <2>1 DEF FollowsOn, Coming, ToRead, Held
    <3> QED BY <3>1, <3>2
  <2> QED BY <1>6, <1>7, <2>1, <2>2, <2>3, <2>4
<1>10. CASE command[q][r].status \notin Terminal /\ wait[q][r] = "waiting"
  <2>1. Read(q, r, m.status, m.rows) BY <1>1, <1>2, <1>10 DEF TakeResult
  <2>2. m.status = "ok" /\ <<q, r>> \notin behind => Leads(link'[r], 0, m.rows, real[r])
    BY <1>3, <1>10 DEF Coming
  <2>3. /\ snapshot' \in [Runtimes -> SUBSET Ids] /\ command' \in [Requests -> [Runtimes -> Row]]
        /\ missed' \in [Runtimes -> BOOLEAN] /\ behind' \subseteq Requests \X Runtimes
        /\ \A p \in Requests : answer'[p].state = "none" => answer[p].state = "none"
        /\ \A p \in Requests, x \in Runtimes : command'[p][x].status = "sent" => command[p][x].status = "sent"
        /\ Ended' /\ Follows'
    BY <1>0, <1>3, <1>10, <2>1, <2>2, ReadFollows
  <2>4. Stored' BY <1>0, <1>3, <2>3 DEF Stored
  <2> QED BY <1>6, <1>7, <2>3, <2>4
<1>11. CASE command[q][r].status \notin Terminal /\ wait[q][r] # "waiting"
  <2>1. /\ command' = [command EXCEPT ![q][r].status = m.status, ![q][r].rows = m.rows]
        /\ UNCHANGED <<wait, answer, snapshot, missed, behind>>
    BY <1>1, <1>2, <1>11 DEF TakeResult, history
  <2>2. /\ command' \in [Requests -> [Runtimes -> Row]]
        /\ command'[q][r].status = m.status /\ command'[q][r].rows = m.rows
        /\ \A p \in Requests, x \in Runtimes : p # q \/ x # r => command'[p][x] = command[p][x]
    <3>1. PICK c : c = [command[q][r] EXCEPT !.status = m.status, !.rows = m.rows] OBVIOUS
    <3>2. command[q][r] \in Row BY <1>3 DEF Stored
    <3>3. c \in Row /\ c.status = m.status /\ c.rows = m.rows BY <1>3, <3>1, <3>2 DEF Row
    <3>4. command' = [command EXCEPT ![q][r] = c] BY <1>3, <2>1, <3>1, <3>2 DEF Stored, Row
    <3> QED BY <1>3, <3>3, <3>4 DEF Stored
  <2>3. Stored' BY <1>0, <1>3, <2>1, <2>2 DEF Stored
  <2>4. wait[q][r] # "live" BY <1>3, <1>11 DEF Ended, Terminal
  <2>5. Ended'
    <3> SUFFICES ASSUME NEW p \in Requests, NEW x \in Runtimes, wait[p][x] = "live"
                 PROVE  command'[p][x].status = "ok"
      BY <2>1 DEF Ended
    <3>1. p # q \/ x # r BY <2>4
    <3> QED BY <2>2, <3>1 DEF Ended
  <2>6. \A p \in Requests, x \in Runtimes : command'[p][x].status = "sent" => command[p][x].status = "sent"
    <3>1. "sent" \notin Terminal BY DEF Terminal
    <3> QED BY <1>3, <2>2, <3>1
  <2>7. ASSUME NEW x \in Runtimes PROVE FollowsOn(link[x], x)'
    <3>1. PICK s : s = link'[x] OBVIOUS
    <3>2. FollowsOn(s, x) BY <1>4, <3>1
    <3>3. \A p \in Requests : Coming(p, x)' => Coming(p, x)
      <4>1. ~Coming(q, r)' BY <1>3, <2>2 DEF Coming
      <4> QED BY <2>1, <2>2, <4>1 DEF Coming
    <3>4. \A k \in DOMAIN s : IsResult(s[k]) /\ Coming(s[k].of, x)' => Coming(s[k].of, x)
      BY <1>8, <3>1, <3>3
    <3>5. CASE x # r
      <4>1. \A p \in Requests : ToRead(p, x)' => ToRead(p, x) /\ command'[p][x].rows = command[p][x].rows
        BY <2>1, <2>2, <3>5 DEF ToRead, Held
      <4>2. FollowsOn(s, x)' BY <1>0, <2>1, <3>2, <3>4, <4>1, Undisturbed
      <4> QED BY <3>1, <4>2
    <3>6. CASE x = r
      <4>1. ASSUME NEW p \in Requests, ToRead(p, r)' PROVE Leads(s, 0, command'[p][r].rows, real[r])
        <5>1. CASE p = q
          <6>1. wait[q][r] = "sending" /\ m.status = "ok" /\ <<q, r>> \notin behind
            BY <2>1, <2>2, <2>4, <4>1, <5>1 DEF ToRead, Held
          <6>2. Coming(q, r) BY <1>11, <6>1 DEF Coming
          <6> QED BY <1>3, <2>2, <3>1, <3>6, <5>1, <6>1, <6>2
        <5>2. CASE p # q
          <6>1. ToRead(p, r) /\ command'[p][r] = command[p][r] BY <2>1, <2>2, <4>1, <5>2 DEF ToRead, Held
          <6> QED BY <3>2, <3>6, <6>1 DEF FollowsOn
        <5> QED BY <5>1, <5>2
      <4>2. FollowsOn(s, r)' BY <1>0, <2>1, <3>2, <3>4, <3>6, <4>1 DEF FollowsOn
      <4> QED BY <3>1, <3>6, <4>2
    <3> QED BY <3>5, <3>6
  <2> QED BY <1>6, <1>7, <2>1, <2>3, <2>5, <2>6, <2>7 DEF Follows
<1> QED BY <1>9, <1>10, <1>11

\* What does not concern the requests keeps what is said of them.
LEMMA AskedApart ==
  ASSUME OInv, UNCHANGED asked,
         \A r \in Runtimes : \A k \in DOMAIN link'[r] : IsResult(link'[r][k]) =>
           (\E j \in DOMAIN link[r] : link[r][j] = link'[r][k])
  PROVE  Begun' /\ Ended' /\ command' \in [Requests -> [Runtimes -> Row]]
<1>1. UNCHANGED <<command, wait, answer>> BY DEF asked
<1> QED BY <1>1, StillFresh DEF OInv, Begun, Ended, Stored

LEMMA TakeFrameFollows ==
  ASSUME IInv, OInv, NEW r \in Runtimes, TakeFrame(r)
  PROVE  OInv'
<1> USE DEF OInv
<1>1. PICK s \in Seq(Message) : s = link[r] BY DEF Stored
<1>2. /\ s # <<>> /\ ~IsResult(s[1]) /\ s[1] \in Message /\ Tail(s) \in Seq(Message)
      /\ link' = [link EXCEPT ![r] = Tail(s)] /\ UNCHANGED <<online, real, asked>>
  BY <1>1, Shifted DEF TakeFrame
<1>3. link' \in [Runtimes -> Seq(Message)] /\ link'[r] = Tail(s) /\ \A x \in Runtimes \ {r} : link'[x] = link[x]
  BY <1>2 DEF Stored
<1>4. \A x \in Runtimes : \A k \in DOMAIN link'[x] : \E j \in DOMAIN link[x] : link[x][j] = link'[x][k]
  <2> SUFFICES ASSUME NEW x \in Runtimes, NEW k \in DOMAIN link'[x]
               PROVE  \E j \in DOMAIN link[x] : link[x][j] = link'[x][k]
    OBVIOUS
  <2>1. CASE x = r BY <1>1, <1>2, <1>3, <2>1, Shifted
  <2>2. CASE x # r BY <1>3, <2>2
  <2> QED BY <2>1, <2>2
<1>5. Begun' /\ Ended' /\ command' \in [Requests -> [Runtimes -> Row]] BY <1>2, <1>4, AskedApart
<1>6. Quiet' BY <1>2, <1>4 DEF Quiet
<1>7. PICK to : to = Applied(snapshot[r], s[1]) OBVIOUS
<1>8. s[1].type # "result" /\ s[1].kind \in {"changed", "removed", "order"} /\ s[1].rows \in SUBSET Ids
  BY <1>2 DEF IsResult, Message
<1>9. to \in SUBSET Ids BY <1>7, <1>8 DEF Applied, Stored
<1>10. /\ snapshot' = IF stream THEN [snapshot EXCEPT ![r] = to] ELSE snapshot
       /\ missed' = [missed EXCEPT ![r] = IF stream THEN @ /\ s[1].kind # "order" ELSE TRUE]
       /\ behind' = behind \cup Unread(r)
  <2>1. Head(link[r]) = s[1] BY <1>1, <1>2, Shifted
  <2> QED BY <1>7, <2>1 DEF TakeFrame
<1>11. /\ snapshot' \in [Runtimes -> SUBSET Ids] /\ missed' \in [Runtimes -> BOOLEAN]
       /\ \A x \in Runtimes \ {r} : snapshot'[x] = snapshot[x] /\ missed'[x] = missed[x]
       /\ ~missed'[r] => snapshot'[r] = to /\ (s[1].kind = "order" \/ ~missed[r])
  <2>1. PICK b \in BOOLEAN : b = IF stream THEN missed[r] /\ s[1].kind # "order" ELSE TRUE
    BY DEF Stored
  <2>2. missed' = [missed EXCEPT ![r] = b] BY <1>10, <2>1 DEF Stored
  <2> QED BY <1>9, <1>10, <2>1, <2>2 DEF Stored
<1>12. /\ behind' \subseteq Requests \X Runtimes /\ behind \subseteq behind'
       /\ \A q \in Requests : Held(q, r) => <<q, r>> \in behind'
  BY <1>10 DEF Unread, Held, Stored
<1>13. Stored' BY <1>2, <1>3, <1>5, <1>11, <1>12 DEF Stored
<1>14. \A q \in Requests, x \in Runtimes :
         /\ (Coming(q, x)' => Coming(q, x)) /\ (Held(q, x)' <=> Held(q, x))
         /\ ToRead(q, x)' => ToRead(q, x) /\ command'[q][x].rows = command[q][x].rows
  BY <1>2, <1>12 DEF Coming, Held, ToRead, asked
<1>15. ASSUME NEW x \in Runtimes PROVE FollowsOn(link[x], x)'
  <2>1. CASE x # r
    <3>1. FollowsOn(link[x], x) BY DEF Follows
    <3>2. \A k \in DOMAIN link[x] : IsResult(link[x][k]) => link[x][k].of \in Requests
      BY DEF Stored, Message, IsResult
    <3> QED BY <1>2, <1>3, <1>11, <1>14, <2>1, <3>1, <3>2, Undisturbed
  <2>2. CASE x = r
    <3>1. FollowsOn(s, r) /\ real'[r] = real[r] BY <1>1, <1>2 DEF Follows
    <3>2. LastWord(Tail(s), real[r]) BY <1>2, <3>1, TailKeeps DEF FollowsOn
    <3>3. ~missed'[r] => Leads(Tail(s), 0, snapshot'[r], real[r])
      <4>1. LastWord(s, real[r]) /\ (~missed[r] => Leads(s, 0, snapshot[r], real[r]))
        BY <3>1 DEF FollowsOn
      <4>2. ASSUME ~missed'[r] PROVE Leads(Tail(s), 0, to, real[r])
        <5>1. s[1].kind = "order" \/ Leads(s, 0, snapshot[r], real[r]) BY <1>11, <4>1, <4>2
        <5> QED BY <1>2, <1>7, <4>1, <5>1, FrameApplied
      <4> QED BY <1>11, <4>2
    <3>4. ASSUME NEW k \in DOMAIN Tail(s), IsResult(Tail(s)[k]), Tail(s)[k].status = "ok", Coming(Tail(s)[k].of, r)'
          PROVE  Leads(Tail(s), k, Tail(s)[k].rows, real[r])
      <4>1. k \in Nat /\ k + 1 \in DOMAIN s /\ Tail(s)[k] = s[k + 1] /\ s[k + 1] \in Message
        BY <1>2, Shifted
      <4>2. s[k + 1].of \in Requests BY <3>4, <4>1 DEF Message, IsResult
      <4>3. Coming(s[k + 1].of, r) BY <1>14, <3>4, <4>1, <4>2
      <4>4. Leads(s, k + 1, s[k + 1].rows, real[r]) BY <3>1, <3>4, <4>1, <4>3 DEF FollowsOn
      <4> QED BY <1>2, <4>1, <4>4, TailKeeps
    <3>5. \A q \in Requests : ~ToRead(q, r)' BY <1>12, <1>14 DEF ToRead
    <3> QED BY <1>3, <2>2, <3>1, <3>2, <3>3, <3>4, <3>5 DEF FollowsOn
  <2> QED BY <2>1, <2>2
<1> QED BY <1>5, <1>6, <1>13, <1>15 DEF Follows

\* What offline runtimes change, and what a lost connection loses, is not followed:
\* nothing that was awaited or held is any more.
LEMMA LostTrack ==
  ASSUME OInv, NEW r \in Runtimes, UNCHANGED <<asked, snapshot>>, NEW s \in Seq(Message),
         link' = [link EXCEPT ![r] = s], \A x \in Runtimes \ {r} : real'[x] = real[x],
         real' \in [Runtimes -> SUBSET Ids],
         \A k \in DOMAIN s : IsResult(s[k]) /\ \E j \in DOMAIN link[r] : s[k] = link[r][j],
         missed' = [missed EXCEPT ![r] = TRUE], behind' = behind \cup Unread(r) \cup InLink(r),
         online' \subseteq online, online \ {r} \subseteq online'
  PROVE  OInv'
<1> USE DEF OInv
<1>1. link' \in [Runtimes -> Seq(Message)] /\ link'[r] = s /\ \A x \in Runtimes \ {r} : link'[x] = link[x]
  BY DEF Stored
<1>2. \A x \in Runtimes : \A k \in DOMAIN link[x] : link[x][k] \in Message BY DEF Stored
<1>3. /\ missed' \in [Runtimes -> BOOLEAN] /\ missed'[r] /\ \A x \in Runtimes \ {r} : missed'[x] = missed[x]
      /\ behind \subseteq behind' /\ behind' \subseteq Requests \X Runtimes
      /\ \A q \in Requests : Held(q, r) => <<q, r>> \in behind'
      /\ \A k \in DOMAIN link[r] : IsResult(link[r][k]) => <<link[r][k].of, r>> \in behind'
  <2>1. InLink(r) \subseteq Requests \X Runtimes
    <3> SUFFICES ASSUME NEW k \in DOMAIN link[r], IsResult(link[r][k]) PROVE link[r][k].of \in Requests
      BY DEF InLink, ToSet
    <3> QED BY <1>2 DEF Message, IsResult
  <2>2. \A k \in DOMAIN link[r] : IsResult(link[r][k]) => <<link[r][k].of, r>> \in InLink(r)
    BY DEF InLink, ToSet
  <2> QED BY <2>1, <2>2 DEF Unread, Held, Stored
<1>4. Begun' /\ Ended' /\ command' \in [Requests -> [Runtimes -> Row]]
  <2>1. \A x \in Runtimes : \A k \in DOMAIN link'[x] : \E j \in DOMAIN link[x] : link[x][j] = link'[x][k]
    BY <1>1
  <2> QED BY <2>1, AskedApart
<1>5. Stored' BY <1>1, <1>3, <1>4 DEF Stored
<1>6. Quiet'
  <2> SUFFICES ASSUME NEW x \in Runtimes \ online', NEW k \in DOMAIN link'[x] PROVE IsResult(link'[x][k])
    BY DEF Quiet
  <2>1. CASE x = r BY <1>1, <2>1
  <2>2. CASE x # r BY <1>1, <2>2 DEF Quiet
  <2> QED BY <2>1, <2>2
<1>7. \A q \in Requests, x \in Runtimes :
        /\ (Coming(q, x)' => Coming(q, x)) /\ (Held(q, x)' <=> Held(q, x))
        /\ ToRead(q, x)' => ToRead(q, x) /\ command'[q][x].rows = command[q][x].rows
  BY <1>3 DEF Coming, Held, ToRead, asked
<1>8. ASSUME NEW x \in Runtimes PROVE FollowsOn(link[x], x)'
  <2>1. CASE x # r
    <3>1. FollowsOn(link[x], x) BY DEF Follows
    <3>2. \A k \in DOMAIN link[x] : IsResult(link[x][k]) => link[x][k].of \in Requests
      BY <1>2 DEF Message, IsResult
    <3>3. PICK t : t = link[x] /\ t = link'[x] BY <1>1, <2>1
    <3>4. \A k \in DOMAIN t : IsResult(t[k]) /\ Coming(t[k].of, x)' => Coming(t[k].of, x)
      BY <1>7, <3>2, <3>3
    <3>5. real'[x] = real[x] /\ snapshot'[x] = snapshot[x] /\ missed'[x] = missed[x] BY <1>3, <2>1
    <3>6. \A q \in Requests : ToRead(q, x)' => ToRead(q, x) /\ command'[q][x].rows = command[q][x].rows
      BY <1>7
    <3> HIDE DEF OInv
    <3>7. FollowsOn(t, x)' BY <3>1, <3>3, <3>4, <3>5, <3>6, Undisturbed
    <3> QED BY <3>3, <3>7
  <2>2. CASE x = r
    <3>1. LastWord(s, real'[r]) BY DEF LastWord, Touches
    <3>2. \A k \in DOMAIN s : <<s[k].of, r>> \in behind' BY <1>3
    <3>3. \A k \in DOMAIN s : ~Coming(s[k].of, r)' BY <3>2 DEF Coming
    <3>4. \A q \in Requests : ~ToRead(q, r)' BY <1>3, <1>7 DEF ToRead
    <3> QED BY <1>1, <1>3, <2>2, <3>1, <3>3, <3>4 DEF FollowsOn
  <2> QED BY <2>1, <2>2
<1> QED BY <1>4, <1>5, <1>6, <1>8 DEF Follows

LEMMA DisconnectFollows ==
  ASSUME IInv, OInv, NEW r \in Runtimes, Disconnect(r)
  PROVE  OInv'
<1> USE DEF OInv
<1>1. PICK s \in Seq(Message) : s = link[r] BY DEF Stored
<1>2. PICK t : t = Results(s) OBVIOUS
<1>3. t \in Seq(Message) /\ \A k \in DOMAIN t : IsResult(t[k]) /\ \E j \in DOMAIN s : t[k] = s[j]
  BY <1>2, OnlyResults
<1>4. /\ link' = [link EXCEPT ![r] = t] /\ online' = online \ {r} /\ UNCHANGED <<real, asked, known>>
      /\ missed' = [missed EXCEPT ![r] = @ \/ t # s]
      /\ behind' = IF t # s THEN behind \cup Unread(r) \cup InLink(r) ELSE behind
  BY <1>1, <1>2 DEF Disconnect, Stored
<1>5. CASE t # s
  <2>1. missed' = [missed EXCEPT ![r] = TRUE]
    <3>1. (missed[r] \/ t # s) = TRUE BY <1>5 DEF Stored
    <3> QED BY <1>4, <3>1 DEF Stored
  <2>2. behind' = behind \cup Unread(r) \cup InLink(r) BY <1>4, <1>5
  <2>3. UNCHANGED <<asked, snapshot>> /\ real' \in [Runtimes -> SUBSET Ids] /\ \A x \in Runtimes \ {r} : real'[x] = real[x]
    BY <1>4 DEF Stored, known
  <2>4. online' \subseteq online /\ online \ {r} \subseteq online' BY <1>4
  <2>5. OInv OBVIOUS
  <2>6. link' = [link EXCEPT ![r] = t] BY <1>4
  <2>7. \A k \in DOMAIN t : IsResult(t[k]) /\ \E j \in DOMAIN link[r] : t[k] = link[r][j] BY <1>1, <1>3
  <2> HIDE DEF OInv
  <2> QED BY <1>3, <2>1, <2>2, <2>3, <2>4, <2>5, <2>6, <2>7, LostTrack
<1>6. CASE t = s
  <2>1. UNCHANGED <<link, real, asked, snapshot, missed, behind>>
    BY <1>1, <1>4, <1>6 DEF Stored, known
  <2>2. Stored' /\ Begun' /\ Ended' BY <2>1 DEF Stored, Begun, Fresh, Ended, asked
  <2>3. Quiet' BY <1>1, <1>3, <1>4, <1>6, <2>1 DEF Quiet
  <2>4. Follows' BY <2>1 DEF Follows, FollowsOn, Coming, ToRead, Held, asked
  <2> QED BY <2>2, <2>3, <2>4
<1> QED BY <1>5, <1>6

\* A runtime with a connection says something: t is what was on its way and what
\* it says now, which tells its change.
LEMMA SaidFollows ==
  ASSUME OInv, NEW r \in Runtimes, r \in online, NEW t \in Seq(Message), link' = [link EXCEPT ![r] = t],
         UNCHANGED <<online, asked, snapshot, missed, behind>>,
         real' \in [Runtimes -> SUBSET Ids], \A x \in Runtimes \ {r} : real'[x] = real[x],
         LastWord(t, real'[r]),
         \A p \in 0 .. Len(link[r]) : \A rows : Leads(link[r], p, rows, real[r]) => Leads(t, p, rows, real'[r]),
         \A k \in DOMAIN t :
           \/ k \in DOMAIN link[r] /\ t[k] = link[r][k]
           \/ ~IsResult(t[k])
           \/ answer[t[k].of].state # "none" /\ (t[k].status = "ok" => Leads(t, k, t[k].rows, real'[r]))
  PROVE  OInv'
<1> USE DEF OInv
<1>1. link' \in [Runtimes -> Seq(Message)] /\ link'[r] = t /\ \A x \in Runtimes \ {r} : link'[x] = link[x]
  BY DEF Stored
<1>2. \A x \in Runtimes : \A k \in DOMAIN link[x] : IsResult(link[x][k]) => link[x][k].of \in Requests
  BY DEF Stored, Message, IsResult
<1>3. Stored' BY <1>1 DEF Stored, asked
<1>4. Begun'
  <2> SUFFICES ASSUME NEW q \in Requests, answer[q].state = "none" PROVE Fresh(q)'
    BY DEF Begun, asked
  <2>1. Fresh(q) BY DEF Begun
  <2>2. ASSUME NEW x \in Runtimes, NEW k \in DOMAIN link'[x], IsResult(link'[x][k]), link'[x][k].of = q
        PROVE  \E j \in DOMAIN link[x] : link[x][j] = link'[x][k]
    <3>1. CASE x = r BY <1>1, <2>2, <3>1
    <3>2. CASE x # r BY <1>1, <2>2, <3>2
    <3> QED BY <3>1, <3>2
  <2>3. \A x \in Runtimes : \A k \in DOMAIN link'[x] : IsResult(link'[x][k]) /\ link'[x][k].of = q =>
          \E j \in DOMAIN link[x] : link[x][j] = link'[x][k]
    BY <2>2
  <2>4. \A x \in Runtimes : command'[q][x].status = "sent" => command[q][x].status = "sent" BY DEF asked
  <2> HIDE DEF OInv
  <2> QED BY <2>1, <2>3, <2>4, StillFresh
<1>5. Ended' BY DEF Ended, asked
<1>6. Quiet' BY <1>1 DEF Quiet
<1>7. \A q \in Requests, x \in Runtimes :
        /\ (Coming(q, x)' <=> Coming(q, x))
        /\ (ToRead(q, x)' <=> ToRead(q, x)) /\ command'[q][x].rows = command[q][x].rows
  BY DEF Coming, Held, ToRead, asked
<1>8. ASSUME NEW x \in Runtimes PROVE FollowsOn(link[x], x)'
  <2>1. CASE x # r
    <3>1. FollowsOn(link[x], x) BY DEF Follows
    <3> QED BY <1>1, <1>2, <1>7, <2>1, <3>1, Undisturbed
  <2>2. CASE x = r
    <3>1. FollowsOn(link[r], r) /\ link[r] \in Seq(Message) BY DEF Follows, Stored
    <3>2. 0 \in 0 .. Len(link[r]) /\ \A k \in DOMAIN link[r] : k \in 0 .. Len(link[r]) BY <3>1
    <3>3. ~missed[r] => Leads(t, 0, snapshot[r], real'[r]) BY <3>1, <3>2 DEF FollowsOn
    <3>4. \A q \in Requests : ToRead(q, r)' => Leads(t, 0, command'[q][r].rows, real'[r])
      BY <1>7, <3>1, <3>2 DEF FollowsOn
    <3>5. ASSUME NEW k \in DOMAIN t, IsResult(t[k]), t[k].status = "ok", Coming(t[k].of, r)'
          PROVE  Leads(t, k, t[k].rows, real'[r])
      <4>1. CASE k \in DOMAIN link[r] /\ t[k] = link[r][k]
        <5>1. Coming(link[r][k].of, r) BY <1>2, <1>7, <3>5, <4>1
        <5>2. Leads(link[r], k, link[r][k].rows, real[r]) BY <3>1, <3>5, <4>1, <5>1 DEF FollowsOn
        <5> QED BY <3>2, <4>1, <5>2
      <4> QED BY <3>5, <4>1
    <3> QED BY <1>1, <2>2, <3>3, <3>4, <3>5 DEF FollowsOn
  <2> QED BY <2>1, <2>2
<1> QED BY <1>3, <1>4, <1>5, <1>6, <1>8 DEF Follows

LEMMA LocalChangeFollows ==
  ASSUME IInv, OInv, NEW r \in Runtimes, LocalChange(r)
  PROVE  OInv'
<1> USE DEF OInv
<1>1. PICK i \in Ids, kind \in {"changed", "removed", "order"} :
        /\ (kind = "changed") => (i \notin real[r])
        /\ (kind = "removed") => (i \in real[r])
        /\ real' = [real EXCEPT ![r] = IF i \in @ THEN @ \ {i} ELSE @ \cup {i}]
        /\ \/ /\ r \in online
              /\ Say(r, <<Frame(kind, IF kind = "order" THEN real'[r] ELSE {i})>>)
              /\ UNCHANGED history
           \/ /\ r \notin online
              /\ missed' = [missed EXCEPT ![r] = TRUE]
              /\ behind' = behind \cup Unread(r) \cup InLink(r)
              /\ UNCHANGED link
        /\ UNCHANGED <<online, asked, known>>
  BY DEF LocalChange
<1>2. PICK now \in SUBSET Ids : now = IF i \in real[r] THEN real[r] \ {i} ELSE real[r] \cup {i}
  BY DEF Stored
<1>3. real' \in [Runtimes -> SUBSET Ids] /\ real'[r] = now /\ \A x \in Runtimes \ {r} : real'[x] = real[x]
  BY <1>1, <1>2 DEF Stored
<1>4. link[r] \in Seq(Message) BY DEF Stored
<1>5. CASE r \in online
  <2>1. PICK m : m = Frame(kind, IF kind = "order" THEN now ELSE {i}) OBVIOUS
  <2>2. m \in Message /\ ~IsResult(m) /\ m.kind = kind /\ m.rows = IF kind = "order" THEN now ELSE {i}
    BY <2>1 DEF Frame, Message, IsResult
  <2>3. Tells(m, real[r], now) BY <1>1, <1>2, <2>2 DEF Tells, Touches, Says
  <2>4. PICK t : t = Append(link[r], m) OBVIOUS
  <2>5. t \in Seq(Message) /\ link' = [link EXCEPT ![r] = t]
    BY <1>1, <1>3, <1>4, <1>5, <2>1, <2>2, <2>4, Appended DEF Say, Stored
  <2>6. /\ LastWord(t, real'[r])
        /\ \A p \in 0 .. Len(link[r]) : \A rows : Leads(link[r], p, rows, real[r]) => Leads(t, p, rows, real'[r])
    <3>1. LastWord(link[r], real[r]) BY DEF Follows, FollowsOn
    <3> QED BY <1>3, <1>4, <2>2, <2>3, <2>4, <3>1, ToldLast
  <2>7. \A k \in DOMAIN t : (k \in DOMAIN link[r] /\ t[k] = link[r][k]) \/ ~IsResult(t[k])
    BY <1>4, <2>2, <2>4, Appended
  <2>8. UNCHANGED <<online, asked, snapshot, missed, behind>> BY <1>1, <1>5 DEF known, history
  <2>9. OInv OBVIOUS
  <2> HIDE DEF OInv
  <2> QED BY <1>3, <1>5, <2>5, <2>6, <2>7, <2>8, <2>9, SaidFollows
<1>6. CASE r \notin online
  <2>1. PICK s \in Seq(Message) : s = link[r] BY <1>4
  <2>2. link' = [link EXCEPT ![r] = s] BY <1>1, <1>6, <2>1 DEF Stored
  <2>3. \A k \in DOMAIN s : IsResult(s[k]) /\ \E j \in DOMAIN link[r] : s[k] = link[r][j]
    BY <1>6, <2>1 DEF Quiet
  <2>4. missed' = [missed EXCEPT ![r] = TRUE] /\ behind' = behind \cup Unread(r) \cup InLink(r)
    BY <1>1, <1>6
  <2>5. UNCHANGED <<asked, snapshot>> /\ online' \subseteq online /\ online \ {r} \subseteq online'
    BY <1>1 DEF known
  <2>6. OInv OBVIOUS
  <2> HIDE DEF OInv
  <2> QED BY <1>3, <2>2, <2>3, <2>4, <2>5, <2>6, LostTrack
<1> QED BY <1>5, <1>6

\* The whole order, told last, is the last word on everything.
LEMMA OrderLast ==
  ASSUME NEW s \in Seq(Message), NEW m \in Message, ~IsResult(m), m.kind = "order"
  PROVE  /\ LastWord(Append(s, m), m.rows)
         /\ \A p \in 0 .. Len(s) : \A rows : Leads(Append(s, m), p, rows, m.rows)
<1>1. \A i \in Ids : Touches(m, i) BY DEF Touches
<1>2. \A i \in Ids, p \in 0 .. Len(s) : ~Silent(Append(s, m), i, p)
  <2> SUFFICES ASSUME NEW i \in Ids, NEW p \in 0 .. Len(s) PROVE ~Silent(Append(s, m), i, p) OBVIOUS
  <2>1. p \in Nat /\ p <= Len(s) BY Appended
  <2> QED BY <1>1, <2>1, SilentBefore
<1>3. \A p \in 0 .. Len(s) : \A rows : Leads(Append(s, m), p, rows, m.rows) BY <1>2 DEF Leads
<1>4. ASSUME NEW i \in Ids, NEW k \in DOMAIN Append(s, m), Silent(Append(s, m), i, k)
      PROVE  Says(Append(s, m)[k], i) <=> i \in m.rows
  <2>1. k \notin 0 .. Len(s) BY <1>2, <1>4
  <2>2. Append(s, m)[k] = m
    <3>1. k = Len(s) + 1 BY <2>1, Appended
    <3> QED BY <3>1, Appended
  <2> QED BY <2>2 DEF Says
<1> QED BY <1>3, <1>4 DEF LastWord

LEMMA ExecuteFollows ==
  ASSUME IInv, OInv, NEW q \in Requests, NEW r \in Runtimes, Execute(q, r)
  PROVE  OInv'
<1> USE DEF OInv
<1>1. r \in online /\ UNCHANGED <<online, asked, snapshot, missed, behind>>
  BY DEF Execute, known, history
<1>2. answer[q].state # "none" BY DEF Execute, Unanswered, Begun, Fresh
<1>3. PICK s \in Seq(Message) : s = link[r] BY DEF Stored
<1>4. LastWord(s, real[r]) /\ real[r] \in SUBSET Ids BY <1>3 DEF Follows, FollowsOn, Stored
<1>5. ASSUME NEW status \in Terminal, NEW rows \in SUBSET Ids
      PROVE  /\ Result(q, status, rows) \in Message /\ IsResult(Result(q, status, rows))
             /\ Result(q, status, rows).of = q /\ Result(q, status, rows).status = status
             /\ Result(q, status, rows).rows = rows
  BY DEF Result, Message, IsResult
<1>6. \A m, now : IsResult(m) => Tells(m, now, now) BY DEF Tells, Touches
<1>7. ASSUME NEW m, IsResult(m), m \in Message, m.of = q, m.status = "ok" => m.rows = real[r],
             link' = [link EXCEPT ![r] = s \o <<m>>], real' = real
      PROVE  OInv'
  <2>1. PICK t : t = Append(s, m) OBVIOUS
  <2>2. t \in Seq(Message) /\ link' = [link EXCEPT ![r] = t] BY <1>3, <1>7, <2>1, Appended
  <2>3. /\ LastWord(t, real[r])
        /\ \A p \in 0 .. Len(s) : \A rows : Leads(s, p, rows, real[r]) => Leads(t, p, rows, real[r])
        /\ Leads(t, Len(s) + 1, real[r], real[r])
    BY <1>3, <1>4, <1>6, <1>7, <2>1, ToldLast
  <2>4. \A k \in DOMAIN t :
           \/ k \in DOMAIN s /\ t[k] = s[k]
           \/ t[k].of = q /\ (t[k].status = "ok" => Leads(t, k, t[k].rows, real[r]))
    <3> SUFFICES ASSUME NEW k \in DOMAIN t, k \notin DOMAIN s
                 PROVE  t[k].of = q /\ (t[k].status = "ok" => Leads(t, k, t[k].rows, real[r]))
      BY <1>3, <1>7, <2>1, Appended
    <3>1. k = Len(s) + 1 /\ t[k] = m BY <1>3, <1>7, <2>1, Appended
    <3> QED BY <1>7, <2>3, <3>1
  <2>5. OInv /\ real' \in [Runtimes -> SUBSET Ids] /\ real'[r] = real[r] /\ \A x \in Runtimes \ {r} : real'[x] = real[x]
    BY <1>7 DEF Stored
  <2> HIDE DEF OInv
  <2> QED BY <1>1, <1>2, <1>3, <2>2, <2>3, <2>4, <2>5, SaidFollows
<1>8. CASE q \in Lists /\ Say(r, <<Result(q, "ok", real[r])>>) /\ real' = real
  <2>1. link' = [link EXCEPT ![r] = s \o <<Result(q, "ok", real[r])>>] BY <1>3, <1>8 DEF Say, Stored
  <2>2. "ok" \in Terminal BY DEF Terminal
  <2>3. Result(q, "ok", real[r]) \in Message /\ IsResult(Result(q, "ok", real[r]))
        /\ Result(q, "ok", real[r]).of = q /\ Result(q, "ok", real[r]).rows = real[r]
    BY <1>4, <1>5, <2>2
  <2> HIDE DEF OInv
  <2> QED BY <1>7, <1>8, <2>1, <2>3
<1>9. CASE Fault /\ Say(r, <<Result(q, "error", {})>>) /\ real' = real
  <2>1. link' = [link EXCEPT ![r] = s \o <<Result(q, "error", {})>>] BY <1>3, <1>9 DEF Say, Stored
  <2>2. "error" \in Terminal BY DEF Terminal
  <2>3. Result(q, "error", {}) \in Message /\ IsResult(Result(q, "error", {}))
        /\ Result(q, "error", {}).of = q /\ Result(q, "error", {}).status = "error"
    BY <1>5, <2>2
  <2> HIDE DEF OInv
  <2> QED BY <1>7, <1>9, <2>1, <2>3
<1>10. CASE /\ q \in Changes
            /\ \E i \in Ids : real' = [real EXCEPT ![r] = @ \cup {i}]
            /\ \E said \in {<<Frame("order", real'[r]), Result(q, "ok", real'[r])>>,
                            <<Result(q, "ok", real'[r]), Frame("order", real'[r])>>} : Say(r, said)
  <2>1. PICK i \in Ids : real' = [real EXCEPT ![r] = @ \cup {i}] BY <1>10
  <2>2. PICK now \in SUBSET Ids : now = real[r] \cup {i} BY <1>4
  <2>3. real' \in [Runtimes -> SUBSET Ids] /\ real'[r] = now /\ \A x \in Runtimes \ {r} : real'[x] = real[x]
    BY <2>1, <2>2 DEF Stored
  <2>4. PICK m \in Message : m = Result(q, "ok", now) /\ IsResult(m) /\ m.of = q /\ m.rows = now
    BY <1>5 DEF Terminal
  <2>5. PICK f : f = Frame("order", now) OBVIOUS
  <2>6. f \in Message /\ ~IsResult(f) /\ f.kind = "order" /\ f.rows = now
    BY <2>5 DEF Frame, Message, IsResult
  <2>7. link' = [link EXCEPT ![r] = s \o <<f, m>>] \/ link' = [link EXCEPT ![r] = s \o <<m, f>>]
    BY <1>3, <1>10, <2>3, <2>4, <2>5 DEF Say, Stored
  <2>8. PICK one \in {m, f}, two \in {m, f} :
          one # two /\ link' = [link EXCEPT ![r] = s \o <<one, two>>]
    <3>1. m # f BY <2>4, <2>6
    <3> QED BY <2>7, <3>1
  <2>9. one \in Message /\ two \in Message BY <2>6, <2>8
  <2>10. PICK t : t = Append(s, one) OBVIOUS
  <2>11. PICK u : u = Append(t, two) OBVIOUS
  <2>12. t \in Seq(Message) /\ u \in Seq(Message) /\ s \o <<one, two>> = u BY <2>9, <2>10, <2>11
  <2>13. /\ Len(t) = Len(s) + 1 /\ Len(s) \in Nat
         /\ \A k \in DOMAIN u : \/ k \in DOMAIN s /\ u[k] = s[k]
                                \/ k = Len(s) + 1 /\ u[k] = one
                                \/ k = Len(s) + 2 /\ u[k] = two
    BY <2>9, <2>10, <2>11
  <2>14. LastWord(u, now) /\ \A p \in 0 .. Len(s) : \A rows : Leads(u, p, rows, now)
    <3>1. \A p \in 0 .. Len(s) : p \in 0 .. Len(t) BY <2>13
    <3>2. CASE two = f
      <4>1. LastWord(u, now) /\ \A p \in 0 .. Len(t) : \A rows : Leads(u, p, rows, now)
        BY <2>6, <2>11, <2>12, <3>2, OrderLast
      <4> QED BY <3>1, <4>1
    <3>3. CASE two = m
      <4>1. one = f BY <2>8, <3>3
      <4>2. LastWord(t, now) /\ \A p \in 0 .. Len(s) : \A rows : Leads(t, p, rows, now)
        BY <2>6, <2>10, <4>1, OrderLast
      <4>3. Tells(m, now, now) BY <1>6, <2>4
      <4>4. /\ LastWord(t, now) => LastWord(u, now)
            /\ \A p \in 0 .. Len(t) : \A rows : Leads(t, p, rows, now) => Leads(u, p, rows, now)
        BY <2>4, <2>11, <2>12, <3>3, <4>3, ToldLast
      <4> QED BY <3>1, <4>2, <4>4
    <3> QED BY <2>8, <3>2, <3>3
  <2>15. \A k : Leads(u, k, now, now) BY DEF Leads
  <2>16. \A k \in DOMAIN u :
           \/ k \in DOMAIN link[r] /\ u[k] = link[r][k]
           \/ ~IsResult(u[k])
           \/ answer[u[k].of].state # "none" /\ (u[k].status = "ok" => Leads(u, k, u[k].rows, real'[r]))
    <3> SUFFICES ASSUME NEW k \in DOMAIN u, k \notin DOMAIN s, IsResult(u[k])
                 PROVE  answer[u[k].of].state # "none" /\ Leads(u, k, u[k].rows, now)
      BY <1>3, <2>3, <2>13
    <3>1. u[k] = m BY <2>6, <2>8, <2>13
    <3> QED BY <1>2, <2>4, <2>15, <3>1
  <2>17. OInv /\ link' = [link EXCEPT ![r] = u] BY <2>8, <2>12
  <2> HIDE DEF OInv
  <2> QED BY <1>1, <1>3, <2>3, <2>12, <2>14, <2>16, <2>17, SaidFollows
<1> QED BY <1>8, <1>9, <1>10 DEF Execute

\* A request is sent once, when it begins: nothing of it is on its way yet.
LEMMA StartFollows ==
  ASSUME IInv, OInv, NEW q \in Requests, NEW targets \in SUBSET Runtimes, answer[q].state = "none",
         Dispatch(q, targets), answer'[q].state # "none",
         \A p \in Requests \ {q} : answer'[p].state = "none" => answer[p].state = "none",
         UNCHANGED <<online, real, link, snapshot, missed, behind>>
  PROVE  OInv'
<1> USE DEF OInv
<1>1. Fresh(q) BY DEF Begun
<1>2. \A p \in Requests, x \in Runtimes :
        wait'[p][x] = IF p = q /\ x \in targets THEN "sending" ELSE wait[p][x]
  BY Dispatched DEF IInv
<1>3. PICK at \in [Runtimes -> Row] :
        /\ command' = [command EXCEPT ![q] = at]
        /\ \A x \in Runtimes : IF x \in targets THEN at[x].status = "sent" ELSE at[x] = command[q][x]
  <2>1. PICK at : at = [x \in Runtimes |-> IF x \in targets THEN [command[q][x] EXCEPT !.status = "sent", !.kept = TRUE]
                                         ELSE command[q][x]]
    OBVIOUS
  <2>2. \A x \in Runtimes : command[q][x] \in Row BY DEF Stored
  <2>3. \A c \in Row : /\ [c EXCEPT !.status = "sent", !.kept = TRUE] \in Row
                       /\ [c EXCEPT !.status = "sent", !.kept = TRUE].status = "sent"
    BY DEF Row
  <2>4. at \in [Runtimes -> Row] BY <2>1, <2>2, <2>3
  <2>5. command' = [command EXCEPT ![q] = at] BY <2>1 DEF Dispatch, Stored
  <2> QED BY <2>1, <2>2, <2>3, <2>4, <2>5
<1>4. /\ command' \in [Requests -> [Runtimes -> Row]]
      /\ \A p \in Requests, x \in Runtimes :
           IF p = q /\ x \in targets THEN command'[p][x].status = "sent" ELSE command'[p][x] = command[p][x]
  BY <1>3 DEF Stored
<1>5. Stored' BY <1>4 DEF Stored
<1>6. Begun' BY <1>4 DEF Begun, Fresh
<1>7. Ended' BY <1>2, <1>4 DEF Ended
<1>8. Quiet' BY DEF Quiet
<1>9. ASSUME NEW x \in Runtimes PROVE FollowsOn(link[x], x)'
  <2>1. FollowsOn(link[x], x) BY DEF Follows
  <2>2. \A p \in Requests : ToRead(p, x)' => ToRead(p, x) /\ command'[p][x].rows = command[p][x].rows
    <3>1. "sent" \notin Terminal BY DEF Terminal
    <3> QED BY <1>2, <1>4, <3>1 DEF ToRead, Held
  <2>3. \A k \in DOMAIN link[x] : IsResult(link[x][k]) => link[x][k].of \in Requests \ {q}
    BY <1>1 DEF Fresh, Stored, Message, IsResult
  <2>4. \A p \in Requests \ {q} : Coming(p, x)' => Coming(p, x) BY <1>2, <1>4 DEF Coming
  <2> QED BY <2>1, <2>2, <2>3, <2>4, Undisturbed
<1> QED BY <1>5, <1>6, <1>7, <1>8, <1>9 DEF Follows

LEMMA StartChangeFollows ==
  ASSUME IInv, OInv, NEW q \in Requests, NEW r \in Runtimes, StartChange(q, r)
  PROVE  OInv'
<1>1. answer[q].state = "none" /\ UNCHANGED <<online, real, link, snapshot, missed, behind>>
  BY DEF StartChange, dsh, known, history
<1>2. PICK st \in {"asking", "unavailable"} : answer' = [answer EXCEPT ![q].state = st]
  BY DEF StartChange
<1>3. st \in AnswerState BY DEF AnswerState
<1>4. answer'[q].state = st /\ \A p \in Requests \ {q} : answer'[p] = answer[p]
  <2>1. answer' = [answer EXCEPT ![q] = [answer[q] EXCEPT !.state = st]] /\ answer'[q].state = st
    BY <1>2, <1>3, StateAt DEF IInv
  <2> QED BY <2>1 DEF IInv, Shape
<1>5. CASE Dispatch(q, {r}) BY <1>1, <1>4, <1>5, StartFollows
<1>6. CASE UNCHANGED <<command, wait>>
  <2>1. Stored' /\ Ended' /\ Quiet' BY <1>1, <1>6 DEF OInv, Stored, Ended, Quiet
  <2>2. Begun' BY <1>1, <1>4, <1>6 DEF OInv, Begun, Fresh
  <2>3. Follows' BY <1>1, <1>6 DEF OInv, Follows, FollowsOn, Coming, ToRead, Held
  <2> QED BY <2>1, <2>2, <2>3 DEF OInv
<1> QED BY <1>5, <1>6 DEF StartChange

LEMMA StartListFollows ==
  ASSUME IInv, OInv, NEW q \in Lists, StartList(q)
  PROVE  OInv'
<1>1. /\ q \in Requests /\ online \in SUBSET Runtimes /\ answer[q].state = "none" /\ Dispatch(q, online)
      /\ UNCHANGED <<online, real, link, snapshot, missed, behind>>
  BY Kinds DEF StartList, dsh, known, history, IInv, Shape
<1>2. answer' = [answer EXCEPT ![q].state = "asking"] /\ "asking" \in AnswerState
  BY DEF StartList, AnswerState
<1>3. answer'[q].state = "asking" /\ \A p \in Requests \ {q} : answer'[p] = answer[p]
  <2>1. /\ answer' = [answer EXCEPT ![q] = [answer[q] EXCEPT !.state = "asking"]]
        /\ answer'[q].state = "asking"
    BY <1>1, <1>2, StateAt DEF IInv
  <2> QED BY <1>1, <2>1 DEF IInv, Shape
<1> QED BY <1>1, <1>3, StartFollows

\* The parts that wait in memory are installed together, none older than what has
\* been seen of its runtime.
LEMMA CombineFollows ==
  ASSUME IInv, OInv, NEW q \in Lists, Combine(q)
  PROVE  OInv'
<1> USE DEF OInv
<1> DEFINE live == Parts(q, {"live"})
<1>0. q \in Requests /\ UNCHANGED <<online, real, link>> BY Kinds DEF Combine, dsh
<1>1. PICK a : answer' = [answer EXCEPT ![q] = a] /\ a.state = "done"
  <2>1. PICK rows : rows = (live \X {"live"}) \cup (Cached(q) \X {"cached"}) OBVIOUS
  <2>2. answer' = [answer EXCEPT ![q] = [state |-> "done", parts |-> rows]] BY <2>1 DEF Combine
  <2>3. [state |-> "done", parts |-> rows].state = "done" OBVIOUS
  <2> HIDE DEF OInv, live
  <2> QED BY <2>2, <2>3
<1>2. \A p \in Requests : answer'[p].state = "none" => answer[p].state = "none" /\ p # q
  BY <1>0, <1>1 DEF IInv, Shape
<1>3. \A x \in Runtimes : x \in live <=> wait[q][x] = "live" BY DEF Parts
<1>4. \A x \in Runtimes : wait[q][x] \notin {"sending", "waiting"} BY DEF Combine, Parts
<1>5. \A p \in Requests, x \in Runtimes :
        wait'[p][x] = IF p = q /\ x \in live THEN "read" ELSE wait[p][x]
  BY <1>0 DEF Combine, IInv, Shape
<1>6. \A x \in Runtimes : ~Held(q, x)' /\ ~Coming(q, x)'
  BY <1>0, <1>3, <1>4, <1>5 DEF Held, Coming
<1>7. /\ command' \in [Requests -> [Runtimes -> Row]]
      /\ \A p \in Requests \ {q} : command'[p] = command[p]
      /\ \A x \in Runtimes : command'[q][x].status = command[q][x].status
  <2>1. PICK at : at = [x \in Runtimes |-> [command[q][x] EXCEPT !.rows = {}]] OBVIOUS
  <2>2. command' = [command EXCEPT ![q] = at] BY <1>0, <2>1 DEF Combine, Stored
  <2>3. \A c \in Row : [c EXCEPT !.rows = {}] \in Row /\ [c EXCEPT !.rows = {}].status = c.status BY DEF Row
  <2>4. \A x \in Runtimes : command[q][x] \in Row BY <1>0 DEF Stored
  <2>5. at \in [Runtimes -> Row] /\ \A x \in Runtimes : at[x].status = command[q][x].status
    BY <2>1, <2>3, <2>4
  <2> QED BY <1>0, <2>2, <2>5 DEF Stored
<1>8. /\ snapshot' = [x \in Runtimes |-> IF x \in live THEN command[q][x].rows ELSE snapshot[x]]
      /\ missed' = [x \in Runtimes |-> IF x \in live THEN <<q, x>> \in behind ELSE missed[x]]
      /\ behind' = behind \ ({q} \X Runtimes)
  BY DEF Combine
<1>9. /\ snapshot' \in [Runtimes -> SUBSET Ids] /\ missed' \in [Runtimes -> BOOLEAN]
      /\ behind' \subseteq Requests \X Runtimes
      /\ \A p \in Requests \ {q}, x \in Runtimes : <<p, x>> \in behind' <=> <<p, x>> \in behind
  <2>1. \A x \in Runtimes : command[q][x].rows \in SUBSET Ids BY <1>0 DEF Stored, Row
  <2>2. \A x \in Runtimes : (<<q, x>> \in behind) \in BOOLEAN OBVIOUS
  <2> HIDE DEF live
  <2>3. snapshot' \in [Runtimes -> SUBSET Ids] BY <1>8, <2>1 DEF Stored
  <2>4. missed' \in [Runtimes -> BOOLEAN] BY <1>8, <2>2 DEF Stored
  <2> QED BY <1>8, <2>3, <2>4 DEF Stored
<1>10. Stored' BY <1>0, <1>7, <1>9 DEF Stored
<1>11. Begun'
  <2>1. \A p \in Requests : Fresh(p) /\ p # q => Fresh(p)' BY <1>0, <1>7 DEF Fresh
  <2> QED BY <1>2, <2>1 DEF Begun
<1>12. Ended'
  <2> SUFFICES ASSUME NEW p \in Requests, NEW x \in Runtimes, wait'[p][x] = "live"
               PROVE  command'[p][x].status = "ok"
    BY DEF Ended
  <2>1. p # q BY <1>6 DEF Held
  <2> QED BY <1>5, <1>7, <2>1 DEF Ended
<1>13. Quiet' BY <1>0 DEF Quiet
<1>14. ASSUME NEW x \in Runtimes PROVE FollowsOn(link[x], x)'
  <2>1. FollowsOn(link[x], x) BY DEF Follows
  <2>2. \A p \in Requests : Coming(p, x)' => Coming(p, x)
    BY <1>5, <1>6, <1>7, <1>9 DEF Coming
  <2>3. \A p \in Requests : ToRead(p, x)' => ToRead(p, x) /\ command'[p][x].rows = command[p][x].rows
    BY <1>5, <1>6, <1>7, <1>9 DEF ToRead, Held
  <2>4. \A k \in DOMAIN link[x] : IsResult(link[x][k]) => link[x][k].of \in Requests
    BY DEF Stored, Message, IsResult
  <2>5. ~missed'[x] => Leads(link[x], 0, snapshot'[x], real[x])
    <3>1. CASE x \in live
      <4>1. snapshot'[x] = command[q][x].rows /\ (missed'[x] <=> <<q, x>> \in behind) BY <1>8, <3>1
      <4>2. wait[q][x] = "live" /\ command[q][x].status = "ok" BY <1>0, <1>3, <3>1 DEF Ended
      <4>3. ~missed'[x] => ToRead(q, x) BY <4>1, <4>2 DEF ToRead, Held
      <4> QED BY <1>0, <2>1, <4>1, <4>3 DEF FollowsOn
    <3>2. CASE x \notin live BY <1>8, <2>1, <3>2 DEF FollowsOn
    <3> QED BY <3>1, <3>2
  <2> QED BY <1>0, <2>1, <2>2, <2>3, <2>4, <2>5 DEF FollowsOn
<1> QED BY <1>0, <1>10, <1>11, <1>12, <1>13, <1>14 DEF Follows

LEMMA StepFollows == IInv /\ OInv /\ [Next]_vars => OInv'
<1> SUFFICES ASSUME IInv, OInv, [Next]_vars PROVE OInv' OBVIOUS
<1>1. CASE UNCHANGED vars BY <1>1, AsideStep
<1>2. CASE OpenStream \/ CloseStream \/ Maintain BY <1>2, AsideStep
<1>3. ASSUME NEW r \in Runtimes,
             LocalChange(r) \/ Connect(r) \/ Disconnect(r) \/ TakeResult(r) \/ TakeFrame(r)
      PROVE  OInv'
  BY <1>3, LocalChangeFollows, AsideStep, DisconnectFollows, TakeResultFollows, TakeFrameFollows
<1>4. ASSUME NEW q \in Requests, NEW r \in Runtimes,
             Execute(q, r) \/ Listen(q, r) \/ Timeout(q, r) \/ StartChange(q, r)
      PROVE  OInv'
  BY <1>4, ExecuteFollows, ListenFollows, AsideStep, StartChangeFollows
<1>5. ASSUME NEW q \in Lists, StartList(q) \/ Combine(q) PROVE OInv'
  BY <1>5, StartListFollows, CombineFollows
<1> QED BY <1>1, <1>2, <1>3, <1>4, <1>5 DEF Next

LEMMA OrderInvariant == Spec => []OInv
<1>1. Init => OInv BY InitFollows
<1> QED BY <1>1, FleetInvariant, StepFollows, PTL DEF Spec

\* updateWorkspaceRpcSnapshot(), updateWorkspaceHostSnapshot(): results and frames of
\* a runtime are put together so that the snapshot is what the runtime has, unless a
\* frame was not seen or came between a result and its reading.
THEOREM OrderFollows == Spec => []OrderIsCurrent
<1>1. OInv /\ online \subseteq Runtimes => OrderIsCurrent
  <2> SUFFICES ASSUME OInv, NEW r \in online, r \in Runtimes, ~missed[r], link[r] = <<>>
               PROVE  snapshot[r] = real[r]
    BY DEF OrderIsCurrent
  <2>1. Leads(<<>>, 0, snapshot[r], real[r]) BY DEF OInv, Follows, FollowsOn
  <2>2. \A i \in Ids : i \in snapshot[r] <=> i \in real[r] BY <2>1 DEF Leads, Silent
  <2>3. snapshot[r] \in SUBSET Ids /\ real[r] \in SUBSET Ids BY DEF OInv, Stored
  <2> QED BY <2>2, <2>3
<1>2. IInv => online \subseteq Runtimes BY DEF IInv, Shape
<1> QED BY <1>1, <1>2, FleetInvariant, OrderInvariant, PTL

\* Bounds are kept: a step counts an edit, or a fault, or opens or closes the stream.
LEMMA CountersStep ==
  ASSUME [Next]_vars
  PROVE  /\ local' = local \/ (local < MaxLocal /\ local' = local + 1)
         /\ faults' = faults \/ Fault
         /\ stream' = stream \/ stream' \in BOOLEAN
<1>1. CASE UNCHANGED vars BY <1>1 DEF vars, known
<1>2. CASE \E r \in Runtimes : LocalChange(r) BY <1>2 DEF LocalChange, known
<1>3. CASE \E r \in Runtimes : Connect(r) \/ Disconnect(r) BY <1>3 DEF Connect, Disconnect, known
<1>4. CASE \E r \in Runtimes : TakeResult(r) \/ TakeFrame(r) BY <1>4 DEF TakeResult, TakeFrame
<1>5. CASE \E q \in Requests, r \in Runtimes : Execute(q, r) BY <1>5 DEF Execute, known
<1>6. CASE \E q \in Requests, r \in Runtimes : Listen(q, r) BY <1>6 DEF Listen
<1>7. CASE \E q \in Requests, r \in Runtimes : Timeout(q, r) BY <1>7 DEF Timeout, known
<1>8. CASE \E q \in Requests, r \in Runtimes : StartChange(q, r) BY <1>8 DEF StartChange, known
<1>9. CASE \E q \in Lists : StartList(q) \/ Combine(q) BY <1>9 DEF StartList, Combine, known
<1>10. CASE Maintain \/ OpenStream \/ CloseStream BY <1>10 DEF Maintain, OpenStream, CloseStream, known
<1> QED BY <1>1, <1>2, <1>3, <1>4, <1>5, <1>6, <1>7, <1>8, <1>9, <1>10 DEF Next

\* The rows of commands, what is known and what is on its way keep their types; a part
\* of a list that is live has a result.
THEOREM TypesHold == Spec => []TypeOK
<1> DEFINE Counters == local \in 0 .. MaxLocal /\ faults \in 0 .. MaxFaults
           Streaming == stream \in BOOLEAN
<1>1. Init => Counters BY FleetAssumption DEF FleetAssumption, Init
<1>2. Counters /\ [Next]_vars => Counters' BY FleetAssumption, CountersStep DEF FleetAssumption, Fault
<1>3. Spec => []Counters
  <2> HIDE DEF Counters
  <2> QED BY <1>1, <1>2, PTL DEF Spec
<1>4. IInv /\ OInv /\ Counters /\ stream \in BOOLEAN => TypeOK
  BY DEF IInv, Shape, OInv, Stored, Ended, Row, WaitState, AnswerState, Part, TypeOK
<1>5. Init => stream \in BOOLEAN BY DEF Init
<1>6. stream \in BOOLEAN /\ [Next]_vars => stream' \in BOOLEAN BY CountersStep
<1>7. Spec => []Streaming
  <2>1. Init => Streaming BY <1>5
  <2>2. Streaming /\ [Next]_vars => Streaming' BY <1>6
  <2> HIDE DEF Streaming
  <2> QED BY <2>1, <2>2, PTL DEF Spec
<1>8. IInv /\ OInv /\ Counters /\ Streaming => TypeOK BY <1>4
<1> HIDE DEF Counters, Streaming
<1> QED BY <1>3, <1>7, <1>8, FleetInvariant, OrderInvariant, PTL
=============================================================================
