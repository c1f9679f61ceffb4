------------------------- MODULE CommandDeliveryProofs -------------------------
(***************************************************************************)
(* Theorems about CommandDelivery, for any commands, quotas and faults.    *)
(***************************************************************************)
EXTENDS CommandDelivery, FiniteSetTheorems, WellFoundedInduction,
        TLAPS

-----------------------------------------------------------------------------
(* The inductive invariant *)

RowState == {"pending", "processing", "processed"}

\* Types, and what the several cursors have to do with each other.
TasksOf(rs) == [row : DOMAIN rs, by : {"handler", "recovery"}, mine : BOOLEAN]

ProcessTyped ==
  /\ phase \in {"offline", "starting", "recovering", "open"}
  /\ alive \in BOOLEAN /\ ipc \in BOOLEAN /\ cursor \in 0 .. Len(rows)
  /\ tasks \subseteq TasksOf(rows)
  /\ deferred \in Seq(Result) /\ executing \subseteq Commands
  /\ starts \in [Commands -> 0 .. 2]

Typed ==
  /\ status \in [Commands -> Status] /\ invoked \in Seq(Commands)
  /\ rows \in Seq(RowState) /\ Len(rows) <= Len(invoked)
  /\ results \in Seq(Result)
  /\ hubDone \in Nat /\ hubGot \in Nat /\ acked \in Nat
  /\ hubDone <= hubGot /\ hubGot <= Len(results) /\ acked <= hubGot
  /\ pending \subseteq DOMAIN rows /\ ProcessTyped

\* The Hub finishes one result before it accepts the next.
OneAtATime == hubGot <= hubDone + 1 /\ (alive => hubDone = hubGot)

\* What the Hub finished is settled for good.
FinishedIsSettled == \A i \in 1 .. hubDone : status[results[i].cmd] \in Terminal

InvokedOnce == \A i, k \in DOMAIN invoked : invoked[i] = invoked[k] => i = k

\* A command is queued only after it was created, and while a crash has left it
\* pending nobody can have received it.
QueuedIsCreated == \A n \in DOMAIN invoked : status[invoked[n]] # "none"
PendingIsHeld ==
  \A c \in Commands : status[c] = "pending" =>
    ~alive /\ \A n \in DOMAIN rows : invoked[n] # c

\* A never-retry operation that was started has left a claimed row.
StartIsClaimed ==
  \A c \in NeverRetry :
    \/ starts[c] = 0
    \/ starts[c] = 1 /\ \E n \in DOMAIN rows : invoked[n] = c /\ rows[n] # "pending"

IInv ==
  /\ Typed /\ OneAtATime /\ FinishedIsSettled /\ InvokedOnce /\ QueuedIsCreated
  /\ PendingIsHeld /\ StartIsClaimed /\ SentIsOwed

-----------------------------------------------------------------------------
(* Counting *)

LEMMA LessIsWellFounded == IsWellFoundedOn({p \in Nat \X Nat : p[1] < p[2]}, Nat)
<1>1. OpToRel(<, Nat) = {p \in Nat \X Nat : p[1] < p[2]} BY DEF OpToRel
<1> QED BY <1>1, NatLessThanWellFounded

LEMMA Least ==
  ASSUME NEW T, T \subseteq Nat, T # {}
  PROVE  \E x \in T : \A y \in T : x <= y
<1> DEFINE R == {p \in Nat \X Nat : p[1] < p[2]}
<1>1. IsWellFoundedOn(R, Nat) BY LessIsWellFounded
<1>2. \A x, y \in Nat : x < y => <<x, y>> \in R OBVIOUS
<1> HIDE DEF R
<1>3. PICK x \in T : \A y \in T : ~(<<y, x>> \in R) BY <1>1, WFMin
<1>4. ASSUME NEW y \in T PROVE x <= y
  <2>1. x \in Nat /\ y \in Nat OBVIOUS
  <2>2. ~(y < x) BY <1>2, <1>3, <2>1
  <2> QED BY <2>1, <2>2
<1> QED BY <1>4

\* What holds of 0 and passes from a number to the next holds up to n.  This
\* takes the place of an induction whose hypothesis is an operator.
LEMMA Counting ==
  ASSUME NEW T, NEW n \in Nat, 0 \in T, \A i \in 1 .. n : i - 1 \in T => i \in T
  PROVE  0 .. n \subseteq T
<1> SUFFICES ASSUME ~(0 .. n \subseteq T) PROVE FALSE OBVIOUS
<1> DEFINE U == (0 .. n) \ T
<1>1. U \subseteq Nat /\ U # {} OBVIOUS
<1>2. PICK x \in U : \A y \in U : x <= y BY <1>1, Least
<1>3. x \in 1 .. n /\ x - 1 \in 0 .. n /\ x - 1 \notin U BY <1>2
<1> QED BY <1>3

-----------------------------------------------------------------------------
(* States of the node that keep the invariant *)

NodeStates == [rows : Seq(RowState), results : Seq(Result), pending : SUBSET Nat]

\* The Hub does not wait for c, or its result is under way.
Covered(s, c) ==
  \/ status[c] # "sent"
  \/ \E i \in hubDone + 1 .. Len(s.results) : s.results[i].cmd = c

\* s follows from the present state: no row is lost, goes back to pending, or is
\* finished without a result.
Progress(s) ==
  /\ s \in NodeStates /\ s.pending \subseteq DOMAIN s.rows
  /\ Len(rows) <= Len(s.rows) /\ Len(s.rows) <= Len(invoked)
  /\ Len(results) <= Len(s.results)
  /\ \A i \in DOMAIN results : s.results[i] = results[i]
  /\ \A n \in DOMAIN s.rows :
       /\ s.rows[n] = "processed" =>
            Covered(s, invoked[n]) \/ (n \in DOMAIN rows /\ rows[n] = "processed")
       /\ s.rows[n] = "pending" /\ n \in DOMAIN rows => rows[n] = "pending"

LEMMA NowIsProgress == ASSUME Typed PROVE Progress(NodeState)
<1>1. NodeState \in NodeStates BY DEF NodeState, NodeStates, Typed
<1>2. NodeState.rows = rows /\ NodeState.results = results /\ NodeState.pending = pending
  BY DEF NodeState
<1>3. Len(rows) \in Nat /\ Len(results) \in Nat BY DEF Typed
<1> QED BY <1>1, <1>2, <1>3 DEF Progress, Typed

LEMMA RecordIsProgress ==
  ASSUME Typed, NEW s, Progress(s), NEW n \in DOMAIN s.rows, NEW r \in Terminal
  PROVE  /\ Progress(Record(s, n, r))
         /\ Covered(Record(s, n, r), invoked[n])
         /\ Record(s, n, r).rows = s.rows /\ Record(s, n, r).pending = s.pending
<1> DEFINE t == Record(s, n, r)
           new == [cmd |-> invoked[n], res |-> r]
<1>1. s \in NodeStates BY DEF Progress
<1>2. n \in DOMAIN invoked /\ invoked[n] \in Commands BY <1>1 DEF Progress, Typed, NodeStates
<1>3. new \in Result BY <1>2 DEF Result
<1>4. t.rows = s.rows /\ t.pending = s.pending /\ t.results = Append(s.results, new)
  BY <1>1 DEF Record, NodeStates
<1>5. s.results \in Seq(Result) BY <1>1 DEF NodeStates
<1>6. /\ t.results \in Seq(Result) /\ Len(t.results) = Len(s.results) + 1
      /\ \A i \in 1 .. Len(s.results) : t.results[i] = s.results[i]
      /\ t.results[Len(s.results) + 1] = new
  BY <1>3, <1>4, <1>5
<1>7. t \in NodeStates
  <2>1. t = [s EXCEPT !.results = t.results] BY <1>4 DEF Record
  <2> QED BY <1>1, <1>6, <2>1 DEF NodeStates
<1>8. hubDone \in Nat /\ hubDone <= Len(s.results) BY <1>5 DEF Typed, Progress
<1> HIDE DEF t
<1>9. \A c : Covered(s, c) => Covered(t, c)
  BY <1>5, <1>6, <1>8 DEF Covered
<1>10. Covered(t, invoked[n])
  <2>1. Len(s.results) + 1 \in hubDone + 1 .. Len(t.results) BY <1>5, <1>6, <1>8
  <2>2. t.results[Len(s.results) + 1].cmd = invoked[n] BY <1>6
  <2> QED BY <2>1, <2>2 DEF Covered
<1>11. Len(results) \in Nat /\ Len(s.results) \in Nat /\ DOMAIN results = 1 .. Len(results)
  BY <1>5 DEF Typed
<1>12. Progress(t)
  <2>1. Len(results) <= Len(t.results) BY <1>6, <1>11 DEF Progress
  <2>2. \A i \in DOMAIN results : t.results[i] = results[i] BY <1>6, <1>11 DEF Progress
  <2> QED BY <1>4, <1>7, <1>9, <2>1, <2>2 DEF Progress
<1> QED BY <1>4, <1>10, <1>12 DEF t

LEMMA CompleteIsProgress ==
  ASSUME Typed, NEW s, Progress(s), NEW n \in DOMAIN s.rows, Covered(s, invoked[n])
  PROVE  /\ Progress(Complete(s, n)) /\ Complete(s, n).results = s.results
         /\ DOMAIN Complete(s, n).rows = DOMAIN s.rows
         /\ Complete(s, n).rows[n] = "processed" /\ Complete(s, n).pending = s.pending
<1> DEFINE t == Complete(s, n)
<1>1. s \in NodeStates /\ s.rows \in Seq(RowState) BY DEF Progress, NodeStates
<1>2. t.rows = [s.rows EXCEPT ![n] = "processed"] /\ t.pending = s.pending /\ t.results = s.results
  BY <1>1 DEF Complete, NodeStates
<1>3. t.rows \in Seq(RowState) /\ Len(t.rows) = Len(s.rows) /\ DOMAIN t.rows = DOMAIN s.rows
  BY <1>1, <1>2 DEF RowState
<1>4. t \in NodeStates BY <1>1, <1>2, <1>3 DEF Complete, NodeStates
<1>5. \A m \in DOMAIN t.rows : t.rows[m] = IF m = n THEN "processed" ELSE s.rows[m]
  BY <1>1, <1>2
<1> HIDE DEF t
<1>6. \A c : Covered(t, c) <=> Covered(s, c) BY <1>2 DEF Covered
<1> QED BY <1>2, <1>3, <1>4, <1>5, <1>6 DEF Progress, t

LEMMA AnswerIsProgress ==
  ASSUME Typed, NEW s, Progress(s), NEW n \in DOMAIN s.rows, NEW r \in Terminal
  PROVE  /\ Progress(Answer(s, n, r)) /\ Answer(s, n, r).pending = s.pending
         /\ DOMAIN Answer(s, n, r).rows = DOMAIN s.rows
         /\ Answer(s, n, r).rows[n] = "processed"
BY RecordIsProgress, CompleteIsProgress DEF Answer

LEMMA PendingIsProgress ==
  ASSUME NEW s, Progress(s), NEW p \in SUBSET DOMAIN s.rows
  PROVE  /\ Progress([s EXCEPT !.pending = p]) /\ [s EXCEPT !.pending = p].rows = s.rows
         /\ [s EXCEPT !.pending = p].pending = p
<1> DEFINE t == [s EXCEPT !.pending = p]
<1>1. s \in NodeStates BY DEF Progress
<1>2. DOMAIN s.rows \subseteq Nat BY <1>1 DEF NodeStates
<1>3. t.rows = s.rows /\ t.pending = p /\ t.results = s.results /\ t \in NodeStates
  BY <1>1, <1>2 DEF NodeStates
<1> HIDE DEF t
<1>4. \A c : Covered(t, c) <=> Covered(s, c) BY <1>3 DEF Covered
<1> QED BY <1>3, <1>4 DEF Progress, t

LEMMA ClaimIsProgress ==
  ASSUME Typed, NEW n \in DOMAIN rows
  PROVE  /\ Progress(ClaimRow(NodeState, n)) /\ DOMAIN ClaimRow(NodeState, n).rows = DOMAIN rows
         /\ ClaimRow(NodeState, n).rows[n] = "processing"
<1> DEFINE t == ClaimRow(NodeState, n)
<1>1. Progress(NodeState) BY NowIsProgress
<1>2. t.rows = [rows EXCEPT ![n] = "processing"] /\ t.pending = pending /\ t.results = results
  BY DEF ClaimRow, NodeState
<1>3. rows \in Seq(RowState) BY DEF Typed
<1>4. /\ t.rows \in Seq(RowState) /\ Len(t.rows) = Len(rows) /\ DOMAIN t.rows = DOMAIN rows
      /\ \A m \in DOMAIN rows : t.rows[m] = IF m = n THEN "processing" ELSE rows[m]
  BY <1>2, <1>3 DEF RowState
<1>5. t \in NodeStates
  <2>1. t = [NodeState EXCEPT !.rows = t.rows] BY <1>2 DEF ClaimRow, NodeState
  <2>2. NodeState \in NodeStates BY <1>1 DEF Progress
  <2> QED BY <1>4, <2>1, <2>2 DEF NodeStates
<1>6. NodeState.rows = rows /\ NodeState.results = results /\ NodeState.pending = pending
  BY DEF NodeState
<1> HIDE DEF t
<1>7. \A c : Covered(t, c) <=> Covered(NodeState, c) BY <1>2, <1>6 DEF Covered
<1> QED BY <1>1, <1>2, <1>4, <1>5, <1>6, <1>7 DEF Progress, t

LEMMA ArrivalIsProgress ==
  ASSUME Typed, NEW s, Progress(s), Len(s.rows) = Len(rows), Len(rows) < Len(invoked),
         NEW st \in {"pending", "processing"}, NEW t, t = [s EXCEPT !.rows = Append(@, st)]
  PROVE  /\ Progress(t) /\ DOMAIN t.rows = 1 .. Len(rows) + 1
         /\ t.rows[Len(rows) + 1] = st
<1>1. s \in NodeStates /\ s.rows \in Seq(RowState) BY DEF Progress, NodeStates
<1>2. /\ t.rows = Append(s.rows, st) /\ t.pending = s.pending
      /\ t.results = s.results
  BY <1>1 DEF NodeStates
<1>3. /\ t.rows \in Seq(RowState) /\ Len(t.rows) = Len(rows) + 1
      /\ DOMAIN t.rows = 1 .. Len(rows) + 1 /\ DOMAIN s.rows = 1 .. Len(rows)
      /\ t.rows[Len(rows) + 1] = st
      /\ \A m \in DOMAIN s.rows : t.rows[m] = s.rows[m]
  BY <1>1, <1>2 DEF RowState
<1>4. t \in NodeStates BY <1>1, <1>2, <1>3 DEF NodeStates
<1>5. \A c : Covered(t, c) <=> Covered(s, c) BY <1>2 DEF Covered
<1>6. Len(rows) \in Nat /\ Len(invoked) \in Nat BY DEF Typed
<1>7. s.pending \subseteq DOMAIN t.rows BY <1>3, <1>6 DEF Progress
<1>8. ASSUME NEW m \in DOMAIN t.rows
      PROVE  /\ t.rows[m] = "processed" =>
                  Covered(t, invoked[m]) \/ (m \in DOMAIN rows /\ rows[m] = "processed")
             /\ t.rows[m] = "pending" /\ m \in DOMAIN rows => rows[m] = "pending"
  <2>1. CASE m \in DOMAIN s.rows BY <1>3, <1>5, <2>1 DEF Progress
  <2>2. CASE m = Len(rows) + 1
    <3>1. m \notin DOMAIN rows BY <1>6, <2>2
    <3> QED BY <1>3, <2>2, <3>1
  <2> QED BY <1>3, <1>6, <2>1, <2>2
<1>9. Len(rows) <= Len(t.rows) /\ Len(t.rows) <= Len(invoked) BY <1>3, <1>6
<1> QED BY <1>2, <1>3, <1>4, <1>7, <1>8, <1>9 DEF Progress

LEMMA AcceptIsProgress ==
  ASSUME Typed, NEW s, Progress(s), NEW r \in Result
  PROVE  /\ Progress(AcceptConnectorResult(s, r))
         /\ DOMAIN AcceptConnectorResult(s, r).rows = DOMAIN s.rows
<1>1. CASE \E n \in s.pending : invoked[n] = r.cmd
  <2> DEFINE n == CHOOSE m \in s.pending : invoked[m] = r.cmd
             t == Answer(s, n, r.res)
  <2>1. n \in s.pending BY <1>1
  <2>2. n \in DOMAIN s.rows /\ r.res \in Terminal BY <2>1 DEF Progress, Result
  <2> HIDE DEF n
  <2>3. Progress(t) /\ t.pending = s.pending /\ DOMAIN t.rows = DOMAIN s.rows
    BY <2>2, AnswerIsProgress
  <2>4. AcceptConnectorResult(s, r) = [t EXCEPT !.pending = t.pending \ {n}]
    BY <1>1 DEF AcceptConnectorResult, n
  <2> HIDE DEF t
  <2>5. t.pending \ {n} \in SUBSET DOMAIN t.rows BY <2>3 DEF Progress
  <2> QED BY <2>3, <2>4, <2>5, PendingIsProgress
<1>2. CASE ~\E n \in s.pending : invoked[n] = r.cmd
  BY <1>2 DEF AcceptConnectorResult
<1> QED BY <1>1, <1>2

\* One step of the drain, and what it keeps.
DrainStep(d, r, a) ==
  IF d.left # <<>> \/ ((\E n \in d.s.pending : invoked[n] = r.cmd) /\ Len(d.s.results) - a >= NodeQuota)
  THEN [d EXCEPT !.left = Append(@, r)]
  ELSE [d EXCEPT !.s = AcceptConnectorResult(@, r)]

Drained(d) ==
  /\ d = [s |-> d.s, left |-> d.left] /\ d.left \in Seq(Result)
  /\ Progress(d.s) /\ DOMAIN d.s.rows = DOMAIN rows

LEMMA StepIsDrained ==
  ASSUME Typed, NEW d, Drained(d), NEW r \in Result, NEW a
  PROVE  Drained(DrainStep(d, r, a))
<1> DEFINE e == DrainStep(d, r, a)
<1>1. \/ e = [d EXCEPT !.left = Append(d.left, r)]
      \/ e = [d EXCEPT !.s = AcceptConnectorResult(d.s, r)]
  BY DEF DrainStep
<1>2. \/ e = [s |-> d.s, left |-> Append(d.left, r)]
      \/ e = [s |-> AcceptConnectorResult(d.s, r), left |-> d.left]
  BY <1>1 DEF Drained
<1>3. CASE e = [s |-> d.s, left |-> Append(d.left, r)]
  <2>1. e.s = d.s /\ e.left = Append(d.left, r) BY <1>3
  <2>2. e.left \in Seq(Result) BY <2>1 DEF Drained
  <2> HIDE DEF e
  <2>3. Drained(e) BY <1>3, <2>1, <2>2 DEF Drained
  <2> QED BY <2>3 DEF e
<1>4. CASE e = [s |-> AcceptConnectorResult(d.s, r), left |-> d.left]
  <2>1. e.s = AcceptConnectorResult(d.s, r) /\ e.left = d.left BY <1>4
  <2> HIDE DEF e
  <2>2. Drained(e) BY <1>4, <2>1, AcceptIsProgress DEF Drained
  <2> QED BY <2>2 DEF e
<1> QED BY <1>2, <1>3, <1>4

LEMMA DrainIsProgress ==
  ASSUME Typed, NEW a
  PROVE  Drained(DrainUpTo(a))
<1> DEFINE N == Len(deferred)
           d0 == [s |-> NodeState, left |-> <<>>]
           Next1(g, i) == IF i = 0 THEN d0 ELSE DrainStep(g[i - 1], deferred[i], a)
<1>1. N \in Nat /\ \A i \in 1 .. N : deferred[i] \in Result BY DEF Typed, ProcessTyped
<1>2. PICK g : g = [i \in 0 .. N |-> Next1(g, i)]
  <2> DEFINE T == {n \in 0 .. N : \E g : g = [i \in 0 .. n |-> Next1(g, i)]}
  <2>1. 0 \in T
    <3> DEFINE g == [i \in 0 .. 0 |-> d0]
    <3>1. g = [i \in 0 .. 0 |-> Next1(g, i)] OBVIOUS
    <3>2. \E f : f = [i \in 0 .. 0 |-> Next1(f, i)]
      <4> HIDE DEF g, Next1
      <4> QED BY <3>1
    <3> HIDE DEF g, Next1
    <3> QED BY <1>1, <3>2
  <2>2. ASSUME NEW n \in 1 .. N, n - 1 \in T PROVE n \in T
    <3>1. PICK g : g = [i \in 0 .. n - 1 |-> Next1(g, i)] BY <2>2
    <3> DEFINE h == [i \in 0 .. n |-> IF i = n THEN DrainStep(g[n - 1], deferred[n], a) ELSE g[i]]
    <3>2. ASSUME NEW i \in 0 .. n PROVE h[i] = Next1(h, i)
      <4>1. CASE i = n BY <1>1, <4>1
      <4>2. CASE i # n
        <5>1. i \in 0 .. n - 1 /\ (i # 0 => i - 1 \in 0 .. n /\ i - 1 # n) BY <4>2
        <5>2. h[i] = g[i] /\ g[i] = Next1(g, i) BY <3>1, <4>2, <5>1
        <5>3. i # 0 => h[i - 1] = g[i - 1] BY <5>1
        <5> HIDE DEF h
        <5> QED BY <5>2, <5>3
      <4> QED BY <4>1, <4>2
    <3>3. h = [i \in 0 .. n |-> h[i]] OBVIOUS
    <3> HIDE DEF h
    <3>4. h = [i \in 0 .. n |-> Next1(h, i)] BY <3>2, <3>3
    <3>5. n \in 0 .. N BY <1>1
    <3> QED BY <3>4, <3>5
  <2> HIDE DEF T
  <2>3. 0 .. N \subseteq T BY <1>1, <2>1, <2>2, Counting
  <2>4. N \in T BY <1>1, <2>3
  <2> QED BY <2>4 DEF T
<1> DEFINE drain[i \in 0 .. N] == Next1(drain, i)
<1>3. drain = [i \in 0 .. N |-> Next1(drain, i)]
  BY <1>2
<1>4. DrainUpTo(a) = drain[N]
  BY DEF DrainUpTo, DrainStep
<1> HIDE DEF drain
<1>5. Drained(d0)
  <2>1. d0.s = NodeState /\ d0.left = <<>> /\ NodeState.rows = rows BY DEF NodeState
  <2>2. <<>> \in Seq(Result) OBVIOUS
  <2> QED BY <2>1, <2>2, NowIsProgress DEF Drained
<1> DEFINE T == {i \in 0 .. N : Drained(drain[i])}
<1>6. 0 \in T BY <1>1, <1>3, <1>5
<1>7. ASSUME NEW i \in 1 .. N, i - 1 \in T PROVE i \in T
  <2>1. i \in 0 .. N /\ i # 0 BY <1>1
  <2>2. drain[i] = DrainStep(drain[i - 1], deferred[i], a) BY <1>3, <2>1
  <2>3. Drained(drain[i - 1]) BY <1>7
  <2> QED BY <1>1, <2>1, <2>2, <2>3, StepIsDrained
<1> HIDE DEF T
<1>8. 0 .. N \subseteq T BY <1>1, <1>6, <1>7, Counting
<1> QED BY <1>1, <1>4, <1>8 DEF T

-----------------------------------------------------------------------------
(* The Hub recovers its commands *)

HubStates == [status : [Commands -> Status], invoked : Seq(Commands), failed : BOOLEAN]

\* What the pass has made of the Hub's state once it has seen the commands in
\* done.
Requeued(s, done) ==
  /\ s \in HubStates
  /\ Len(invoked) <= Len(s.invoked)
  /\ \A n \in DOMAIN invoked : s.invoked[n] = invoked[n]
  /\ \A n \in DOMAIN s.invoked : n > Len(invoked) => s.invoked[n] \in done
  /\ \A i, k \in DOMAIN s.invoked : s.invoked[i] = s.invoked[k] => i = k
  /\ \A c \in Commands :
       \/ s.status[c] = HubRecovered[c]
       \/ /\ HubRecovered[c] = "pending" /\ s.status[c] = "sent"
          /\ \E n \in DOMAIN s.invoked : n > Len(rows) /\ s.invoked[n] = c
  /\ ~s.failed => \A c \in done : s.status[c] = "sent"

LEMMA SettleKeeps ==
  ASSUME Typed, NEW r \in Result
  PROVE  /\ Settle(status, r) \in [Commands -> Status]
         /\ Settle(status, r)[r.cmd] \in Terminal
         /\ \A c \in Commands :
              \/ Settle(status, r)[c] = status[c]
              \/ c = r.cmd /\ status[c] \notin Terminal /\ Settle(status, r)[c] \in Terminal
<1>1. r.cmd \in Commands /\ r.res \in Terminal BY DEF Result
<1> QED BY <1>1 DEF Settle, Typed, Status

\* The last result the Hub accepted is settled, and nothing else has changed.
LEMMA RecoveredKeeps ==
  ASSUME Typed
  PROVE  /\ HubRecovered \in [Commands -> Status]
         /\ hubDone < hubGot => HubRecovered[results[hubGot].cmd] \in Terminal
         /\ \A c \in Commands :
              \/ HubRecovered[c] = status[c]
              \/ status[c] \notin Terminal /\ HubRecovered[c] \in Terminal
<1>1. CASE hubDone < hubGot
  <2>1. hubGot \in DOMAIN results BY <1>1 DEF Typed
  <2>2. results[hubGot] \in Result BY <2>1 DEF Typed
  <2>3. HubRecovered = Settle(status, results[hubGot]) BY <1>1 DEF HubRecovered
  <2> QED BY <1>1, <2>2, <2>3, SettleKeeps
<1>2. CASE ~(hubDone < hubGot) BY <1>2 DEF HubRecovered, Typed
<1> QED BY <1>1, <1>2

LEMMA RequeueStep ==
  ASSUME IInv, NEW done, NEW s, Requeued(s, done),
         NEW c \in Commands \ done, HubRecovered[c] = "pending"
  PROVE  Requeued(Requeue(s, c), done \cup {c})
<1> DEFINE t == Requeue(s, c)
<1>0. Typed BY DEF IInv
<1>1. s \in HubStates /\ s.invoked \in Seq(Commands) /\ s.status \in [Commands -> Status]
  BY DEF Requeued, HubStates
<1>2. status[c] = "pending"
  <2>1. "pending" \notin Terminal BY DEF Terminal
  <2> QED BY <1>0, <2>1, RecoveredKeeps
<1>3. \A n \in DOMAIN rows : invoked[n] # c BY <1>2 DEF IInv, PendingIsHeld
<1>4. /\ Len(rows) \in Nat /\ Len(invoked) \in Nat /\ Len(rows) <= Len(invoked)
      /\ DOMAIN rows = 1 .. Len(rows) /\ DOMAIN invoked = 1 .. Len(invoked)
      /\ Len(s.invoked) \in Nat /\ DOMAIN s.invoked = 1 .. Len(s.invoked)
  BY <1>0, <1>1 DEF Typed
<1>5. CASE s.failed BY <1>5 DEF Requeue, Requeued
<1>6. CASE ~s.failed /\ Queued(c)
  <2>1. t = [s EXCEPT !.status = [s.status EXCEPT ![c] = "sent"]] BY <1>6 DEF Requeue
  <2>2. t.status = [s.status EXCEPT ![c] = "sent"] /\ t.invoked = s.invoked /\ t.failed = s.failed
    BY <1>1, <2>1 DEF HubStates
  <2>3. t \in HubStates
    <3>1. t.status \in [Commands -> Status] BY <1>1, <2>2 DEF Status
    <3>2. t = [s EXCEPT !.status = t.status] BY <2>1, <2>2
    <3> HIDE DEF t
    <3> QED BY <1>1, <3>1, <3>2 DEF HubStates
  <2>4. PICK n \in Len(rows) + 1 .. Len(invoked) : invoked[n] = c BY <1>6 DEF Queued
  <2>5. n \in DOMAIN s.invoked /\ s.invoked[n] = c /\ n > Len(rows)
    BY <1>4, <2>4 DEF Requeued
  <2> HIDE DEF t
  <2>6. Requeued(t, done \cup {c}) BY <1>1, <1>6, <2>2, <2>3, <2>5 DEF Requeued
  <2> QED BY <2>6 DEF t
<1>7. CASE ~s.failed /\ ~Queued(c) /\ ~HubHasRoom(s.invoked)
  <2>1. t = [s EXCEPT !.failed = TRUE] BY <1>7 DEF Requeue
  <2>2. t.status = s.status /\ t.invoked = s.invoked /\ t.failed /\ t \in HubStates
    BY <1>1, <2>1 DEF HubStates
  <2> HIDE DEF t
  <2>3. Requeued(t, done \cup {c}) BY <2>2 DEF Requeued
  <2> QED BY <2>3 DEF t
<1>8. CASE ~s.failed /\ ~Queued(c) /\ HubHasRoom(s.invoked)
  <2>1. t = [s EXCEPT !.status = [s.status EXCEPT ![c] = "sent"], !.invoked = Append(s.invoked, c)]
    BY <1>8 DEF Requeue
  <2>2. /\ t.status = [s.status EXCEPT ![c] = "sent"] /\ t.invoked = Append(s.invoked, c)
        /\ t.failed = s.failed
    BY <1>1, <2>1 DEF HubStates
  <2>3. /\ t.status \in [Commands -> Status] /\ t.invoked \in Seq(Commands)
        /\ Len(t.invoked) = Len(s.invoked) + 1
        /\ t.invoked[Len(s.invoked) + 1] = c
        /\ \A n \in DOMAIN s.invoked : t.invoked[n] = s.invoked[n]
        /\ DOMAIN t.invoked = 1 .. Len(s.invoked) + 1
    BY <1>1, <2>2 DEF Status
  <2>4. t \in HubStates
    <3>1. t = [s EXCEPT !.status = t.status, !.invoked = t.invoked] BY <2>1, <2>2
    <3> HIDE DEF t
    <3> QED BY <1>1, <2>3, <3>1 DEF HubStates
  <2> HIDE DEF t
  <2>5. \A n \in DOMAIN s.invoked : s.invoked[n] # c
    <3> SUFFICES ASSUME NEW n \in DOMAIN s.invoked, s.invoked[n] = c PROVE FALSE OBVIOUS
    <3>1. CASE n > Len(invoked) BY <3>1 DEF Requeued
    <3>2. CASE ~(n > Len(invoked))
      <4>1. n \in DOMAIN invoked /\ invoked[n] = c BY <1>4, <3>2 DEF Requeued
      <4>2. n \in Len(rows) + 1 .. Len(invoked) BY <1>3, <1>4, <4>1
      <4> QED BY <1>8, <4>1, <4>2 DEF Queued
    <3> QED BY <3>1, <3>2
  <2>6. \A i, k \in DOMAIN t.invoked : t.invoked[i] = t.invoked[k] => i = k
    <3>1. \A i \in DOMAIN t.invoked : i \in DOMAIN s.invoked \/ i = Len(s.invoked) + 1
      BY <1>4, <2>3
    <3> QED BY <2>3, <2>5, <3>1 DEF Requeued
  <2>7. \A n \in DOMAIN t.invoked : n > Len(invoked) => t.invoked[n] \in done \cup {c}
    BY <1>4, <2>3 DEF Requeued
  <2>8. /\ Len(invoked) <= Len(t.invoked)
        /\ \A n \in DOMAIN invoked : t.invoked[n] = invoked[n]
    <3>1. /\ Len(invoked) <= Len(s.invoked)
          /\ \A n \in DOMAIN invoked : s.invoked[n] = invoked[n]
      BY DEF Requeued
    <3>2. Len(invoked) <= Len(t.invoked) BY <1>4, <2>3, <3>1
    <3>3. \A n \in DOMAIN invoked : n \in DOMAIN s.invoked BY <1>4, <3>1
    <3> QED BY <2>3, <3>1, <3>2, <3>3
  <2>9. ASSUME NEW x \in Commands
        PROVE  \/ t.status[x] = HubRecovered[x]
               \/ /\ HubRecovered[x] = "pending" /\ t.status[x] = "sent"
                  /\ \E n \in DOMAIN t.invoked : n > Len(rows) /\ t.invoked[n] = x
    <3>1. CASE x = c
      <4>1. Len(s.invoked) + 1 \in DOMAIN t.invoked /\ Len(s.invoked) + 1 > Len(rows)
        BY <1>4, <2>3 DEF Requeued
      <4>2. t.status[c] = "sent" BY <1>1, <2>2
      <4> QED BY <2>3, <3>1, <4>1, <4>2
    <3>2. CASE x # c
      <4>1. t.status[x] = s.status[x] BY <1>1, <2>2, <3>2
      <4>2. \A n \in DOMAIN s.invoked : n \in DOMAIN t.invoked /\ t.invoked[n] = s.invoked[n]
        BY <1>4, <2>3
      <4> QED BY <4>1, <4>2 DEF Requeued
    <3> QED BY <3>1, <3>2
  <2>10. \A x \in done \cup {c} : x \in Commands => t.status[x] = "sent"
    BY <1>1, <1>8, <2>2 DEF Requeued
  <2>11. ~t.failed => \A x \in done \cup {c} : t.status[x] = "sent"
    BY <1>1, <1>8, <2>2, <2>10 DEF Requeued
  <2>12. Requeued(t, done \cup {c}) BY <2>4, <2>6, <2>7, <2>8, <2>9, <2>11 DEF Requeued
  <2> QED BY <2>12 DEF t
<1> QED BY <1>5, <1>6, <1>7, <1>8

\* The pass sees every pending command once, whatever their order.
LEMMA RequeueAllKeeps ==
  ASSUME IInv, NEW s0, s0 = [status |-> HubRecovered, invoked |-> invoked, failed |-> FALSE]
  PROVE  LET s == RequeueAll(s0)
         IN \E done :
              /\ Requeued(s, done)
              /\ \A c \in done : HubRecovered[c] = "pending"
              /\ \A c \in Commands : HubRecovered[c] = "pending" => c \in done
<1>0. Typed BY DEF IInv
<1> DEFINE todo == {c \in Commands : s0.status[c] = "pending"}
           N == Cardinality(todo)
           order == CHOOSE f \in [1 .. N -> todo] : \A i, k \in DOMAIN f : f[i] = f[k] => i = k
           Next1(g, i) == IF i = 0 THEN s0 ELSE Requeue(g[i - 1], order[i])
<1>1. IsFiniteSet(todo) /\ N \in Nat
  <2>1. IsFiniteSet(Commands) BY CommandAssumption DEF CommandAssumption
  <2>2. IsFiniteSet(todo) BY <2>1, FS_Subset
  <2> QED BY <2>2, FS_CardinalityType
<1>2. order \in [1 .. N -> todo] /\ \A i, k \in 1 .. N : order[i] = order[k] => i = k
  <2>1. ExistsBijection(1 .. N, todo) BY <1>1, FS_CardinalityType
  <2>2. \E f \in [1 .. N -> todo] : \A i, k \in DOMAIN f : f[i] = f[k] => i = k
    BY <2>1 DEF ExistsBijection, Bijection, Injection, IsInjective
  <2> QED BY <2>2
<1>3. todo = {order[i] : i \in 1 .. N}
  <2> HIDE DEF order, todo
  <2>1. {order[i] : i \in 1 .. N} \subseteq todo BY <1>2
  <2>2. ASSUME NEW c \in todo, c \notin {order[i] : i \in 1 .. N} PROVE FALSE
    <3>1. IsFiniteSet(todo \ {c}) /\ Cardinality(todo \ {c}) = N - 1
      BY <1>1, FS_RemoveElement
    <3>2. IsFiniteSet(1 .. N) /\ Cardinality(1 .. N) = N
      <4> HIDE DEF N
      <4> QED BY <1>1, FS_Interval
    <3>3. order \in [1 .. N -> todo \ {c}]
      <4> HIDE DEF N
      <4> QED BY <1>2, <2>2
    <3>4. Cardinality(todo \ {c}) < Cardinality(1 .. N)
      <4> HIDE DEF N
      <4> QED BY <1>1, <3>1, <3>2
    <3>5. \E i, k \in 1 .. N : i # k /\ order[i] = order[k]
      <4> HIDE DEF N
      <4> QED BY <3>1, <3>2, <3>3, <3>4, FS_PigeonHole
    <3> QED BY <1>2, <3>5
  <2> QED BY <2>1, <2>2
<1> HIDE DEF order
<1>4. PICK g : g = [i \in 0 .. N |-> Next1(g, i)]
  <2> DEFINE T == {n \in 0 .. N : \E g : g = [i \in 0 .. n |-> Next1(g, i)]}
  <2>1. 0 \in T
    <3> DEFINE g == [i \in 0 .. 0 |-> s0]
    <3>1. g = [i \in 0 .. 0 |-> Next1(g, i)] OBVIOUS
    <3>2. \E f : f = [i \in 0 .. 0 |-> Next1(f, i)]
      <4> HIDE DEF g, Next1
      <4> QED BY <3>1
    <3> HIDE DEF g, Next1, N
    <3> QED BY <1>1, <3>2
  <2>2. ASSUME NEW n \in 1 .. N, n - 1 \in T PROVE n \in T
    <3> HIDE DEF N
    <3>1. PICK g : g = [i \in 0 .. n - 1 |-> Next1(g, i)] BY <2>2
    <3> DEFINE h == [i \in 0 .. n |-> IF i = n THEN Requeue(g[n - 1], order[n]) ELSE g[i]]
    <3>2. ASSUME NEW i \in 0 .. n PROVE h[i] = Next1(h, i)
      <4>1. CASE i = n BY <1>1, <4>1
      <4>2. CASE i # n
        <5>1. i \in 0 .. n - 1 /\ (i # 0 => i - 1 \in 0 .. n /\ i - 1 # n) BY <4>2
        <5>2. h[i] = g[i] /\ g[i] = Next1(g, i) BY <3>1, <4>2, <5>1
        <5>3. i # 0 => h[i - 1] = g[i - 1] BY <5>1
        <5> HIDE DEF h
        <5> QED BY <5>2, <5>3
      <4> QED BY <4>1, <4>2
    <3>3. h = [i \in 0 .. n |-> h[i]] OBVIOUS
    <3> HIDE DEF h
    <3>4. h = [i \in 0 .. n |-> Next1(h, i)] BY <3>2, <3>3
    <3>5. n \in 0 .. N BY <1>1
    <3> QED BY <3>4, <3>5
  <2> HIDE DEF T, N
  <2>3. 0 .. N \subseteq T BY <1>1, <2>1, <2>2, Counting
  <2>4. N \in T BY <1>1, <2>3
  <2> QED BY <2>4 DEF T
<1> DEFINE pass[i \in 0 .. N] == Next1(pass, i)
<1>5. pass = [i \in 0 .. N |-> Next1(pass, i)]
  <2> HIDE DEF N
  <2> QED BY <1>4
<1>6. RequeueAll(s0) = pass[N]
  BY DEF RequeueAll, order
<1> HIDE DEF pass
<1> DEFINE seen(i) == {order[k] : k \in 1 .. i}
<1>7. Requeued(s0, seen(0))
  <2>1. seen(0) = {} OBVIOUS
  <2>2. s0 \in HubStates BY <1>0, RecoveredKeeps DEF HubStates, Typed
  <2>3. s0.status = HubRecovered /\ s0.invoked = invoked /\ s0.failed = FALSE OBVIOUS
  <2>4. Len(invoked) \in Nat /\ DOMAIN invoked = 1 .. Len(invoked) BY <1>0 DEF Typed
  <2> HIDE DEF seen
  <2> QED BY <2>1, <2>2, <2>3, <2>4 DEF Requeued, IInv, InvokedOnce
<1> DEFINE T == {i \in 0 .. N : Requeued(pass[i], seen(i))}
<1>8. 0 \in T
  <2>1. pass[0] = s0 /\ 0 \in 0 .. N
    <3> HIDE DEF N
    <3> QED BY <1>1, <1>5
  <2> QED BY <1>7, <2>1
<1>9. ASSUME NEW i \in 1 .. N, i - 1 \in T PROVE i \in T
  <2>1. i \in 0 .. N /\ i # 0 /\ i - 1 \in 0 .. N
    <3> HIDE DEF N
    <3> QED BY <1>1
  <2>2. pass[i] = Requeue(pass[i - 1], order[i])
    <3> HIDE DEF N
    <3> QED BY <1>5, <2>1
  <2>3. Requeued(pass[i - 1], seen(i - 1)) BY <1>9
  <2>4. order[i] \in Commands /\ HubRecovered[order[i]] = "pending"
    <3>1. order[i] \in todo
      <4> HIDE DEF N, todo
      <4> QED BY <1>2
    <3> QED BY <3>1
  <2>5. order[i] \notin seen(i - 1) /\ seen(i) = seen(i - 1) \cup {order[i]}
    <3> HIDE DEF N, todo
    <3>1. 1 .. i = (1 .. i - 1) \cup {i} /\ \A k \in 1 .. i - 1 : k \in 1 .. N /\ k # i
      BY <1>1
    <3> QED BY <1>2, <3>1
  <2> HIDE DEF seen, N, todo
  <2> QED BY <2>1, <2>2, <2>3, <2>4, <2>5, RequeueStep
<1> HIDE DEF T
<1>10. 0 .. N \subseteq T
  <2> HIDE DEF N
  <2> QED BY <1>1, <1>8, <1>9, Counting
<1>11. Requeued(pass[N], seen(N))
  <2> HIDE DEF N, seen
  <2> QED BY <1>1, <1>10 DEF T
<1>12. seen(N) = todo
  <2> HIDE DEF N, todo
  <2> QED BY <1>3
<1>13. s0.status = HubRecovered OBVIOUS
<1> HIDE DEF seen, N
<1>14. Requeued(RequeueAll(s0), todo) BY <1>6, <1>11, <1>12
<1> QED BY <1>13, <1>14

-----------------------------------------------------------------------------
(* Steps of the node *)

\* Starts that are not counted remain claimed.
LEMMA ClaimsRemain ==
  ASSUME Typed, NEW s, Progress(s), Becomes(s), UNCHANGED invoked,
         NEW c, starts'[c] = starts[c],
         \/ starts[c] = 0
         \/ starts[c] = 1 /\ \E n \in DOMAIN rows : invoked[n] = c /\ rows[n] # "pending"
  PROVE  \/ starts'[c] = 0
         \/ starts'[c] = 1 /\ \E n \in DOMAIN rows' : invoked'[n] = c /\ rows'[n] # "pending"
<1>1. rows' = s.rows /\ s.rows \in Seq(RowState) /\ Len(rows) <= Len(s.rows)
  BY DEF Becomes, Progress, NodeStates
<1>2. DOMAIN rows \subseteq DOMAIN rows'
  <2>1. DOMAIN rows = 1 .. Len(rows) /\ DOMAIN rows' = 1 .. Len(s.rows)
        /\ Len(rows) \in Nat /\ Len(s.rows) \in Nat
    BY <1>1 DEF Typed
  <2> QED BY <1>1, <2>1
<1>3. \A n \in DOMAIN rows : rows[n] # "pending" => rows'[n] # "pending"
  BY <1>1, <1>2 DEF Progress
<1> QED BY <1>2, <1>3

\* What every step of the node keeps that the Hub takes no part in.
LEMMA NodeKeeps ==
  ASSUME IInv, NEW s, Progress(s), Becomes(s), UNCHANGED hub,
         acked' \in Nat, acked' <= hubGot, ProcessTyped', StartIsClaimed',
         alive' => alive, alive \/ DOMAIN s.rows = DOMAIN rows
  PROVE  IInv'
<1>0. Typed BY DEF IInv
<1>1. /\ rows' = s.rows /\ results' = s.results /\ pending' = s.pending /\ s \in NodeStates
      /\ status' = status /\ invoked' = invoked /\ hubGot' = hubGot /\ hubDone' = hubDone
  BY DEF Becomes, Progress, hub
<1>2. s.rows \in Seq(RowState) /\ s.results \in Seq(Result) BY <1>1 DEF NodeStates
<1>3. /\ Len(results) \in Nat /\ Len(s.results) \in Nat /\ Len(rows) \in Nat
      /\ Len(s.rows) \in Nat /\ Len(invoked) \in Nat
      /\ DOMAIN results = 1 .. Len(results) /\ DOMAIN s.results = 1 .. Len(s.results)
      /\ DOMAIN rows = 1 .. Len(rows) /\ DOMAIN s.rows = 1 .. Len(s.rows)
      /\ DOMAIN invoked = 1 .. Len(invoked)
      /\ Len(results) <= Len(s.results) /\ Len(rows) <= Len(s.rows)
      /\ hubDone \in Nat /\ hubGot \in Nat /\ hubDone <= hubGot /\ hubGot <= Len(results)
  BY <1>0, <1>2 DEF Typed, Progress
<1>4. Typed'
  <2>1. Len(rows') <= Len(invoked') /\ pending' \subseteq DOMAIN rows' BY <1>1 DEF Progress
  <2>2. hubGot' <= Len(results') BY <1>1, <1>3
  <2> QED BY <1>0, <1>1, <1>2, <2>1, <2>2 DEF Typed
<1>5. OneAtATime' BY <1>1 DEF IInv, OneAtATime
<1>6. \A i \in 1 .. Len(results) : results'[i] = results[i] BY <1>1, <1>3 DEF Progress
<1>7. FinishedIsSettled'
  BY <1>1, <1>3, <1>6 DEF IInv, FinishedIsSettled
<1>8. InvokedOnce' /\ QueuedIsCreated' BY <1>1 DEF IInv, InvokedOnce, QueuedIsCreated
<1>9. PendingIsHeld'
  <2> SUFFICES ASSUME NEW c \in Commands, status[c] = "pending"
               PROVE  ~alive' /\ \A n \in DOMAIN rows' : invoked[n] # c
    BY <1>1 DEF PendingIsHeld
  <2>1. ~alive /\ \A n \in DOMAIN rows : invoked[n] # c BY DEF IInv, PendingIsHeld
  <2> QED BY <1>1, <2>1
<1>10. SentIsOwed'
  <2> SUFFICES ASSUME NEW c \in Commands, status[c] = "sent"
               PROVE  \/ \E n \in DOMAIN invoked :
                           invoked[n] = c /\ (n > Len(s.rows) \/ s.rows[n] # "processed")
                      \/ \E i \in hubDone + 1 .. Len(s.results) : s.results[i].cmd = c
    BY <1>1 DEF SentIsOwed
  <2>1. CASE \E n \in DOMAIN invoked : invoked[n] = c /\ (n > Len(rows) \/ rows[n] # "processed")
    <3>1. PICK n \in DOMAIN invoked : invoked[n] = c /\ (n > Len(rows) \/ rows[n] # "processed")
      BY <2>1
    <3>2. CASE n \in DOMAIN s.rows /\ s.rows[n] = "processed"
      <4>1. ~(n \in DOMAIN rows /\ rows[n] = "processed") BY <1>3, <3>1
      <4>2. Covered(s, c) BY <3>1, <3>2, <4>1 DEF Progress
      <4> QED BY <4>2 DEF Covered
    <3>3. CASE ~(n \in DOMAIN s.rows /\ s.rows[n] = "processed") BY <1>3, <3>1, <3>3
    <3> QED BY <3>2, <3>3
  <2>2. CASE \E i \in hubDone + 1 .. Len(results) : results[i].cmd = c
    <3>1. PICK i \in hubDone + 1 .. Len(results) : results[i].cmd = c BY <2>2
    <3>2. i \in 1 .. Len(results) /\ i \in hubDone + 1 .. Len(s.results) BY <1>3
    <3>3. s.results[i] = results[i] BY <1>1, <1>6, <3>2
    <3> QED BY <3>1, <3>2, <3>3
  <2> QED BY <2>1, <2>2 DEF IInv, SentIsOwed
<1> QED BY <1>4, <1>5, <1>7, <1>8, <1>9, <1>10 DEF IInv

\* A command whose result is still in the outbox is covered.
LEMMA OutboxCovers ==
  ASSUME IInv, NEW s, Progress(s), NEW c, Unacknowledged(c)
  PROVE  Covered(s, c)
<1>0. Typed BY DEF IInv
<1>1. PICK i \in acked + 1 .. Len(results) : results[i].cmd = c BY DEF Unacknowledged
<1>2. s.results \in Seq(Result) /\ Len(results) <= Len(s.results) BY DEF Progress, NodeStates
<1>3. /\ Len(results) \in Nat /\ Len(s.results) \in Nat /\ acked \in Nat /\ hubDone \in Nat
      /\ DOMAIN results = 1 .. Len(results)
  BY <1>0, <1>2 DEF Typed
<1>4. i \in DOMAIN results /\ s.results[i] = results[i] BY <1>3 DEF Progress
<1>5. CASE i \in 1 .. hubDone
  <2>1. status[c] \in Terminal BY <1>1, <1>5 DEF IInv, FinishedIsSettled
  <2> QED BY <2>1 DEF Covered, Terminal
<1>6. CASE i \in hubDone + 1 .. Len(s.results) BY <1>1, <1>4, <1>6 DEF Covered
<1> QED BY <1>2, <1>3, <1>4, <1>5, <1>6

\* However a claimed row is dispatched, the node moves on as it may.
LEMMA DispatchKeeps ==
  ASSUME IInv, UNCHANGED hub, NEW s, Progress(s),
         NEW n \in DOMAIN s.rows, s.rows[n] = "processing",
         NEW by \in {"handler", "recovery"}, NEW recovery \in BOOLEAN,
         ~recovery => n \notin DOMAIN rows \/ rows[n] = "pending",
         Dispatch(s, n, by, recovery)
  PROVE  /\ \E t : Progress(t) /\ Becomes(t) /\ DOMAIN t.rows = DOMAIN s.rows
         /\ tasks' \subseteq TasksOf(s.rows)
         /\ executing' \subseteq Commands /\ starts' \in [Commands -> 0 .. 2]
         /\ StartIsClaimed'
<1> DEFINE c == invoked[n]
<1>0. Typed /\ ProcessTyped BY DEF IInv, Typed
<1>1. /\ s \in NodeStates /\ s.rows \in Seq(RowState) /\ DOMAIN s.rows = 1 .. Len(s.rows)
      /\ DOMAIN rows = 1 .. Len(rows) /\ Len(rows) \in Nat /\ Len(rows) <= Len(s.rows)
      /\ Len(s.rows) \in Nat /\ Len(s.rows) <= Len(invoked)
      /\ Len(invoked) \in Nat /\ DOMAIN invoked = 1 .. Len(invoked)
  BY <1>0 DEF Progress, NodeStates, Typed
<1>2. n \in DOMAIN invoked /\ c \in Commands BY <1>0, <1>1 DEF Typed
<1>3. tasks \subseteq TasksOf(s.rows)
      /\ executing \subseteq Commands /\ starts \in [Commands -> 0 .. 2]
  BY <1>0, <1>1 DEF ProcessTyped, TasksOf
<1>4. NeverRetry \subseteq Supervised /\ Supervised \subseteq Commands
  BY CommandAssumption DEF CommandAssumption
<1>5. UNCHANGED invoked BY DEF hub
<1>6. CASE \E t : /\ Progress(t) /\ Becomes(t) /\ DOMAIN t.rows = DOMAIN s.rows
                  /\ UNCHANGED <<tasks, executing, starts>>
  <2>1. PICK t : /\ Progress(t) /\ Becomes(t) /\ DOMAIN t.rows = DOMAIN s.rows
                 /\ UNCHANGED <<tasks, executing, starts>>
    BY <1>6
  <2>2. StartIsClaimed' BY <1>0, <1>5, <2>1, ClaimsRemain DEF IInv, StartIsClaimed
  <2> QED BY <1>3, <2>1, <2>2
<1>7. CASE Unacknowledged(c) /\ Becomes(Complete(s, n)) /\ UNCHANGED <<tasks, executing, starts>>
  <2>1. Covered(s, c) BY <1>7, OutboxCovers
  <2>2. Progress(Complete(s, n)) /\ DOMAIN Complete(s, n).rows = DOMAIN s.rows
    BY <1>0, <2>1, CompleteIsProgress
  <2> QED BY <1>6, <1>7, <2>2
<1>8. CASE AnswerNow(s, n, "outcome-unknown")
  <2>1. Progress(Answer(s, n, "outcome-unknown")) /\ DOMAIN Answer(s, n, "outcome-unknown").rows = DOMAIN s.rows
    BY <1>0, AnswerIsProgress DEF Terminal
  <2> QED BY <1>6, <1>8, <2>1 DEF AnswerNow
<1>9. CASE AnswerNow([s EXCEPT !.pending = @ \ {n}], n, "error")
  <2> DEFINE p == s.pending \ {n}
             u == [s EXCEPT !.pending = p]
  <2>1. p \in SUBSET DOMAIN s.rows BY DEF Progress
  <2>2. u = [s EXCEPT !.pending = @ \ {n}] OBVIOUS
  <2> HIDE DEF p
  <2>3. Progress(u) /\ u.rows = s.rows BY <2>1, PendingIsProgress
  <2> HIDE DEF u
  <2>4. Progress(Answer(u, n, "error")) /\ DOMAIN Answer(u, n, "error").rows = DOMAIN s.rows
    BY <1>0, <2>3, AnswerIsProgress DEF Terminal
  <2>5. AnswerNow(u, n, "error") BY <1>9, <2>2
  <2> QED BY <1>6, <2>4, <2>5 DEF AnswerNow
<1>10. CASE /\ ~GiveUp(c, recovery) /\ c \in Supervised /\ CountStart(c) /\ Becomes(s)
            /\ tasks' = tasks \cup {[row |-> n, by |-> by, mine |-> TRUE]} /\ UNCHANGED executing
  <2>1. starts' \in [Commands -> 0 .. 2] /\ starts'[c] = (IF starts[c] = 2 THEN 2 ELSE starts[c] + 1)
        /\ \A d \in Commands : d # c => starts'[d] = starts[d]
    BY <1>2, <1>3, <1>10 DEF CountStart
  <2>2. ASSUME NEW d \in NeverRetry
        PROVE  \/ starts'[d] = 0
               \/ starts'[d] = 1 /\ \E m \in DOMAIN rows' : invoked'[m] = d /\ rows'[m] # "pending"
    <3>1. CASE d # c
      <4>1. starts'[d] = starts[d] BY <1>4, <2>1, <3>1
      <4>2. \/ starts[d] = 0
            \/ starts[d] = 1 /\ \E m \in DOMAIN rows : invoked[m] = d /\ rows[m] # "pending"
        BY DEF IInv, StartIsClaimed
      <4>3. Becomes(s) BY <1>10
      <4> QED BY <1>0, <1>5, <4>1, <4>2, <4>3, ClaimsRemain
    <3>2. CASE d = c
      <4>1. n \notin DOMAIN rows \/ rows[n] = "pending" BY <1>10, <3>2 DEF GiveUp
      <4>2. ASSUME NEW m \in DOMAIN rows, invoked[m] = c, rows[m] # "pending" PROVE FALSE
        <5>1. m \in DOMAIN invoked BY <1>1
        <5>2. m = n BY <1>2, <4>2, <5>1 DEF IInv, InvokedOnce
        <5> QED BY <4>1, <4>2, <5>2
      <4>3. starts[c] = 0 BY <3>2, <4>2 DEF IInv, StartIsClaimed
      <4>4. starts'[c] = 1 BY <2>1, <4>3
      <4>5. rows' = s.rows /\ invoked' = invoked BY <1>5, <1>10 DEF Becomes
      <4>6. s.rows[n] # "pending" OBVIOUS
      <4> QED BY <3>2, <4>4, <4>5, <4>6
    <3> QED BY <3>1, <3>2
  <2>3. StartIsClaimed' BY <2>2 DEF StartIsClaimed
  <2>4. tasks' \subseteq TasksOf(s.rows)
    <3>1. [row |-> n, by |-> by, mine |-> TRUE] \in TasksOf(s.rows) BY DEF TasksOf
    <3> QED BY <1>3, <1>10, <3>1
  <2> QED BY <1>3, <1>10, <2>1, <2>3, <2>4
<1>11. CASE /\ c \notin Supervised /\ executing' = executing \cup {c} /\ CountStart(c)
            /\ Becomes([s EXCEPT !.pending = @ \cup {n}]) /\ UNCHANGED tasks
  <2> DEFINE p == s.pending \cup {n}
             u == [s EXCEPT !.pending = p]
  <2>1. p \in SUBSET DOMAIN s.rows BY DEF Progress
  <2>2. u = [s EXCEPT !.pending = @ \cup {n}] OBVIOUS
  <2> HIDE DEF p
  <2>3. Progress(u) /\ u.rows = s.rows BY <2>1, PendingIsProgress
  <2> HIDE DEF u
  <2>4. Becomes(u) BY <1>11, <2>2
  <2>5. starts' \in [Commands -> 0 .. 2] /\ \A d \in Commands : d # c => starts'[d] = starts[d]
    BY <1>2, <1>3, <1>11 DEF CountStart
  <2>6. \A d \in NeverRetry : starts'[d] = starts[d] BY <1>4, <1>11, <2>5
  <2>7. StartIsClaimed' BY <1>0, <1>5, <2>3, <2>4, <2>6, ClaimsRemain DEF IInv, StartIsClaimed
  <2>8. executing' \subseteq Commands BY <1>2, <1>3, <1>11
  <2> QED BY <1>3, <1>11, <2>3, <2>4, <2>5, <2>7, <2>8
<1> QED BY <1>7, <1>8, <1>9, <1>10, <1>11 DEF Dispatch

-----------------------------------------------------------------------------
(* The steps of the Node Agent, one by one *)

\* A socket that closes and a connectOnce() that throws keep the types.
LEMMA ClosingIsTyped ==
  ASSUME ProcessTyped, NEW rs, NEW ts, ts \subseteq TasksOf(rs),
         SocketCloses(ts) \/ ConnectOnceThrows(ts)
  PROVE  /\ phase' \in {"offline", "starting", "recovering", "open"}
         /\ alive' = FALSE /\ cursor' = cursor /\ tasks' \subseteq TasksOf(rs)
<1>1. Disown(ts) \subseteq TasksOf(rs) BY DEF Disown, TasksOf
<1> QED BY <1>1 DEF SocketCloses, ConnectOnceThrows, ProcessTyped

LEMMA QuietKeeps ==
  ASSUME IInv, UNCHANGED <<hub, rows, results, acked, pending, starts>>,
         ProcessTyped', alive' => alive
  PROVE  IInv'
<1>1. Typed BY DEF IInv
<1>2. Progress(NodeState) /\ Becomes(NodeState) /\ DOMAIN NodeState.rows = DOMAIN rows
  BY <1>1, NowIsProgress DEF NodeState, Becomes
<1>3. StartIsClaimed' BY <1>1, <1>2, ClaimsRemain DEF IInv, StartIsClaimed, hub
<1>4. acked' \in Nat /\ acked' <= hubGot BY <1>1 DEF Typed
<1> QED BY <1>2, <1>3, <1>4, NodeKeeps

LEMMA SocketSteps ==
  ASSUME IInv, StartRecovery \/ FinishRecovery \/ DropSocket \/ ExpireAuthentication
               \/ IpcLost \/ IpcRestored
  PROVE  IInv'
<1>1. Typed /\ ProcessTyped BY DEF IInv, Typed
<1>2. CASE StartRecovery
  <2>1. CASE ConnectOnceThrows(tasks)
    <3>1. phase' \in {"offline", "starting", "recovering", "open"}
          /\ alive' = FALSE /\ cursor' = cursor /\ tasks' \subseteq TasksOf(rows)
      BY <1>1, <2>1, ClosingIsTyped DEF ProcessTyped
    <3>2. ProcessTyped' BY <1>1, <1>2, <3>1 DEF StartRecovery, connector, ProcessTyped
    <3> QED BY <1>2, <3>1, <3>2, QuietKeeps DEF StartRecovery
  <2>2. CASE phase' = "recovering" /\ UNCHANGED <<alive, cursor, tasks>>
    <3>1. ProcessTyped' BY <1>1, <1>2, <2>2 DEF StartRecovery, connector, ProcessTyped
    <3> QED BY <1>2, <2>2, <3>1, QuietKeeps DEF StartRecovery
  <2> QED BY <1>2, <2>1, <2>2 DEF StartRecovery
<1>3. CASE FinishRecovery
  <2>1. ProcessTyped' BY <1>1, <1>3 DEF FinishRecovery, connector, ProcessTyped
  <2> QED BY <1>3, <2>1, QuietKeeps DEF FinishRecovery
<1>4. CASE DropSocket \/ ExpireAuthentication
  <2>1. SocketCloses(tasks) BY <1>4 DEF DropSocket, ExpireAuthentication
  <2>2. phase' \in {"offline", "starting", "recovering", "open"}
        /\ alive' = FALSE /\ cursor' = cursor /\ tasks' \subseteq TasksOf(rows)
    BY <1>1, <2>1, ClosingIsTyped DEF ProcessTyped
  <2>3. UNCHANGED <<hub, rows, results, acked, pending, deferred, ipc, executing, starts>>
    BY <1>4 DEF DropSocket, ExpireAuthentication, connector
  <2>4. ProcessTyped' BY <1>1, <2>2, <2>3 DEF ProcessTyped
  <2> QED BY <2>2, <2>3, <2>4, QuietKeeps
<1>5. CASE IpcLost \/ IpcRestored
  <2>1. /\ UNCHANGED <<hub, rows, results, acked, process, starts>>
        /\ ipc' \in BOOLEAN /\ executing' \subseteq executing
    BY <1>5 DEF IpcLost, IpcRestored
  <2>2. ProcessTyped' BY <1>1, <2>1 DEF ProcessTyped, process
  <2> QED BY <2>1, <2>2, QuietKeeps DEF process
<1> QED BY <1>2, <1>3, <1>4, <1>5

\* A stopped Node Agent leaves what its journal holds.
LEMMA StopKeeps ==
  ASSUME IInv, NEW s, Progress(s), alive \/ DOMAIN s.rows = DOMAIN rows,
         rows' = s.rows, results' = s.results, pending' = {},
         phase' = "offline", alive' = FALSE, cursor' = 0, tasks' = {}, deferred' = <<>>,
         executing' = {}, UNCHANGED <<hub, acked, ipc, starts>>
  PROVE  IInv'
<1>1. Typed /\ ProcessTyped BY DEF IInv, Typed
<1> DEFINE t == [s EXCEPT !.pending = {}]
<1>2. s \in NodeStates BY DEF Progress
<1>3. t.rows = s.rows /\ t.results = s.results /\ t.pending = {} BY <1>2 DEF NodeStates
<1>4. Progress(t) BY PendingIsProgress
<1> HIDE DEF t
<1>5. Becomes(t) BY <1>3 DEF Becomes
<1>6. StartIsClaimed' BY <1>1, <1>4, <1>5, ClaimsRemain DEF IInv, StartIsClaimed, hub
<1>7. Len(rows') \in Nat BY <1>2 DEF NodeStates
<1>8. ProcessTyped'
  <2>1. deferred' \in Seq(Result) /\ cursor' \in 0 .. Len(rows') BY <1>7
  <2>2. tasks' \subseteq TasksOf(rows') /\ executing' \subseteq Commands OBVIOUS
  <2> QED BY <1>1, <2>1, <2>2 DEF ProcessTyped
<1>9. acked' \in Nat /\ acked' <= hubGot BY <1>1 DEF Typed
<1> QED BY <1>3, <1>4, <1>5, <1>6, <1>8, <1>9, NodeKeeps

LEMMA CrashSteps ==
  ASSUME IInv, NodeCrash \/ CrashAfterRecord \/ CrashOnReceipt
  PROVE  IInv'
<1>1. Typed BY DEF IInv
<1>2. Progress(NodeState) /\ NodeState.rows = rows /\ NodeState.results = results
  BY <1>1, NowIsProgress DEF NodeState
<1>3. CASE NodeCrash BY <1>2, <1>3, StopKeeps DEF NodeCrash, NodeStops
<1>4. CASE CrashAfterRecord
  <2>1. PICK n \in DOMAIN rows, r \in Terminal : results' = Record(NodeState, n, r).results
    BY <1>4 DEF CrashAfterRecord
  <2> DEFINE t == Record(NodeState, n, r)
  <2>2. Progress(t) /\ t.rows = rows BY <1>1, <1>2, RecordIsProgress
  <2>3. rows' = t.rows /\ results' = t.results BY <1>4, <2>1, <2>2 DEF CrashAfterRecord
  <2> HIDE DEF t
  <2> QED BY <1>4, <2>2, <2>3, StopKeeps DEF CrashAfterRecord, NodeStops
<1>5. CASE CrashOnReceipt
  <2> DEFINE t == [NodeState EXCEPT !.rows = Append(@, "pending")]
  <2>1. t.rows = Append(rows, "pending") /\ t.results = results BY DEF NodeState
  <2>2. t = [NodeState EXCEPT !.rows = Append(@, "pending")] OBVIOUS
  <2> HIDE DEF t
  <2>3. Len(NodeState.rows) = Len(rows) BY <1>2
  <2>4. Len(rows) < Len(invoked) BY <1>5 DEF CrashOnReceipt
  <2>5. Progress(t) BY <1>1, <1>2, <2>2, <2>3, <2>4, ArrivalIsProgress
  <2>6. alive BY <1>5 DEF CrashOnReceipt, Connected
  <2> QED BY <1>5, <2>1, <2>5, <2>6, StopKeeps DEF CrashOnReceipt
<1> QED BY <1>3, <1>4, <1>5

LEMMA ReceiveKeeps == ASSUME IInv, Receive PROVE IInv'
<1>1. Typed /\ ProcessTyped BY DEF IInv, Typed
<1> DEFINE d == DrainUpTo(acked)
           n == Len(rows) + 1
           s == [d.s EXCEPT !.rows = Append(@, "processing")]
<1>2. alive /\ n <= Len(invoked) /\ deferred' = d.left BY DEF Receive, Connected
<1>3. \/ Dispatch(s, n, "handler", FALSE) /\ UNCHANGED <<phase, alive, cursor>>
      \/ Becomes(s) /\ SocketCloses(tasks) /\ UNCHANGED <<executing, starts>>
  BY DEF Receive
<1>4. UNCHANGED <<hub, acked, ipc>> BY DEF Receive
<1>5. Drained(d) BY <1>1, DrainIsProgress
<1>6. Len(rows) \in Nat /\ DOMAIN rows = 1 .. Len(rows) /\ Len(invoked) \in Nat BY <1>1 DEF Typed
<1>7. Progress(d.s) /\ Len(d.s.rows) = Len(rows) /\ deferred' \in Seq(Result)
  <2>1. d.s.rows \in Seq(RowState) BY <1>5 DEF Drained, Progress, NodeStates
  <2> HIDE DEF d
  <2>2. DOMAIN d.s.rows = 1 .. Len(d.s.rows) /\ Len(d.s.rows) \in Nat BY <2>1
  <2>3. DOMAIN d.s.rows = 1 .. Len(rows) BY <1>5, <1>6 DEF Drained
  <2> QED BY <1>2, <1>5, <1>6, <2>2, <2>3 DEF Drained
<1>8. Progress(s) /\ DOMAIN s.rows = 1 .. n /\ s.rows[n] = "processing"
  <2>1. s = [d.s EXCEPT !.rows = Append(@, "processing")] OBVIOUS
  <2> HIDE DEF d, s
  <2>2. Len(rows) < Len(invoked) BY <1>2, <1>6
  <2> DEFINE u == d.s
  <2>3. /\ Progress(u) /\ Len(u.rows) = Len(rows)
        /\ s = [u EXCEPT !.rows = Append(@, "processing")]
    BY <1>7, <2>1
  <2> HIDE DEF u
  <2>4. /\ Progress(s) /\ DOMAIN s.rows = 1 .. Len(rows) + 1
        /\ s.rows[Len(rows) + 1] = "processing"
    BY <1>1, <2>2, <2>3, ArrivalIsProgress
  <2> QED BY <2>4
<1> HIDE DEF d, s
<1>9. n \in DOMAIN s.rows /\ n \notin DOMAIN rows BY <1>6, <1>8
<1>10. ASSUME NEW t, Progress(t), Becomes(t), DOMAIN t.rows = DOMAIN s.rows, StartIsClaimed',
              tasks' \subseteq TasksOf(s.rows), executing' \subseteq Commands,
              starts' \in [Commands -> 0 .. 2], phase' \in {"offline", "starting", "recovering", "open"},
              alive' \in BOOLEAN, cursor' = cursor
       PROVE  IInv'
  <2>1. rows' = t.rows /\ t.rows \in Seq(RowState) BY <1>10 DEF Becomes, Progress, NodeStates
  <2>2. DOMAIN rows' = 1 .. n /\ Len(rows') = n
    <3>1. DOMAIN t.rows = 1 .. Len(t.rows) /\ Len(t.rows) \in Nat BY <2>1
    <3> QED BY <1>6, <1>8, <1>10, <2>1, <3>1
  <2>3. TasksOf(s.rows) = TasksOf(rows') BY <1>8, <2>2 DEF TasksOf
  <2>4. cursor' \in 0 .. Len(rows') BY <1>1, <1>6, <1>10, <2>2 DEF ProcessTyped
  <2>5. ProcessTyped' BY <1>1, <1>4, <1>7, <1>10, <2>3, <2>4 DEF ProcessTyped
  <2>6. acked' \in Nat /\ acked' <= hubGot BY <1>1, <1>4 DEF Typed
  <2> QED BY <1>2, <1>4, <1>10, <2>5, <2>6, NodeKeeps
<1>11. CASE Dispatch(s, n, "handler", FALSE) /\ UNCHANGED <<phase, alive, cursor>>
  <2>1. /\ \E t : Progress(t) /\ Becomes(t) /\ DOMAIN t.rows = DOMAIN s.rows
        /\ tasks' \subseteq TasksOf(s.rows) /\ executing' \subseteq Commands
        /\ starts' \in [Commands -> 0 .. 2] /\ StartIsClaimed'
    <3> HIDE DEF n
    <3> QED BY <1>4, <1>8, <1>9, <1>11, DispatchKeeps
  <2> QED BY <1>1, <1>10, <1>11, <2>1 DEF ProcessTyped
<1>12. CASE Becomes(s) /\ SocketCloses(tasks) /\ UNCHANGED <<executing, starts>>
  <2>1. tasks \subseteq TasksOf(s.rows) BY <1>1, <1>6, <1>8 DEF ProcessTyped, TasksOf
  <2>2. phase' \in {"offline", "starting", "recovering", "open"}
        /\ alive' = FALSE /\ cursor' = cursor /\ tasks' \subseteq TasksOf(s.rows)
    BY <1>1, <1>12, <2>1, ClosingIsTyped
  <2>3. StartIsClaimed' BY <1>1, <1>4, <1>8, <1>12, ClaimsRemain DEF IInv, StartIsClaimed, hub
  <2> QED BY <1>1, <1>8, <1>10, <1>12, <2>2, <2>3 DEF ProcessTyped
<1> QED BY <1>3, <1>11, <1>12

\* A step that moves the node on, leaves its socket and its claims alone, and
\* adds no row.
LEMMA AnswerKeeps ==
  ASSUME IInv, NEW s, Progress(s), Becomes(s), DOMAIN s.rows = DOMAIN rows,
         UNCHANGED <<hub, phase, alive, cursor, tasks, ipc, starts>>,
         acked' \in Nat, acked' <= hubGot, deferred' \in Seq(Result), executing' \subseteq Commands
  PROVE  IInv'
<1>1. Typed /\ ProcessTyped BY DEF IInv, Typed
<1>2. rows' = s.rows /\ s.rows \in Seq(RowState) /\ rows \in Seq(RowState)
  BY <1>1 DEF Becomes, Progress, NodeStates, Typed
<1>3. Len(rows') = Len(rows) BY <1>2
<1>4. TasksOf(rows') = TasksOf(rows) BY <1>2 DEF TasksOf
<1>5. ProcessTyped' BY <1>1, <1>3, <1>4 DEF ProcessTyped
<1>6. StartIsClaimed' BY <1>1, ClaimsRemain DEF IInv, StartIsClaimed, hub
<1> QED BY <1>5, <1>6, NodeKeeps

LEMMA ReceiveAckKeeps == ASSUME IInv, ReceiveAck PROVE IInv'
<1>1. Typed BY DEF IInv
<1>2. PICK a \in acked .. hubGot :
        /\ acked' = a /\ deferred' = DrainUpTo(a).left /\ Becomes(DrainUpTo(a).s)
  BY DEF ReceiveAck
<1>3. UNCHANGED <<hub, phase, alive, cursor, tasks, ipc, executing, starts>>
  BY DEF ReceiveAck, connector
<1>4. Drained(DrainUpTo(a)) BY <1>1, DrainIsProgress
<1>5. acked' \in Nat /\ acked' <= hubGot BY <1>1, <1>2 DEF Typed
<1>6. executing' \subseteq Commands BY <1>1, <1>3 DEF Typed, ProcessTyped
<1> QED BY <1>2, <1>3, <1>4, <1>5, <1>6, AnswerKeeps DEF Drained

LEMMA ConnectorResultKeeps ==
  ASSUME IInv, NEW c \in Commands, ConnectorResult(c)
  PROVE  IInv'
<1>1. Typed /\ ProcessTyped BY DEF IInv, Typed
<1>2. Progress(NodeState) /\ NodeState.rows = rows BY <1>1, NowIsProgress DEF NodeState
<1>3. executing' \subseteq Commands BY <1>1 DEF ConnectorResult, ProcessTyped
<1>4. UNCHANGED <<hub, acked, phase, alive, cursor, tasks, ipc, starts>> BY DEF ConnectorResult
<1>5. acked' \in Nat /\ acked' <= hubGot BY <1>1, <1>4 DEF Typed
<1>6. PICK r \in {"ok", "error"} :
        \/ /\ Becomes(AcceptConnectorResult(NodeState, [cmd |-> c, res |-> r]))
           /\ UNCHANGED deferred
        \/ /\ deferred' = Append(deferred, [cmd |-> c, res |-> r])
           /\ UNCHANGED <<rows, results, pending>>
  BY DEF ConnectorResult
<1>7. [cmd |-> c, res |-> r] \in Result BY DEF Result, Terminal
<1>8. CASE /\ Becomes(AcceptConnectorResult(NodeState, [cmd |-> c, res |-> r]))
           /\ UNCHANGED deferred
  <2>1. deferred' \in Seq(Result) BY <1>1, <1>8 DEF ProcessTyped
  <2>2. /\ Progress(AcceptConnectorResult(NodeState, [cmd |-> c, res |-> r]))
        /\ DOMAIN AcceptConnectorResult(NodeState, [cmd |-> c, res |-> r]).rows = DOMAIN rows
    BY <1>1, <1>2, <1>7, AcceptIsProgress
  <2> QED BY <1>3, <1>4, <1>5, <1>8, <2>1, <2>2, AnswerKeeps
<1>9. CASE /\ deferred' = Append(deferred, [cmd |-> c, res |-> r])
           /\ UNCHANGED <<rows, results, pending>>
  <2>1. deferred' \in Seq(Result)
    <3>1. deferred \in Seq(Result) BY <1>1 DEF ProcessTyped
    <3> QED BY <1>7, <1>9, <3>1
  <2>2. Becomes(NodeState) BY <1>9 DEF Becomes, NodeState
  <2> QED BY <1>2, <1>3, <1>4, <1>5, <2>1, <2>2, AnswerKeeps
<1> QED BY <1>6, <1>8, <1>9

LEMMA FinishTaskKeeps ==
  ASSUME IInv, NEW t \in tasks, FinishTask(t)
  PROVE  IInv'
<1>1. Typed /\ ProcessTyped BY DEF IInv, Typed
<1>2. t.row \in DOMAIN rows /\ tasks \subseteq TasksOf(rows)
  BY <1>1 DEF ProcessTyped, TasksOf
<1>3. Progress(NodeState) /\ NodeState.rows = rows BY <1>1, NowIsProgress DEF NodeState
<1>4. \E s : Progress(s) /\ Becomes(s) /\ DOMAIN s.rows = DOMAIN rows
  <2>1. PICK r \in {"ok", "error"} :
          \/ Becomes(Answer(NodeState, t.row, r))
          \/ Becomes(Record(NodeState, t.row, r))
          \/ Becomes(NodeState)
    BY DEF FinishTask, AnswerRefused
  <2>2. r \in Terminal BY DEF Terminal
  <2>3. /\ Progress(Answer(NodeState, t.row, r))
        /\ DOMAIN Answer(NodeState, t.row, r).rows = DOMAIN rows
    BY <1>1, <1>2, <1>3, <2>2, AnswerIsProgress
  <2>4. Progress(Record(NodeState, t.row, r)) /\ Record(NodeState, t.row, r).rows = rows
    BY <1>1, <1>2, <1>3, <2>2, RecordIsProgress
  <2> QED BY <1>3, <2>1, <2>3, <2>4
<1>5. PICK s : Progress(s) /\ Becomes(s) /\ DOMAIN s.rows = DOMAIN rows BY <1>4
<1>6. UNCHANGED <<hub, acked, deferred, ipc, executing, starts>> BY DEF FinishTask, connector
<1>7. phase' \in {"offline", "starting", "recovering", "open"} /\ alive' \in BOOLEAN
      /\ (alive' => alive) /\ cursor' = cursor /\ tasks' \subseteq TasksOf(rows)
  <2> DEFINE others == tasks \ {t}
  <2>1. others \subseteq TasksOf(rows) BY <1>2
  <2>2. \/ tasks' = others /\ UNCHANGED <<phase, alive, cursor>>
        \/ ConnectOnceThrows(others) \/ SocketCloses(others)
    BY DEF FinishTask
  <2> HIDE DEF others
  <2>3. CASE tasks' = others /\ UNCHANGED <<phase, alive, cursor>>
    BY <1>1, <2>1, <2>3 DEF ProcessTyped
  <2>4. CASE ConnectOnceThrows(others) \/ SocketCloses(others)
    BY <1>1, <2>1, <2>4, ClosingIsTyped
  <2> QED BY <2>2, <2>3, <2>4
<1>8. rows' = s.rows /\ s.rows \in Seq(RowState) /\ rows \in Seq(RowState)
  BY <1>1, <1>5 DEF Becomes, Progress, NodeStates, Typed
<1>9. Len(rows') = Len(rows) /\ TasksOf(rows') = TasksOf(rows)
  <2>1. DOMAIN rows' = DOMAIN rows BY <1>5, <1>8
  <2>2. Len(rows') = Len(rows) BY <1>8, <2>1
  <2> QED BY <2>1, <2>2 DEF TasksOf
<1>10. ProcessTyped' BY <1>1, <1>6, <1>7, <1>9 DEF ProcessTyped
<1>11. StartIsClaimed' BY <1>1, <1>5, <1>6, ClaimsRemain DEF IInv, StartIsClaimed, hub
<1>12. acked' \in Nat /\ acked' <= hubGot BY <1>1, <1>6 DEF Typed
<1> QED BY <1>5, <1>6, <1>7, <1>10, <1>11, <1>12, NodeKeeps

LEMMA RecoverRowKeeps == ASSUME IInv, RecoverRow PROVE IInv'
<1>1. Typed /\ ProcessTyped BY DEF IInv, Typed
<1> DEFINE n == NextToRecover
           s == ClaimRow(NodeState, n)
           wasClaimed == rows[n] = "processing"
<1>2. n \in DOMAIN rows /\ rows[n] # "processed"
  <2>1. RecoverableAfter # {} /\ RecoverableAfter \subseteq DOMAIN rows BY DEF RecoverRow, RecoverableAfter
  <2>2. DOMAIN rows \subseteq Nat BY <1>1 DEF Typed
  <2>3. \E m \in RecoverableAfter : \A k \in RecoverableAfter : m <= k BY <2>1, <2>2, Least
  <2>4. n \in RecoverableAfter BY <2>3 DEF NextToRecover
  <2> QED BY <2>4 DEF RecoverableAfter
<1>3. /\ \/ Dispatch(s, n, "recovery", wasClaimed) /\ cursor' = n /\ UNCHANGED <<phase, alive>>
         \/ Becomes(s) /\ ConnectOnceThrows(tasks) /\ UNCHANGED <<executing, starts>>
      /\ UNCHANGED <<hub, acked, deferred, ipc>>
  BY DEF RecoverRow
<1> HIDE DEF n
<1>4. Progress(s) /\ DOMAIN s.rows = DOMAIN rows /\ s.rows[n] = "processing"
  BY <1>1, <1>2, ClaimIsProgress
<1> HIDE DEF s
<1>5. TasksOf(s.rows) = TasksOf(rows) BY <1>4 DEF TasksOf
<1>6. acked' \in Nat /\ acked' <= hubGot BY <1>1, <1>3 DEF Typed
<1>7. ASSUME NEW t, Progress(t), Becomes(t), DOMAIN t.rows = DOMAIN rows, StartIsClaimed',
             tasks' \subseteq TasksOf(rows), executing' \subseteq Commands,
             starts' \in [Commands -> 0 .. 2], phase' \in {"offline", "starting", "recovering", "open"},
             alive' \in BOOLEAN, alive' => alive, cursor' \in 0 .. Len(rows)
      PROVE  IInv'
  <2>1. rows' = t.rows /\ t.rows \in Seq(RowState) /\ rows \in Seq(RowState)
    BY <1>1, <1>7 DEF Becomes, Progress, NodeStates, Typed
  <2>2. Len(rows') = Len(rows) /\ TasksOf(rows') = TasksOf(rows)
    <3>1. DOMAIN rows' = DOMAIN rows BY <1>7, <2>1
    <3>2. Len(rows') = Len(rows) BY <2>1, <3>1
    <3> QED BY <3>1, <3>2 DEF TasksOf
  <2>3. ProcessTyped' BY <1>1, <1>3, <1>7, <2>2 DEF ProcessTyped
  <2> QED BY <1>3, <1>6, <1>7, <2>3, NodeKeeps
<1>8. CASE Dispatch(s, n, "recovery", wasClaimed) /\ cursor' = n /\ UNCHANGED <<phase, alive>>
  <2>1. rows[n] \in RowState /\ wasClaimed \in BOOLEAN BY <1>1, <1>2 DEF Typed
  <2>2. ~wasClaimed => rows[n] = "pending" BY <1>2, <2>1 DEF RowState
  <2> HIDE DEF wasClaimed
  <2>3. /\ \E t : Progress(t) /\ Becomes(t) /\ DOMAIN t.rows = DOMAIN rows
        /\ tasks' \subseteq TasksOf(rows) /\ executing' \subseteq Commands
        /\ starts' \in [Commands -> 0 .. 2] /\ StartIsClaimed'
    BY <1>2, <1>3, <1>4, <1>5, <1>8, <2>1, <2>2, DispatchKeeps
  <2>4. cursor' \in 0 .. Len(rows) BY <1>1, <1>2, <1>8 DEF Typed
  <2> QED BY <1>1, <1>7, <1>8, <2>3, <2>4 DEF ProcessTyped
<1>9. CASE Becomes(s) /\ ConnectOnceThrows(tasks) /\ UNCHANGED <<executing, starts>>
  <2>1. phase' \in {"offline", "starting", "recovering", "open"}
        /\ alive' = FALSE /\ cursor' = cursor /\ tasks' \subseteq TasksOf(rows)
    BY <1>1, <1>9, ClosingIsTyped DEF ProcessTyped
  <2>2. StartIsClaimed' BY <1>1, <1>3, <1>4, <1>9, ClaimsRemain DEF IInv, StartIsClaimed, hub
  <2> QED BY <1>1, <1>4, <1>7, <1>9, <2>1, <2>2 DEF ProcessTyped
<1> QED BY <1>3, <1>8, <1>9

-----------------------------------------------------------------------------
(* The steps of the Hub *)

\* A command is created: queued, refused, or left pending by a crash.
LEMMA CreationKeeps ==
  ASSUME IInv, NEW c \in Commands, status[c] = "none", NEW st \in Status \ {"none"},
         status' = [status EXCEPT ![c] = st],
         invoked' = invoked \/ invoked' = Append(invoked, c),
         st = "sent" => invoked' = Append(invoked, c), st = "pending" => ~alive',
         UNCHANGED <<hubGot, hubDone, rows, results, acked, pending, starts>>,
         ProcessTyped', alive' => alive
  PROVE  IInv'
<1>1. Typed BY DEF IInv
<1>2. /\ status' \in [Commands -> Status] /\ status'[c] = st
      /\ \A d \in Commands : d # c => status'[d] = status[d]
  BY <1>1 DEF Typed
<1>3. invoked \in Seq(Commands) /\ Len(invoked) \in Nat /\ DOMAIN invoked = 1 .. Len(invoked)
  BY <1>1 DEF Typed
<1>4. /\ invoked' \in Seq(Commands) /\ Len(invoked) <= Len(invoked')
      /\ \A n \in DOMAIN invoked : n \in DOMAIN invoked' /\ invoked'[n] = invoked[n]
      /\ \A n \in DOMAIN invoked' : n \in DOMAIN invoked \/ (n = Len(invoked) + 1 /\ invoked'[n] = c)
  <2>1. CASE invoked' = invoked
    <3>1. DOMAIN invoked' = DOMAIN invoked /\ Len(invoked') = Len(invoked) BY <2>1
    <3>2. \A n \in DOMAIN invoked : invoked'[n] = invoked[n] BY <2>1
    <3>3. invoked' \in Seq(Commands) BY <1>3, <2>1
    <3>4. Len(invoked) <= Len(invoked')
      <4>1. Len(invoked) <= Len(invoked) BY <1>3
      <4> QED BY <3>1, <4>1, Zenon
    <3>5. /\ \A n \in DOMAIN invoked : n \in DOMAIN invoked' /\ invoked'[n] = invoked[n]
          /\ \A n \in DOMAIN invoked' : n \in DOMAIN invoked
      BY <3>1, <3>2, Zenon
    <3> QED BY <3>3, <3>4, <3>5
  <2>2. CASE invoked' = Append(invoked, c) BY <1>3, <2>2
  <2> QED BY <2>1, <2>2
<1>5. /\ \A n \in DOMAIN invoked : invoked[n] # c
      /\ \A n \in DOMAIN invoked : invoked[n] \in Commands
  BY <1>3 DEF IInv, QueuedIsCreated
<1>6. /\ Len(rows) \in Nat /\ Len(rows) <= Len(invoked) /\ DOMAIN rows = 1 .. Len(rows)
      /\ DOMAIN rows \subseteq DOMAIN invoked
  BY <1>1, <1>3 DEF Typed
<1>7. Typed'
  <2>1. Len(rows') <= Len(invoked') /\ rows' = rows
    <3>1. Len(invoked') \in Nat BY <1>4
    <3> QED BY <1>3, <1>4, <1>6, <3>1
  <2> QED BY <1>1, <1>2, <1>4, <2>1 DEF Typed
<1>8. OneAtATime' BY DEF IInv, OneAtATime
<1>9. FinishedIsSettled'
  <2> SUFFICES ASSUME NEW i \in 1 .. hubDone PROVE status'[results[i].cmd] \in Terminal
    BY DEF FinishedIsSettled
  <2>1. status[results[i].cmd] \in Terminal BY DEF IInv, FinishedIsSettled
  <2>2. i \in DOMAIN results BY <1>1 DEF Typed
  <2>3. results[i].cmd \in Commands
    <3>1. results[i] \in Result BY <1>1, <2>2 DEF Typed
    <3> QED BY <3>1 DEF Result
  <2>4. results[i].cmd # c BY <2>1 DEF Terminal
  <2> QED BY <1>2, <2>1, <2>3, <2>4
<1>10. InvokedOnce' BY <1>4, <1>5 DEF IInv, InvokedOnce
<1>11. QueuedIsCreated' BY <1>2, <1>4, <1>5 DEF IInv, QueuedIsCreated
<1>12. PendingIsHeld'
  <2> SUFFICES ASSUME NEW d \in Commands, status'[d] = "pending"
               PROVE  ~alive' /\ \A n \in DOMAIN rows : invoked'[n] # d
    BY DEF PendingIsHeld
  <2>1. \A n \in DOMAIN rows : invoked'[n] = invoked[n] BY <1>4, <1>6
  <2>2. CASE d = c BY <1>2, <1>5, <1>6, <2>1, <2>2
  <2>3. CASE d # c BY <1>2, <2>1, <2>3 DEF IInv, PendingIsHeld
  <2> QED BY <2>2, <2>3
<1>13. SentIsOwed'
  <2> SUFFICES ASSUME NEW d \in Commands, status'[d] = "sent"
               PROVE  \/ \E n \in DOMAIN invoked' :
                           invoked'[n] = d /\ (n > Len(rows) \/ rows[n] # "processed")
                      \/ \E i \in hubDone + 1 .. Len(results) : results[i].cmd = d
    BY DEF SentIsOwed
  <2>1. CASE d = c
    <3>1. invoked' = Append(invoked, c) BY <1>2, <2>1
    <3>2. Len(invoked) + 1 \in DOMAIN invoked' /\ invoked'[Len(invoked) + 1] = c
      BY <1>3, <3>1
    <3> QED BY <1>3, <1>6, <2>1, <3>2
  <2>2. CASE d # c
    <3>1. \/ \E n \in DOMAIN invoked : invoked[n] = d /\ (n > Len(rows) \/ rows[n] # "processed")
          \/ \E i \in hubDone + 1 .. Len(results) : results[i].cmd = d
      BY <1>2, <2>2 DEF IInv, SentIsOwed
    <3> QED BY <1>4, <3>1
  <2> QED BY <2>1, <2>2
<1>14. StartIsClaimed'
  <2>1. \A n \in DOMAIN rows : invoked'[n] = invoked[n] BY <1>4, <1>6
  <2> QED BY <2>1 DEF IInv, StartIsClaimed
<1> QED BY <1>7, <1>8, <1>9, <1>10, <1>11, <1>12, <1>13, <1>14 DEF IInv

\* The Hub accepts a result, and finishes it or crashes before it has.
LEMMA ResultKeeps ==
  ASSUME IInv, hubGot < Len(results), hubDone = hubGot, hubGot' = hubGot + 1,
         \/ status' = Settle(status, results[hubGot + 1]) /\ hubDone' = hubDone + 1
         \/ /\ status' = status \/ status' = Settle(status, results[hubGot + 1])
            /\ hubDone' = hubDone /\ ~alive',
         UNCHANGED <<invoked, rows, results, acked, pending, starts>>,
         ProcessTyped', alive' => alive
  PROVE  IInv'
<1> DEFINE r == results[hubGot + 1]
<1>1. Typed BY DEF IInv
<1>2. /\ hubGot \in Nat /\ hubDone \in Nat /\ acked \in Nat /\ acked <= hubGot
      /\ Len(results) \in Nat /\ DOMAIN results = 1 .. Len(results)
  BY <1>1 DEF Typed
<1>3. r \in Result
  <2>1. hubGot + 1 \in DOMAIN results BY <1>2
  <2> QED BY <1>1, <2>1 DEF Typed
<1>4. r.cmd \in Commands /\ \A i \in DOMAIN results : results[i].cmd \in Commands
  <2>1. \A i \in DOMAIN results : results[i] \in Result BY <1>1 DEF Typed
  <2> QED BY <1>3, <2>1 DEF Result
<1>5. /\ status' \in [Commands -> Status]
      /\ \A c \in Commands : \/ status'[c] = status[c]
                             \/ c = r.cmd /\ status[c] \notin Terminal /\ status'[c] \in Terminal
      /\ hubDone' = hubDone \/ (hubDone' = hubDone + 1 /\ status'[r.cmd] \in Terminal)
  <2>1. CASE status' = Settle(status, r)
    <3> HIDE DEF r
    <3> QED BY <1>1, <1>3, <2>1, SettleKeeps
  <2>2. CASE status' = status /\ hubDone' = hubDone BY <1>1, <2>2 DEF Typed
  <2> QED BY <2>1, <2>2
<1>6. Typed' BY <1>1, <1>2, <1>5 DEF Typed
<1>7. OneAtATime' BY <1>2 DEF IInv, OneAtATime
<1>8. FinishedIsSettled'
  <2> SUFFICES ASSUME NEW i \in 1 .. hubDone' PROVE status'[results[i].cmd] \in Terminal
    BY DEF FinishedIsSettled
  <2>1. CASE i = hubDone + 1 BY <1>2, <1>5, <2>1
  <2>2. CASE i \in 1 .. hubDone
    <3>1. status[results[i].cmd] \in Terminal BY <2>2 DEF IInv, FinishedIsSettled
    <3>2. results[i].cmd \in Commands BY <1>2, <1>4, <2>2
    <3> QED BY <1>5, <3>1, <3>2
  <2> QED BY <1>2, <1>5, <2>1, <2>2
<1>9. InvokedOnce' /\ StartIsClaimed' BY DEF IInv, InvokedOnce, StartIsClaimed
<1>10. \A c \in Commands : status'[c] \in {"none", "pending", "sent"} => status'[c] = status[c]
  BY <1>5 DEF Terminal
<1>11. QueuedIsCreated' /\ PendingIsHeld'
  <2>1. \A n \in DOMAIN invoked : invoked[n] \in Commands BY <1>1 DEF Typed
  <2>2. QueuedIsCreated' BY <1>10, <2>1 DEF IInv, QueuedIsCreated
  <2>3. PendingIsHeld' BY <1>10 DEF IInv, PendingIsHeld
  <2> QED BY <2>2, <2>3
<1>12. SentIsOwed'
  <2> SUFFICES ASSUME NEW c \in Commands, status'[c] = "sent"
               PROVE  \/ \E n \in DOMAIN invoked :
                           invoked[n] = c /\ (n > Len(rows) \/ rows[n] # "processed")
                      \/ \E i \in hubDone' + 1 .. Len(results) : results[i].cmd = c
    BY DEF SentIsOwed
  <2>1. \/ \E n \in DOMAIN invoked : invoked[n] = c /\ (n > Len(rows) \/ rows[n] # "processed")
        \/ \E i \in hubDone + 1 .. Len(results) : results[i].cmd = c
    BY <1>10 DEF IInv, SentIsOwed
  <2>2. ASSUME NEW i \in hubDone + 1 .. Len(results), results[i].cmd = c
        PROVE  i \in hubDone' + 1 .. Len(results)
    <3>1. CASE hubDone' = hubDone BY <3>1
    <3>2. CASE hubDone' = hubDone + 1 /\ status'[r.cmd] \in Terminal
      <4>1. c # r.cmd BY <3>2 DEF Terminal
      <4>2. i # hubDone + 1 BY <2>2, <4>1
      <4> QED BY <1>2, <3>2, <4>2
    <3> QED BY <1>5, <3>1, <3>2
  <2> QED BY <2>1, <2>2
<1> QED BY <1>6, <1>7, <1>8, <1>9, <1>11, <1>12 DEF IInv

LEMMA ConnectKeeps == ASSUME IInv, Connect PROVE IInv'
<1> DEFINE s0 == [status |-> HubRecovered, invoked |-> invoked, failed |-> FALSE]
           s == RequeueAll(s0)
<1>1. Typed /\ ProcessTyped BY DEF IInv, Typed
<1>2. /\ status' = s.status /\ invoked' = s.invoked /\ alive' = ~s.failed
      /\ hubDone' = hubGot /\ acked' = hubGot /\ phase' = "starting" /\ cursor' = 0
      /\ UNCHANGED <<hubGot, rows, results, tasks, pending, deferred, ipc, executing, starts>>
  BY DEF Connect, connector
<1>3. PICK done :
        /\ Requeued(s, done)
        /\ \A c \in done : HubRecovered[c] = "pending"
        /\ \A c \in Commands : HubRecovered[c] = "pending" => c \in done
  <2>1. s0 = [status |-> HubRecovered, invoked |-> invoked, failed |-> FALSE] OBVIOUS
  <2> HIDE DEF s0
  <2> QED BY <2>1, RequeueAllKeeps
<1> HIDE DEF s
<1>4. /\ HubRecovered \in [Commands -> Status]
      /\ hubDone < hubGot => HubRecovered[results[hubGot].cmd] \in Terminal
      /\ \A c \in Commands : \/ HubRecovered[c] = status[c]
                             \/ status[c] \notin Terminal /\ HubRecovered[c] \in Terminal
  BY <1>1, RecoveredKeeps
<1>5. /\ status' \in [Commands -> Status] /\ invoked' \in Seq(Commands) /\ alive' \in BOOLEAN
      /\ \A c \in Commands :
           \/ status'[c] = HubRecovered[c]
           \/ /\ HubRecovered[c] = "pending" /\ status'[c] = "sent"
              /\ \E n \in DOMAIN invoked' : n > Len(rows) /\ invoked'[n] = c
  BY <1>2, <1>3 DEF Requeued, HubStates
<1>6. /\ Len(invoked) \in Nat /\ DOMAIN invoked = 1 .. Len(invoked)
      /\ Len(rows) \in Nat /\ DOMAIN rows = 1 .. Len(rows) /\ Len(rows) <= Len(invoked)
      /\ DOMAIN results = 1 .. Len(results) /\ Len(results) \in Nat
      /\ hubGot \in Nat /\ hubDone \in Nat /\ hubGot <= Len(results) /\ hubDone <= hubGot
      /\ hubGot <= hubDone + 1
  BY <1>1 DEF Typed, IInv, OneAtATime
<1>7. /\ Len(invoked') \in Nat /\ DOMAIN invoked' = 1 .. Len(invoked') /\ Len(invoked) <= Len(invoked')
      /\ \A n \in DOMAIN invoked : n \in DOMAIN invoked' /\ invoked'[n] = invoked[n]
      /\ \A n \in DOMAIN invoked' : n \in DOMAIN invoked \/ invoked'[n] \in done
  <2>1. Len(invoked') \in Nat /\ DOMAIN invoked' = 1 .. Len(invoked') BY <1>5
  <2>2. Len(invoked) <= Len(invoked') BY <1>2, <1>3 DEF Requeued
  <2>3. \A n \in DOMAIN invoked : n \in DOMAIN invoked' BY <1>6, <2>1, <2>2
  <2>4. \A n \in DOMAIN invoked' : n \in DOMAIN invoked \/ n > Len(invoked) BY <1>6, <2>1
  <2> QED BY <1>2, <1>3, <2>1, <2>2, <2>3, <2>4 DEF Requeued
<1>8. \A c \in Commands : status[c] \in Terminal => status'[c] \in Terminal
  <2>1. "pending" \notin Terminal BY DEF Terminal
  <2> QED BY <1>4, <1>5, <2>1
<1>9. Typed'
  <2>1. ProcessTyped' BY <1>1, <1>2, <1>5, <1>6 DEF ProcessTyped
  <2>2. Len(rows) <= Len(invoked') BY <1>6, <1>7
  <2> QED BY <1>1, <1>2, <1>5, <1>6, <2>1, <2>2 DEF Typed
<1>10. OneAtATime' BY <1>2, <1>6 DEF OneAtATime
<1>11. FinishedIsSettled'
  <2> SUFFICES ASSUME NEW i \in 1 .. hubGot PROVE status'[results[i].cmd] \in Terminal
    BY <1>2 DEF FinishedIsSettled
  <2>0. i \in DOMAIN results BY <1>6
  <2>1. results[i].cmd \in Commands
    <3>1. results[i] \in Result BY <1>1, <2>0 DEF Typed
    <3> QED BY <3>1 DEF Result
  <2>2. CASE i \in 1 .. hubDone
    <3>1. status[results[i].cmd] \in Terminal BY <2>2 DEF IInv, FinishedIsSettled
    <3> QED BY <1>8, <2>1, <3>1
  <2>3. CASE i = hubGot /\ hubDone < hubGot
    <3>1. "pending" \notin Terminal BY DEF Terminal
    <3> QED BY <1>4, <1>5, <2>1, <2>3, <3>1
  <2> QED BY <1>6, <2>2, <2>3
<1>12. InvokedOnce' BY <1>2, <1>3 DEF Requeued, InvokedOnce
<1>13. QueuedIsCreated'
  <2> SUFFICES ASSUME NEW n \in DOMAIN invoked' PROVE status'[invoked'[n]] # "none"
    BY DEF QueuedIsCreated
  <2>1. invoked'[n] \in Commands BY <1>5
  <2>2. CASE n \in DOMAIN invoked
    <3>1. invoked'[n] = invoked[n] /\ status[invoked[n]] # "none"
      BY <1>7, <2>2 DEF IInv, QueuedIsCreated
    <3>2. HubRecovered[invoked[n]] # "none" BY <1>4, <2>1, <3>1 DEF Terminal
    <3> QED BY <1>5, <2>1, <3>1, <3>2
  <2>3. CASE invoked'[n] \in done BY <1>3, <1>5, <2>1, <2>3
  <2> QED BY <1>7, <2>2, <2>3
<1>14. PendingIsHeld'
  <2> SUFFICES ASSUME NEW c \in Commands, status'[c] = "pending"
               PROVE  ~alive' /\ \A n \in DOMAIN rows : invoked'[n] # c
    BY <1>2 DEF PendingIsHeld
  <2>1. HubRecovered[c] = "pending" BY <1>5
  <2>2. status[c] = "pending" BY <1>4, <2>1 DEF Terminal
  <2>3. c \in done BY <1>3, <2>1
  <2>4. ~alive'
    <3>1. s.failed BY <1>2, <1>3, <2>3 DEF Requeued
    <3> QED BY <1>2, <3>1
  <2>5. \A n \in DOMAIN rows : invoked[n] # c BY <2>2 DEF IInv, PendingIsHeld
  <2>6. \A n \in DOMAIN rows : invoked'[n] = invoked[n] BY <1>6, <1>7
  <2> QED BY <2>4, <2>5, <2>6
<1>15. StartIsClaimed'
  <2>1. \A n \in DOMAIN rows : invoked'[n] = invoked[n] BY <1>6, <1>7
  <2> QED BY <1>2, <2>1 DEF IInv, StartIsClaimed
<1>16. SentIsOwed'
  <2> SUFFICES ASSUME NEW c \in Commands, status'[c] = "sent"
               PROVE  \/ \E n \in DOMAIN invoked' :
                           invoked'[n] = c /\ (n > Len(rows) \/ rows[n] # "processed")
                      \/ \E i \in hubGot + 1 .. Len(results) : results[i].cmd = c
    BY <1>2 DEF SentIsOwed
  <2>1. CASE \E n \in DOMAIN invoked' : n > Len(rows) /\ invoked'[n] = c BY <2>1
  <2>2. CASE HubRecovered[c] = "sent"
    <3>1. status[c] = "sent" BY <1>4, <2>2 DEF Terminal
    <3>2. CASE \E n \in DOMAIN invoked : invoked[n] = c /\ (n > Len(rows) \/ rows[n] # "processed")
      BY <1>7, <3>2
    <3>3. CASE \E i \in hubDone + 1 .. Len(results) : results[i].cmd = c
      <4>1. PICK i \in hubDone + 1 .. Len(results) : results[i].cmd = c BY <3>3
      <4>2. ~(i = hubGot /\ hubDone < hubGot) BY <1>4, <2>2, <4>1 DEF Terminal
      <4>3. i \in hubGot + 1 .. Len(results) BY <1>6, <4>2
      <4> QED BY <4>1, <4>3
    <3> QED BY <3>1, <3>2, <3>3 DEF IInv, SentIsOwed
  <2> QED BY <1>5, <2>1, <2>2
<1> QED BY <1>9, <1>10, <1>11, <1>12, <1>13, <1>14, <1>15, <1>16 DEF IInv

LEMMA InvokeKeeps == ASSUME IInv, NEW c \in Commands, Invoke(c) PROVE IInv'
<1>1. status[c] = "none" BY DEF Invoke, MayCreate
<1>2. PICK st \in {"sent", "error"} :
        /\ status' = [status EXCEPT ![c] = st]
        /\ \/ st = "sent" /\ invoked' = Append(invoked, c)
           \/ st = "error" /\ invoked' = invoked
  BY DEF Invoke
<1>3. st \in Status \ {"none"} /\ st # "pending" BY DEF Status, Terminal
<1>4. UNCHANGED <<hubGot, hubDone, rows, results, acked, process, connector, starts>>
  BY DEF Invoke
<1>5. pending' = pending /\ alive' = alive BY <1>4 DEF process
<1>6. ProcessTyped' BY <1>4 DEF IInv, Typed, ProcessTyped, process, connector
<1> QED BY <1>1, <1>2, <1>3, <1>4, <1>5, <1>6, CreationKeeps

LEMMA HubReceiveKeeps == ASSUME IInv, HubReceive PROVE IInv'
<1>1. hubDone = hubGot BY DEF HubReceive, Connected, IInv, OneAtATime
<1>2. /\ hubGot < Len(results) /\ hubGot' = hubGot + 1 /\ hubDone' = hubDone + 1
      /\ status' = Settle(status, results[hubGot + 1])
      /\ UNCHANGED <<invoked, rows, results, acked, process, connector, starts>>
  BY <1>1 DEF HubReceive
<1>3. pending' = pending /\ alive' = alive BY <1>2 DEF process
<1>4. ProcessTyped' BY <1>2 DEF IInv, Typed, ProcessTyped, process, connector
<1> QED BY <1>1, <1>2, <1>3, <1>4, ResultKeeps

LEMMA HubCrashKeeps == ASSUME IInv, HubCrash PROVE IInv'
<1>1. Typed /\ ProcessTyped BY DEF IInv, Typed
<1>2. /\ SocketCloses(tasks)
      /\ UNCHANGED <<rows, results, acked, pending, deferred, ipc, executing, starts>>
  BY DEF HubCrash, HubStops, connector
<1>3. phase' \in {"offline", "starting", "recovering", "open"}
      /\ alive' = FALSE /\ cursor' = cursor /\ tasks' \subseteq TasksOf(rows)
  BY <1>1, <1>2, ClosingIsTyped DEF ProcessTyped
<1>4. ProcessTyped' BY <1>1, <1>2, <1>3 DEF ProcessTyped
<1>5. CASE UNCHANGED hub BY <1>2, <1>3, <1>4, <1>5, QuietKeeps
<1>6. CASE \E c \in Commands :
             /\ MayCreate(c)
             /\ status' = [status EXCEPT ![c] = "pending"]
             /\ invoked' \in {invoked} \cup
                             (IF HubHasRoom(invoked) THEN {Append(invoked, c)} ELSE {})
             /\ UNCHANGED <<hubGot, hubDone>>
  <2>1. PICK c \in Commands :
          /\ status[c] = "none" /\ status' = [status EXCEPT ![c] = "pending"]
          /\ invoked' = invoked \/ invoked' = Append(invoked, c)
          /\ UNCHANGED <<hubGot, hubDone>>
    BY <1>6 DEF MayCreate
  <2>2. "pending" \in Status \ {"none"} BY DEF Status
  <2>3. alive' = FALSE BY <1>3
  <2> QED BY <1>2, <1>4, <2>1, <2>2, <2>3, CreationKeeps
<1>7. CASE /\ Connected /\ hubGot < Len(results) /\ hubGot' = hubGot + 1
           /\ status' \in {status, Settle(status, results[hubGot + 1])}
           /\ UNCHANGED <<invoked, hubDone>>
  <2>1. hubDone = hubGot BY <1>7 DEF Connected, IInv, OneAtATime
  <2> QED BY <1>2, <1>3, <1>4, <1>7, <2>1, ResultKeeps
<1> QED BY <1>5, <1>6, <1>7 DEF HubCrash

-----------------------------------------------------------------------------
(* Theorems *)

LEMMA Initially == Init => IInv
<1> SUFFICES ASSUME Init PROVE IInv OBVIOUS
<1>1. <<>> \in Seq(Commands) /\ <<>> \in Seq(RowState) /\ <<>> \in Seq(Result) /\ Len(<<>>) = 0
  OBVIOUS
<1>2. [c \in Commands |-> "none"] \in [Commands -> Status] BY DEF Status
<1>3. ProcessTyped
  <2>1. cursor \in 0 .. Len(rows) /\ deferred \in Seq(Result) BY <1>1 DEF Init
  <2>2. starts \in [Commands -> 0 .. 2] BY DEF Init
  <2>3. tasks \subseteq TasksOf(rows) /\ executing \subseteq Commands BY DEF Init
  <2> QED BY <2>1, <2>2, <2>3 DEF Init, ProcessTyped
<1>4. Typed BY <1>1, <1>2, <1>3 DEF Init, Typed
<1>5. NeverRetry \subseteq Commands BY CommandAssumption DEF CommandAssumption
<1>6. \A c \in Commands : status[c] = "none" /\ starts[c] = 0 BY DEF Init
<1>7. OneAtATime /\ FinishedIsSettled BY DEF Init, OneAtATime, FinishedIsSettled
<1>8. InvokedOnce /\ QueuedIsCreated
  <2>1. DOMAIN invoked = {} BY DEF Init
  <2> QED BY <2>1 DEF InvokedOnce, QueuedIsCreated
<1>9. PendingIsHeld /\ SentIsOwed BY <1>6 DEF PendingIsHeld, SentIsOwed
<1>10. StartIsClaimed BY <1>5, <1>6 DEF StartIsClaimed
<1> QED BY <1>4, <1>7, <1>8, <1>9, <1>10 DEF IInv

LEMMA StepKeeps == IInv /\ [Next]_vars => IInv'
<1> SUFFICES ASSUME IInv, [Next]_vars PROVE IInv' OBVIOUS
<1>1. ASSUME NEW c \in Commands, Invoke(c) PROVE IInv' BY <1>1, InvokeKeeps
<1>2. ASSUME NEW c \in Commands, ConnectorResult(c) PROVE IInv' BY <1>2, ConnectorResultKeeps
<1>3. CASE HubReceive BY <1>3, HubReceiveKeeps
<1>4. CASE HubCrash BY <1>4, HubCrashKeeps
<1>5. CASE Connect BY <1>5, ConnectKeeps
<1>6. CASE Receive BY <1>6, ReceiveKeeps
<1>7. CASE ReceiveAck BY <1>7, ReceiveAckKeeps
<1>8. CASE RecoverRow BY <1>8, RecoverRowKeeps
<1>9. CASE StartRecovery \/ FinishRecovery \/ DropSocket \/ ExpireAuthentication
           \/ IpcLost \/ IpcRestored
  BY <1>9, SocketSteps
<1>10. ASSUME NEW t \in tasks, FinishTask(t) PROVE IInv' BY <1>10, FinishTaskKeeps
<1>11. CASE NodeCrash \/ CrashAfterRecord \/ CrashOnReceipt BY <1>11, CrashSteps
<1>12. CASE UNCHANGED vars
  <2>1. UNCHANGED <<hub, rows, results, acked, pending, starts>>
        /\ UNCHANGED <<phase, alive, cursor, tasks, deferred, ipc, executing>>
    BY <1>12 DEF vars, process, connector
  <2>2. ProcessTyped' BY <2>1 DEF IInv, Typed, ProcessTyped
  <2> QED BY <2>1, <2>2, QuietKeeps
<1> QED
  BY <1>1, <1>2, <1>3, <1>4, <1>5, <1>6, <1>7, <1>8, <1>9, <1>10, <1>11, <1>12 DEF Next

LEMMA Invariance == Spec => []IInv
<1>1. Init => IInv BY Initially
<1>2. IInv /\ [Next]_vars => IInv' BY StepKeeps
<1> QED BY <1>1, <1>2, PTL DEF Spec

\* Every variable of the Hub, of the Node Agent and of the Connector keeps its
\* type, whatever stops and whatever the outboxes refuse.
THEOREM DeliveryTypes == Spec => []TypeOK
<1>1. IInv => TypeOK
  <2> SUFFICES ASSUME IInv PROVE TypeOK OBVIOUS
  <2>1. Typed /\ ProcessTyped BY DEF IInv, Typed
  <2>2. rows \in Seq({"pending", "processing", "processed"}) /\ DOMAIN rows \subseteq Nat
    BY <2>1 DEF Typed, RowState
  <2>3. tasks \subseteq Task BY <2>1, <2>2 DEF ProcessTyped, TasksOf, Task
  <2> QED BY <2>1, <2>2, <2>3 DEF TypeOK, Typed, ProcessTyped
<1> QED BY <1>1, Invariance, PTL

\* A command the Hub believes delivered is owed by somebody, for any number of
\* commands, crashes and lost sockets: no row is finished without its result,
\* and no result is accepted without settling its command.
THEOREM SentStaysOwed == Spec => []SentIsOwed
<1>1. IInv => SentIsOwed BY DEF IInv
<1> QED BY <1>1, Invariance, PTL

\* A command is queued for its node once, although a Hub may stop between its
\* transactions and repeats its recovery, and a never-retry operation is started
\* at most once, although its row is recovered after every connection.
THEOREM StartedAtMostOnce == Spec => []AtMostOnce
<1>1. IInv => AtMostOnce BY DEF IInv, InvokedOnce, StartIsClaimed, AtMostOnce
<1> QED BY <1>1, Invariance, PTL

=============================================================================
