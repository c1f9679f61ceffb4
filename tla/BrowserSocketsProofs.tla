------------------------- MODULE BrowserSocketsProofs -------------------------
(***************************************************************************)
(* Theorems about BrowserSockets, for any number of runtimes, frames,      *)
(* keystrokes, answers and faults and any limit of the writer.             *)
(***************************************************************************)
EXTENDS BrowserSockets, TLAPS

-----------------------------------------------------------------------------
(* The inductive invariant *)

\* The writer holds what the browser still has to get, until it is shut.
StreamInOrder ==
  /\ \A i \in DOMAIN got : got[i] = i
  /\ shut => socket # "open"
  /\ socket = "open" => /\ Len(got) + Len(queue) = frames
                        /\ \A i \in DOMAIN queue : queue[i] = Len(got) + i

\* A question nobody has tried to answer is remembered.
QuestionsRemembered ==
  \A r \in Runtimes : asked[r] # 0 /\ attempts[r] = 0 => r \in remembered

IsWrite(k) == ops[k].op = "write"

\* Input moves from the chain to the supervisor to the PTY, the older ahead.
PipelineInOrder ==
  /\ \A i, k \in DOMAIN written : i < k => written[i] < written[k]
  /\ \A i, k \in DOMAIN ops : IsWrite(i) /\ IsWrite(k) /\ i < k => ops[i].n < ops[k].n
  /\ \A i, k \in DOMAIN typed : i < k => typed[i] < typed[k]
  /\ \A i \in DOMAIN written, k \in DOMAIN ops : IsWrite(k) => written[i] < ops[k].n
  /\ \A i \in DOMAIN written, k \in DOMAIN typed : written[i] < typed[k]
  /\ \A i \in DOMAIN ops, k \in DOMAIN typed : IsWrite(i) => ops[i].n < typed[k]
  /\ \A i \in DOMAIN written : written[i] <= typedCount
  /\ \A i \in DOMAIN ops : IsWrite(i) => ops[i].n <= typedCount
  /\ \A i \in DOMAIN typed : typed[i] <= typedCount

IInv == TypeOK /\ StreamInOrder /\ QuestionsRemembered /\ AnswersGoHome /\ PipelineInOrder

-----------------------------------------------------------------------------
LEMMA Bounds ==
  /\ MaxRuntimes \in Nat \ {0} /\ MaxPending \in Nat \ {0}
  /\ MaxFrames \in Nat /\ MaxInputs \in Nat /\ MaxAttempts \in Nat /\ MaxFaults \in Nat
BY SocketAssumption DEF SocketAssumption

LEMMA HeadTail ==
  ASSUME NEW S, NEW q \in Seq(S), q # <<>>
  PROVE  /\ Head(q) \in S /\ Tail(q) \in Seq(S) /\ Head(q) = q[1] /\ 1 \in DOMAIN q
         /\ Len(q) \in Nat /\ Len(q) > 0 /\ Len(Tail(q)) = Len(q) - 1
         /\ \A i \in DOMAIN Tail(q) : i + 1 \in DOMAIN q /\ Tail(q)[i] = q[i + 1] /\ 1 < i + 1 /\ i \in Nat
OBVIOUS

LEMMA Appended ==
  ASSUME NEW S, NEW q \in Seq(S), NEW x \in S
  PROVE  /\ Append(q, x) \in Seq(S) /\ Len(Append(q, x)) = Len(q) + 1 /\ Len(q) \in Nat
         /\ \A i \in DOMAIN Append(q, x) :
              /\ i \in Nat
              /\ \/ i \in DOMAIN q /\ Append(q, x)[i] = q[i]
                 \/ i = Len(q) + 1 /\ Append(q, x)[i] = x /\ \A k \in DOMAIN q : k < i
OBVIOUS

LEMMA Elements ==
  ASSUME NEW S, NEW q \in Seq(S)
  PROVE  \A i \in DOMAIN q : q[i] \in S
OBVIOUS

LEMMA InitHolds == Init => IInv
<1> SUFFICES ASSUME Init PROVE IInv OBVIOUS
<1> USE Bounds
<1>4. /\ frames \in 0 .. MaxFrames /\ asked \in [Runtimes -> 0 .. MaxFrames]
      /\ attempts \in [Runtimes -> 0 .. MaxAttempts] /\ typedCount \in 0 .. MaxInputs
      /\ faults \in 0 .. MaxFaults
  BY DEF Init
<1>5. Len(queue) <= MaxPending BY DEF Init
<1>6. {silent, awaiting, shut} \subseteq BOOLEAN BY DEF Init
<1>7. /\ got \in Seq(1 .. MaxFrames) /\ queue \in Seq(1 .. MaxFrames)
      /\ typed \in Seq(1 .. MaxInputs) /\ written \in Seq(1 .. MaxInputs)
      /\ ops \in Seq(Command) /\ results \in Seq([of : Command, ok : BOOLEAN])
  BY DEF Init
<1>8. /\ kind \in {"stream", "terminal"} /\ socket \in {"open", "closing", "closed"}
      /\ online \subseteq Runtimes /\ remembered \subseteq Runtimes
      /\ replies \subseteq [of : Runtimes, to : Runtimes, again : BOOLEAN]
      /\ phase \in {"start", "opening", "announcing", "serving", "ending", "ended", "failed"}
      /\ awaited \in Command \cup {Nothing} /\ pty \in {"none", "running", "gone"}
  BY DEF Init
<1>1. TypeOK BY <1>4, <1>5, <1>6, <1>7, <1>8 DEF TypeOK
<1>2. StreamInOrder /\ QuestionsRemembered /\ AnswersGoHome
  BY DEF Init, StreamInOrder, QuestionsRemembered, AnswersGoHome
<1>3. PipelineInOrder BY DEF Init, PipelineInOrder
<1> QED BY <1>1, <1>2, <1>3 DEF IInv

-----------------------------------------------------------------------------
(* Types *)

LEMMA SocketIsTyped ==
  ASSUME TypeOK,
         \/ Heartbeat \/ Pong \/ FallSilent \/ PageCloses \/ Expire
         \/ \E r \in Runtimes : Leave(r) \/ Return(r)
  PROVE  TypeOK'
<1> USE DEF TypeOK, stream, questions, terminal, peer
<1>1. CASE Heartbeat BY <1>1 DEF Heartbeat
<1>2. CASE Pong BY <1>2 DEF Pong
<1>3. CASE FallSilent BY <1>3 DEF FallSilent
<1>4. CASE PageCloses BY <1>4 DEF PageCloses
<1>5. CASE Expire BY <1>5 DEF Expire
<1>6. CASE \E r \in Runtimes : Leave(r)
  <2>1. faults' \in 0 .. MaxFaults BY <1>6, Bounds DEF Leave, Fault
  <2>2. online' \subseteq Runtimes BY <1>6 DEF Leave
  <2> QED BY <1>6, <2>1, <2>2 DEF Leave
<1>7. CASE \E r \in Runtimes : Return(r) BY <1>7 DEF Return
<1> QED BY <1>1, <1>2, <1>3, <1>4, <1>5, <1>6, <1>7

LEMMA EnqueueIsTyped ==
  ASSUME TypeOK, frames < MaxFrames, Enqueue(frames + 1)
  PROVE  /\ queue' \in Seq(1 .. MaxFrames) /\ Len(queue') <= MaxPending
         /\ shut' \in BOOLEAN /\ socket' \in {"open", "closing", "closed"}
<1>1. frames + 1 \in 1 .. MaxFrames /\ queue \in Seq(1 .. MaxFrames) /\ Len(queue) <= MaxPending
  BY Bounds DEF TypeOK
<1>2. /\ Append(queue, frames + 1) \in Seq(1 .. MaxFrames)
      /\ Len(Append(queue, frames + 1)) = Len(queue) + 1 /\ Len(queue) \in Nat
  BY <1>1, Appended
<1>3. queue' = queue \/ (queue' = Append(queue, frames + 1) /\ Len(queue) < MaxPending)
  BY DEF Enqueue
<1>4. shut' \in BOOLEAN /\ socket' \in {"open", "closing", "closed"} BY DEF Enqueue, TypeOK
<1> QED BY <1>1, <1>2, <1>3, <1>4, Bounds

LEMMA StreamIsTyped ==
  ASSUME TypeOK,
         Publish \/ Interrupt \/ Write \/ \E r \in Runtimes : Ask(r)
  PROVE  TypeOK'
<1> USE DEF TypeOK, stream, questions, terminal, peer
<1>1. CASE Publish
  <2>1. frames' \in 0 .. MaxFrames BY <1>1, Bounds DEF Publish
  <2> QED BY <1>1, <2>1, EnqueueIsTyped DEF Publish
<1>2. CASE Interrupt
  <2>1. frames' \in 0 .. MaxFrames BY <1>2, Bounds DEF Interrupt
  <2> QED BY <1>2, <2>1 DEF Interrupt, Closing
<1>3. CASE Write
  <2>1. /\ queue' \in Seq(1 .. MaxFrames) /\ Head(queue) \in 1 .. MaxFrames
        /\ Len(queue') \in Nat /\ Len(queue') <= MaxPending
    <3>1. queue # <<>> /\ queue' = Tail(queue) /\ queue \in Seq(1 .. MaxFrames) /\ Len(queue) <= MaxPending
      BY <1>3 DEF Write
    <3> DEFINE S == 1 .. MaxFrames
    <3> HIDE DEF S
    <3>2. queue \in Seq(S) BY <3>1 DEF S
    <3>3. /\ Head(queue) \in S /\ Tail(queue) \in Seq(S) /\ Len(queue) \in Nat /\ Len(queue) > 0
          /\ Len(Tail(queue)) = Len(queue) - 1
      BY <3>1, <3>2, HeadTail
    <3>4. Len(queue') \in Nat /\ Len(queue') <= MaxPending BY <3>1, <3>3, Bounds
    <3> QED BY <3>1, <3>3, <3>4 DEF S
  <2>2. Append(got, Head(queue)) \in Seq(1 .. MaxFrames) BY <2>1, Appended
  <2> QED BY <1>3, <2>1, <2>2 DEF Write, Closing
<1>4. CASE \E r \in Runtimes : Ask(r)
  <2>1. frames' \in 0 .. MaxFrames /\ frames + 1 \in 0 .. MaxFrames BY <1>4, Bounds DEF Ask
  <2>2. asked' \in [Runtimes -> 0 .. MaxFrames] /\ remembered' \subseteq Runtimes
    BY <1>4, <2>1 DEF Ask
  <2> QED BY <1>4, <2>1, <2>2, EnqueueIsTyped DEF Ask
<1> QED BY <1>1, <1>2, <1>3, <1>4

LEMMA AnswerIsTyped ==
  ASSUME TypeOK, NEW r \in Runtimes, NEW shown \in Runtimes \cup {0}, Answer(r, shown)
  PROVE  TypeOK'
<1>4. attempts[r] \in 0 .. MaxAttempts /\ attempts[r] < MaxAttempts BY DEF Answer, TypeOK
<1>0. attempts[r] + 1 \in 0 .. MaxAttempts BY <1>4, Bounds
<1>1. attempts' \in [Runtimes -> 0 .. MaxAttempts] BY <1>0 DEF Answer, TypeOK
<1>2. \A p \in Target(r, shown) \cap online :
        [of |-> r, to |-> p, again |-> attempts[r] > 0] \in [of : Runtimes, to : Runtimes, again : BOOLEAN]
  BY DEF TypeOK
<1>3. replies' \subseteq [of : Runtimes, to : Runtimes, again : BOOLEAN] BY <1>2 DEF Answer, TypeOK
<1> QED BY <1>1, <1>3 DEF Answer, TypeOK, stream, terminal, peer

\* What follows the end of a command leaves the chain as it is.
LEMMA EndedIsTyped ==
  ASSUME TypeOK, NEW ok \in BOOLEAN, awaited # Nothing, Ended(ok)
  PROVE  /\ awaited' = Nothing /\ typed' = typed /\ socket' \in {"open", "closing", "closed"}
         /\ phase' \in {"start", "opening", "announcing", "serving", "ending", "ended", "failed"}
<1> QED BY DEF Ended, FailWrite, Fails, Closing, TypeOK

LEMMA OpsAreTyped ==
  ASSUME TypeOK, NEW op \in Command, Send(op)
  PROVE  ops' \in Seq(Command) /\ awaited' \in Command \cup {Nothing}
<1>1. Append(ops, op) \in Seq(Command) BY DEF TypeOK
<1> QED BY <1>1 DEF Send

LEMMA TerminalIsTyped ==
  ASSUME TypeOK,
         OpenTerminal \/ ShellExits \/ Timeout \/ Announce \/ Type \/ WriteNext \/ CloseTerminal
  PROVE  TypeOK'
<1> USE DEF TypeOK, stream, questions, peer
<1>0. Op("open", 0) \in Command /\ Op("close", 0) \in Command BY Bounds DEF Op, Command
<1>1. CASE OpenTerminal
  <2>1. ops' \in Seq(Command) /\ awaited' \in Command \cup {Nothing}
    BY <1>0, <1>1, OpsAreTyped DEF OpenTerminal
  <2> QED BY <1>1, <2>1 DEF OpenTerminal, Fails, Closing
<1>2. CASE ShellExits
  <2>1. faults' \in 0 .. MaxFaults BY <1>2, Bounds DEF ShellExits, Fault
  <2> QED BY <1>2, <2>1 DEF ShellExits
<1>3. CASE Timeout BY <1>3, EndedIsTyped DEF Timeout
<1>4. CASE Announce BY <1>4 DEF Announce, Fails, Closing
<1>5. CASE Type
  <2>1. typedCount + 1 \in 1 .. MaxInputs BY <1>5, Bounds DEF Type
  <2>2. typed' \in Seq(1 .. MaxInputs) /\ typedCount' \in 0 .. MaxInputs
    BY <1>5, <2>1, Appended DEF Type
  <2> QED BY <1>5, <2>2 DEF Type
<1>6. CASE WriteNext
  <2>1. Head(typed) \in 1 .. MaxInputs /\ typed' \in Seq(1 .. MaxInputs)
    BY <1>6, HeadTail DEF WriteNext
  <2>2. Op("write", Head(typed)) \in Command BY <2>1 DEF Op, Command
  <2>3. ops' \in Seq(Command) /\ awaited' \in Command \cup {Nothing}
    BY <1>6, <2>2, OpsAreTyped DEF WriteNext
  <2> QED BY <1>6, <2>1, <2>3 DEF WriteNext, Closing
<1>7. CASE CloseTerminal
  <2>1. ops' \in Seq(Command) /\ awaited' \in Command \cup {Nothing}
    BY <1>0, <1>7, OpsAreTyped DEF CloseTerminal
  <2> QED BY <1>7, <2>1 DEF CloseTerminal
<1> QED BY <1>1, <1>2, <1>3, <1>4, <1>5, <1>6, <1>7

LEMMA ResultIsTyped == TypeOK /\ TakeResult => TypeOK'
<1> SUFFICES ASSUME TypeOK, TakeResult PROVE TypeOK' OBVIOUS
<1> DEFINE R == [of : Command, ok : BOOLEAN]
<1>1. results \in Seq(R) /\ results # <<>> BY DEF TakeResult, TypeOK
<1>2. Head(results) \in R /\ results' \in Seq(R) BY <1>1, HeadTail DEF TakeResult
<1>3. Head(results).of \in Command /\ Head(results).ok \in BOOLEAN BY <1>2
<1>4. Nothing \notin Command BY DEF Nothing, Command
<1>5. CASE Head(results).of = awaited
  <2>1. awaited # Nothing /\ Ended(Head(results).ok) BY <1>3, <1>4, <1>5 DEF TakeResult
  <2> QED BY <1>2, <1>3, <2>1, EndedIsTyped DEF TakeResult, TypeOK, stream, questions, peer
<1>6. CASE Head(results).of # awaited
  BY <1>2, <1>6 DEF TakeResult, TypeOK, stream, questions, peer
<1> QED BY <1>5, <1>6

LEMMA ExecuteIsTyped == TypeOK /\ Execute => TypeOK'
<1> SUFFICES ASSUME TypeOK, Execute PROVE TypeOK' OBVIOUS
<1> DEFINE o == Head(ops)
<1>1. ops # <<>> /\ ops \in Seq(Command) BY DEF Execute, TypeOK
<1>2. o \in Command /\ ops' \in Seq(Command) BY <1>1, HeadTail DEF Execute
<1>3. [of |-> o, ok |-> TRUE] \in [of : Command, ok : BOOLEAN] /\ [of |-> o, ok |-> FALSE] \in [of : Command, ok : BOOLEAN]
  BY <1>2
<1>4. /\ Append(results, [of |-> o, ok |-> TRUE]) \in Seq([of : Command, ok : BOOLEAN])
      /\ Append(results, [of |-> o, ok |-> FALSE]) \in Seq([of : Command, ok : BOOLEAN])
  BY <1>3, Appended DEF TypeOK
<1>5. results' \in Seq([of : Command, ok : BOOLEAN]) BY <1>4 DEF Execute
<1>10. written' = written \/ (o.op = "write" /\ written' = Append(written, o.n)) BY DEF Execute
<1>11. o.op = "write" => o.n \in 1 .. MaxInputs BY <1>2 DEF Command
<1>13. written \in Seq(1 .. MaxInputs) BY DEF TypeOK
<1>14. \A n \in 1 .. MaxInputs : Append(written, n) \in Seq(1 .. MaxInputs) BY <1>13, Appended
<1>6. written' \in Seq(1 .. MaxInputs) BY <1>10, <1>11, <1>13, <1>14
<1>7. pty' \in {"none", "running", "gone"} BY DEF Execute, TypeOK
<1>12. faults' = faults \/ (faults < MaxFaults /\ faults' = faults + 1) BY DEF Execute, Fault
<1>8. faults' \in 0 .. MaxFaults BY <1>12, Bounds DEF TypeOK
<1>9. UNCHANGED <<kind, socket, peer, online, stream, questions, phase, typed, awaited, typedCount>> BY DEF Execute
<1> QED BY <1>2, <1>5, <1>6, <1>7, <1>8, <1>9 DEF TypeOK, stream, questions, peer

LEMMA TypesStep == TypeOK /\ [Next]_vars => TypeOK'
<1> SUFFICES ASSUME TypeOK, [Next]_vars PROVE TypeOK' OBVIOUS
<1>1. CASE UNCHANGED vars BY <1>1 DEF vars, TypeOK, stream, questions, terminal, peer
<1> QED BY <1>1, SocketIsTyped, StreamIsTyped, AnswerIsTyped, TerminalIsTyped, ResultIsTyped, ExecuteIsTyped DEF Next

-----------------------------------------------------------------------------
(* The stream *)

LEMMA StreamStep ==
  ASSUME TypeOK, StreamInOrder, [Next]_vars
  PROVE  StreamInOrder'
<1> DEFINE Kept == /\ UNCHANGED <<frames, queue, shut, got>>
                   /\ socket' = "open" => socket = "open"
<1>1. CASE Kept BY <1>1 DEF StreamInOrder
<1>2. CASE \/ Heartbeat \/ Pong \/ FallSilent \/ PageCloses \/ Expire
           \/ (\E r \in Runtimes : Leave(r) \/ Return(r))
           \/ (\E r \in Runtimes, shown \in Runtimes \cup {0} : Answer(r, shown))
           \/ UNCHANGED vars
  BY <1>1, <1>2 DEF Heartbeat, Pong, FallSilent, PageCloses, Expire, Leave, Return, Answer, vars, stream
<1>3. CASE \/ OpenTerminal \/ Execute \/ ShellExits \/ TakeResult \/ Timeout \/ Announce
           \/ Type \/ WriteNext \/ CloseTerminal
  <2>1. UNCHANGED <<frames, queue, shut, got>>
    BY <1>3 DEF OpenTerminal, Execute, ShellExits, TakeResult, Timeout, Announce, Type, WriteNext,
                CloseTerminal, stream
  <2>2. socket' = "open" => socket = "open"
    BY <1>3 DEF OpenTerminal, Execute, ShellExits, TakeResult, Timeout, Announce, Type, WriteNext,
                CloseTerminal, Ended, Fails, FailWrite, Closing
  <2> QED BY <1>1, <2>1, <2>2
<1>4. ASSUME frames' = frames + 1, frames < MaxFrames, Enqueue(frames + 1), got' = got PROVE StreamInOrder'
  <2>1. CASE shut \/ socket # "open" BY <1>4, <2>1 DEF StreamInOrder, Enqueue
  <2>2. CASE ~shut /\ socket = "open" /\ Len(queue) < MaxPending
    <3>1. queue' = Append(queue, frames + 1) /\ UNCHANGED <<shut, socket>>
      BY <1>4, <2>2, Bounds DEF Enqueue, TypeOK
    <3>2. queue \in Seq(1 .. MaxFrames) /\ frames + 1 \in 1 .. MaxFrames BY <1>4, Bounds DEF TypeOK
    <3>3. /\ Len(queue') = Len(queue) + 1 /\ Len(queue) \in Nat
          /\ \A i \in DOMAIN queue' : \/ i \in DOMAIN queue /\ queue'[i] = queue[i]
                                      \/ i = Len(queue) + 1 /\ queue'[i] = frames + 1
      BY <3>1, <3>2, Appended
    <3>4. Len(got) \in Nat /\ frames \in Nat /\ Len(got) + Len(queue) = frames
      BY <2>2, Bounds DEF TypeOK, StreamInOrder
    <3>5. \A i \in DOMAIN queue' : queue'[i] = Len(got) + i
      BY <2>2, <3>3, <3>4 DEF StreamInOrder
    <3> QED BY <1>4, <2>2, <3>1, <3>3, <3>4, <3>5 DEF StreamInOrder
  <2>3. CASE ~shut /\ socket = "open" /\ Len(queue) >= MaxPending
    <3>1. socket' = "closing" BY <1>4, <2>3, Bounds DEF Enqueue, TypeOK
    <3> QED BY <1>4, <2>3, <3>1 DEF StreamInOrder
  <2> QED BY <1>4, <2>1, <2>2, <2>3 DEF Enqueue
<1>5. CASE Publish BY <1>4, <1>5 DEF Publish
<1>6. CASE \E r \in Runtimes : Ask(r) BY <1>4, <1>6 DEF Ask
<1>7. CASE Interrupt BY <1>7 DEF Interrupt, Closing, StreamInOrder
<1>8. CASE Write
  <2>1. /\ queue' = Tail(queue) /\ Head(queue) \in 1 .. MaxFrames /\ Head(queue) = queue[1] /\ 1 \in DOMAIN queue
        /\ Len(queue) \in Nat /\ Len(queue') = Len(queue) - 1
        /\ \A i \in DOMAIN queue' : i + 1 \in DOMAIN queue /\ queue'[i] = queue[i + 1] /\ i \in Nat
    BY <1>8, HeadTail DEF Write, TypeOK
  <2>2. CASE socket = "open" /\ ~shut
    <3>1. got' = Append(got, Head(queue)) /\ UNCHANGED <<shut, socket, frames>>
      BY <1>8, <2>2 DEF Write
    <3>2. got \in Seq(1 .. MaxFrames) BY DEF TypeOK
    <3>3. /\ Len(got') = Len(got) + 1 /\ Len(got) \in Nat
          /\ \A i \in DOMAIN got' : \/ i \in DOMAIN got /\ got'[i] = got[i]
                                    \/ i = Len(got) + 1 /\ got'[i] = Head(queue)
      BY <2>1, <3>1, <3>2, Appended
    <3>4. Head(queue) = Len(got) + 1 BY <2>1, <2>2 DEF StreamInOrder
    <3>5. \A i \in DOMAIN got' : got'[i] = i BY <3>3, <3>4 DEF StreamInOrder
    <3>6. \A i \in DOMAIN queue' : queue'[i] = Len(got') + i BY <2>1, <2>2, <3>3 DEF StreamInOrder
    <3>7. frames \in Nat /\ Len(got) + Len(queue) = frames BY <2>2, Bounds DEF TypeOK, StreamInOrder
    <3>8. Len(got') + Len(queue') = frames'
      <4>1. Len(got') = Len(got) + 1 /\ Len(queue') = Len(queue) - 1 /\ frames' = frames
        BY <2>1, <3>1, <3>3
      <4>2. Len(got) \in Nat /\ Len(queue) \in Nat BY <2>1, <3>3
      <4> QED BY <3>7, <4>1, <4>2
    <3>9. ~shut' BY <2>2, <3>1
    <3> QED BY <3>5, <3>6, <3>8, <3>9 DEF StreamInOrder
  <2>3. CASE ~(socket = "open" /\ ~shut)
    BY <1>8, <2>3 DEF Write, StreamInOrder, Closing
  <2> QED BY <2>2, <2>3
<1> QED BY <1>2, <1>3, <1>5, <1>6, <1>7, <1>8 DEF Next

-----------------------------------------------------------------------------
(* Questions *)

LEMMA QuestionsStep ==
  ASSUME TypeOK, QuestionsRemembered, AnswersGoHome, [Next]_vars
  PROVE  QuestionsRemembered' /\ AnswersGoHome'
<1>1. CASE UNCHANGED questions BY <1>1 DEF questions, QuestionsRemembered, AnswersGoHome
<1>2. CASE \/ Heartbeat \/ Pong \/ FallSilent \/ PageCloses \/ Expire
           \/ (\E r \in Runtimes : Leave(r) \/ Return(r))
           \/ Publish \/ Interrupt \/ Write
           \/ OpenTerminal \/ Execute \/ ShellExits \/ TakeResult \/ Timeout \/ Announce
           \/ Type \/ WriteNext \/ CloseTerminal \/ UNCHANGED vars
  BY <1>1, <1>2 DEF Heartbeat, Pong, FallSilent, PageCloses, Expire, Leave, Return, Publish, Interrupt, Write,
                    OpenTerminal, Execute, ShellExits, TakeResult, Timeout, Announce, Type, WriteNext,
                    CloseTerminal, vars
<1>3. CASE \E r \in Runtimes : Ask(r)
  BY <1>3 DEF Ask, TypeOK, QuestionsRemembered, AnswersGoHome
<1>4. ASSUME NEW r \in Runtimes, NEW shown \in Runtimes \cup {0}, Answer(r, shown)
      PROVE  QuestionsRemembered' /\ AnswersGoHome'
  <2>1. attempts[r] \in Nat /\ asked[r] # 0 BY <1>4, Bounds DEF Answer, TypeOK
  <2>2. \A p \in Runtimes : attempts'[p] = IF p = r THEN attempts[r] + 1 ELSE attempts[p]
    BY <1>4 DEF Answer, TypeOK
  <2>3. QuestionsRemembered' BY <1>4, <2>1, <2>2 DEF Answer, QuestionsRemembered
  <2>4. ~(attempts[r] > 0) => Target(r, shown) = {r} BY <2>1 DEF QuestionsRemembered, Target
  <2>6. \A a \in replies' : a \in replies \/ (a.of = r /\ a.to \in Target(r, shown) /\ a.again = (attempts[r] > 0))
    BY <1>4 DEF Answer
  <2>7. \A a \in replies' : ~a.again => a.to = a.of
    <3> SUFFICES ASSUME NEW a \in replies', ~a.again PROVE a.to = a.of OBVIOUS
    <3>1. CASE a \in replies BY <3>1 DEF AnswersGoHome
    <3>2. CASE a.of = r /\ a.to \in Target(r, shown) /\ a.again = (attempts[r] > 0) BY <2>4, <3>2
    <3> QED BY <2>6, <3>1, <3>2
  <2>5. AnswersGoHome' BY <2>7 DEF AnswersGoHome
  <2> QED BY <2>3, <2>5
<1> QED BY <1>2, <1>3, <1>4 DEF Next

-----------------------------------------------------------------------------
(* Input *)

Pipeline == <<written, ops, typed, typedCount>>

\* A command that is no input may be queued behind the input.
LEMMA OtherOp ==
  ASSUME TypeOK, PipelineInOrder, NEW op \in Command, op.op # "write", ops' = Append(ops, op),
         UNCHANGED <<written, typed, typedCount>>
  PROVE  PipelineInOrder'
<1>1. /\ \A i \in DOMAIN ops' : \/ i \in DOMAIN ops /\ ops'[i] = ops[i]
                                \/ ops'[i] = op
  BY Appended DEF TypeOK
<1>2. \A i \in DOMAIN ops' : IsWrite(i)' => i \in DOMAIN ops /\ ops'[i] = ops[i] /\ IsWrite(i)
  BY <1>1 DEF IsWrite
<1> QED BY <1>2 DEF PipelineInOrder

LEMMA TypeStep == TypeOK /\ PipelineInOrder /\ Type => PipelineInOrder'
<1> SUFFICES ASSUME TypeOK, PipelineInOrder, Type PROVE PipelineInOrder' OBVIOUS
<1> DEFINE n == typedCount + 1
<1>1. typedCount \in Nat /\ n \in 1 .. MaxInputs /\ typed \in Seq(1 .. MaxInputs)
  BY Bounds DEF Type, TypeOK
<1>2. typed' = Append(typed, n) /\ typedCount' = n /\ UNCHANGED <<written, ops>> BY DEF Type
<1>3. \A i \in DOMAIN typed' : /\ i \in Nat
                               /\ \/ i \in DOMAIN typed /\ typed'[i] = typed[i]
                                  \/ i = Len(typed) + 1 /\ typed'[i] = n /\ \A k \in DOMAIN typed : k < i
  BY <1>1, <1>2, Appended
<1>4. /\ \A i \in DOMAIN written : written[i] \in Nat /\ written[i] < n
      /\ \A i \in DOMAIN typed : typed[i] \in Nat /\ typed[i] < n
  <2>1. written \in Seq(1 .. MaxInputs) BY DEF TypeOK
  <2>4. \A i \in DOMAIN written : written[i] \in 1 .. MaxInputs BY <2>1, Elements
  <2>5. \A i \in DOMAIN typed : typed[i] \in 1 .. MaxInputs BY <1>1, Elements
  <2>2. /\ \A i \in DOMAIN written : written[i] \in Nat
        /\ \A i \in DOMAIN typed : typed[i] \in Nat
    BY <2>4, <2>5
  <2>3. /\ \A i \in DOMAIN written : written[i] <= typedCount
        /\ \A i \in DOMAIN typed : typed[i] <= typedCount
    BY DEF PipelineInOrder
  <2> QED BY <1>1, <2>2, <2>3
<1>5. \A i \in DOMAIN ops : IsWrite(i) => ops[i].n \in Nat /\ ops[i].n < n
  <2> SUFFICES ASSUME NEW i \in DOMAIN ops, IsWrite(i) PROVE ops[i].n \in Nat /\ ops[i].n < n OBVIOUS
  <2>1. ops[i] \in Command BY DEF TypeOK
  <2>2. ops[i].n \in 1 .. MaxInputs BY <2>1 DEF IsWrite, Command
  <2> QED BY <1>1, <2>2 DEF PipelineInOrder
<1>6. \A i, k \in DOMAIN typed' : i < k => typed'[i] < typed'[k]
  <2> SUFFICES ASSUME NEW i \in DOMAIN typed', NEW k \in DOMAIN typed', i < k PROVE typed'[i] < typed'[k]
    OBVIOUS
  <2>1. CASE k \in DOMAIN typed /\ typed'[k] = typed[k]
    <3>1. i \in DOMAIN typed /\ typed'[i] = typed[i] BY <1>1, <1>3, <2>1
    <3> QED BY <2>1, <3>1 DEF PipelineInOrder
  <2>2. CASE k = Len(typed) + 1 /\ typed'[k] = n BY <1>3, <1>4, <2>2
  <2> QED BY <1>3, <2>1, <2>2
<1>7. \A i \in DOMAIN written, k \in DOMAIN typed' : written[i] < typed'[k]
  BY <1>3, <1>4 DEF PipelineInOrder
<1>8. \A i \in DOMAIN ops, k \in DOMAIN typed' : IsWrite(i) => ops[i].n < typed'[k]
  BY <1>3, <1>5 DEF PipelineInOrder
<1>9. /\ \A i \in DOMAIN written : written[i] <= n
      /\ \A i \in DOMAIN ops : IsWrite(i) => ops[i].n <= n
      /\ \A i \in DOMAIN typed' : typed'[i] <= n
  BY <1>1, <1>3, <1>4, <1>5
<1>10. \A i \in DOMAIN ops : IsWrite(i)' <=> IsWrite(i) BY <1>2 DEF IsWrite
<1> QED BY <1>2, <1>6, <1>7, <1>8, <1>9, <1>10 DEF PipelineInOrder

LEMMA WriteNextStep == TypeOK /\ PipelineInOrder /\ WriteNext => PipelineInOrder'
<1> SUFFICES ASSUME TypeOK, PipelineInOrder, WriteNext PROVE PipelineInOrder' OBVIOUS
<1> DEFINE n == Head(typed)
<1>1. /\ n \in 1 .. MaxInputs /\ n = typed[1] /\ 1 \in DOMAIN typed /\ typed' = Tail(typed)
      /\ \A i \in DOMAIN typed' : i + 1 \in DOMAIN typed /\ typed'[i] = typed[i + 1] /\ 1 < i + 1 /\ i \in Nat
  BY HeadTail DEF WriteNext, TypeOK
<1>2. UNCHANGED <<written, typedCount>> BY DEF WriteNext
<1>3. CASE ops' = ops
  <2>1. \A i \in DOMAIN ops : IsWrite(i)' <=> IsWrite(i) BY <1>3 DEF IsWrite
  <2> QED BY <1>1, <1>2, <1>3, <2>1 DEF PipelineInOrder
<1>4. CASE ops' = Append(ops, Op("write", n))
  <2>1. Op("write", n) \in Command /\ Op("write", n).n = n BY <1>1 DEF Op, Command
  <2>2. \A i \in DOMAIN ops' : /\ i \in Nat
                               /\ \/ i \in DOMAIN ops /\ ops'[i] = ops[i]
                                  \/ i = Len(ops) + 1 /\ ops'[i] = Op("write", n) /\ \A k \in DOMAIN ops : k < i
    BY <1>4, <2>1, Appended DEF TypeOK
  <2>3. \A i \in DOMAIN ops' :
          IsWrite(i)' => \/ i \in DOMAIN ops /\ ops'[i].n = ops[i].n /\ IsWrite(i)
                         \/ i = Len(ops) + 1 /\ ops'[i].n = n /\ \A k \in DOMAIN ops : k < i
    BY <2>1, <2>2 DEF IsWrite
  <2>4. \A i \in DOMAIN ops : IsWrite(i) => ops[i].n < n BY <1>1 DEF PipelineInOrder
  <2>5. \A i \in DOMAIN written : written[i] < n BY <1>1 DEF PipelineInOrder
  <2>6. \A i \in DOMAIN typed' : n < typed'[i] BY <1>1 DEF PipelineInOrder
  <2>7. n <= typedCount BY <1>1 DEF PipelineInOrder
  <2>8. \A i, k \in DOMAIN ops' : IsWrite(i)' /\ IsWrite(k)' /\ i < k => ops'[i].n < ops'[k].n
    <3> SUFFICES ASSUME NEW i \in DOMAIN ops', NEW k \in DOMAIN ops', IsWrite(i)', IsWrite(k)', i < k
                 PROVE ops'[i].n < ops'[k].n
      OBVIOUS
    <3>1. i \in Nat /\ k \in Nat BY <2>2
    <3>2. CASE k \in DOMAIN ops /\ ops'[k].n = ops[k].n /\ IsWrite(k)
      <4>1. i \in DOMAIN ops /\ ops'[i].n = ops[i].n /\ IsWrite(i) BY <2>3, <3>1, <3>2
      <4> QED BY <3>2, <4>1 DEF PipelineInOrder
    <3>3. CASE k = Len(ops) + 1 /\ ops'[k].n = n BY <2>3, <2>4, <3>1, <3>3
    <3> QED BY <2>3, <3>2, <3>3
  <2>9. \A i \in DOMAIN written, k \in DOMAIN ops' : IsWrite(k)' => written[i] < ops'[k].n
    BY <2>3, <2>5 DEF PipelineInOrder
  <2>10. \A i \in DOMAIN ops', k \in DOMAIN typed' : IsWrite(i)' => ops'[i].n < typed'[k]
    BY <1>1, <2>3, <2>6 DEF PipelineInOrder
  <2>11. \A i \in DOMAIN ops' : IsWrite(i)' => ops'[i].n <= typedCount
    BY <2>3, <2>7 DEF PipelineInOrder
  <2>12. /\ \A i, k \in DOMAIN typed' : i < k => typed'[i] < typed'[k]
         /\ \A i \in DOMAIN written, k \in DOMAIN typed' : written[i] < typed'[k]
         /\ \A i \in DOMAIN typed' : typed'[i] <= typedCount
    BY <1>1 DEF PipelineInOrder
  <2> QED BY <1>2, <2>8, <2>9, <2>10, <2>11, <2>12 DEF PipelineInOrder
<1> QED BY <1>3, <1>4 DEF WriteNext, Send

LEMMA ExecuteStep == TypeOK /\ PipelineInOrder /\ Execute => PipelineInOrder'
<1> SUFFICES ASSUME TypeOK, PipelineInOrder, Execute PROVE PipelineInOrder' OBVIOUS
<1> DEFINE o == Head(ops)
<1>1. /\ o \in Command /\ o = ops[1] /\ 1 \in DOMAIN ops /\ ops' = Tail(ops)
      /\ \A i \in DOMAIN ops' : i + 1 \in DOMAIN ops /\ ops'[i] = ops[i + 1] /\ 1 < i + 1 /\ i \in Nat
  BY HeadTail DEF Execute, TypeOK
<1>2. UNCHANGED <<typed, typedCount>> BY DEF Execute
<1>3. \A i \in DOMAIN ops' : IsWrite(i)' <=> IsWrite(i + 1) BY <1>1 DEF IsWrite
<1>4. /\ \A i, k \in DOMAIN ops' : IsWrite(i)' /\ IsWrite(k)' /\ i < k => ops'[i].n < ops'[k].n
      /\ \A i \in DOMAIN ops', k \in DOMAIN typed : IsWrite(i)' => ops'[i].n < typed[k]
      /\ \A i \in DOMAIN ops' : IsWrite(i)' => ops'[i].n <= typedCount
  BY <1>1, <1>3 DEF PipelineInOrder
<1>5. CASE written' = written
  <2>1. \A i \in DOMAIN written, k \in DOMAIN ops' : IsWrite(k)' => written[i] < ops'[k].n
    BY <1>1, <1>3 DEF PipelineInOrder
  <2> QED BY <1>2, <1>4, <1>5, <2>1 DEF PipelineInOrder
<1>6. CASE o.op = "write" /\ written' = Append(written, o.n)
  <2>1. IsWrite(1) /\ o.n \in 1 .. MaxInputs BY <1>1, <1>6 DEF IsWrite, Command
  <2>2. \A i \in DOMAIN written' :
          /\ i \in Nat
          /\ \/ i \in DOMAIN written /\ written'[i] = written[i]
             \/ i = Len(written) + 1 /\ written'[i] = o.n /\ \A k \in DOMAIN written : k < i
    BY <1>6, <2>1, Appended DEF TypeOK
  <2>3. \A i \in DOMAIN written : written[i] < o.n BY <1>1, <2>1 DEF PipelineInOrder
  <2>4. \A i, k \in DOMAIN written' : i < k => written'[i] < written'[k]
    <3> SUFFICES ASSUME NEW i \in DOMAIN written', NEW k \in DOMAIN written', i < k
                 PROVE written'[i] < written'[k]
      OBVIOUS
    <3>1. i \in Nat /\ k \in Nat BY <2>2
    <3>2. CASE k \in DOMAIN written /\ written'[k] = written[k]
      <4>1. i \in DOMAIN written /\ written'[i] = written[i] BY <2>2, <3>1, <3>2
      <4> QED BY <3>2, <4>1 DEF PipelineInOrder
    <3>3. CASE k = Len(written) + 1 /\ written'[k] = o.n BY <2>2, <2>3, <3>1, <3>3
    <3> QED BY <2>2, <3>2, <3>3
  <2>5. \A k \in DOMAIN ops' : IsWrite(k)' => o.n < ops'[k].n BY <1>1, <1>3, <2>1 DEF PipelineInOrder
  <2>6. \A i \in DOMAIN written, k \in DOMAIN ops' : IsWrite(k)' => written[i] < ops'[k].n
    BY <1>1, <1>3 DEF PipelineInOrder
  <2>7. \A i \in DOMAIN written', k \in DOMAIN ops' : IsWrite(k)' => written'[i] < ops'[k].n
    BY <2>2, <2>5, <2>6
  <2>8. \A k \in DOMAIN typed : o.n < typed[k] BY <1>1, <2>1 DEF PipelineInOrder
  <2>9. \A i \in DOMAIN written', k \in DOMAIN typed : written'[i] < typed[k]
    BY <2>2, <2>8 DEF PipelineInOrder
  <2>10. o.n <= typedCount BY <1>1, <2>1 DEF PipelineInOrder
  <2>11. \A i \in DOMAIN written' : written'[i] <= typedCount BY <2>2, <2>10 DEF PipelineInOrder
  <2> QED BY <1>2, <1>4, <2>4, <2>7, <2>9, <2>11 DEF PipelineInOrder
<1> QED BY <1>5, <1>6 DEF Execute

LEMMA PipelineStep ==
  ASSUME TypeOK, PipelineInOrder, [Next]_vars
  PROVE  PipelineInOrder'
<1>0. Op("open", 0) \in Command /\ Op("close", 0) \in Command BY Bounds DEF Op, Command
<1>1. CASE UNCHANGED Pipeline BY <1>1 DEF Pipeline, PipelineInOrder, IsWrite
<1>2. CASE \/ Heartbeat \/ Pong \/ FallSilent \/ PageCloses \/ Expire
           \/ (\E r \in Runtimes : Leave(r) \/ Return(r) \/ Ask(r))
           \/ (\E r \in Runtimes, shown \in Runtimes \cup {0} : Answer(r, shown))
           \/ Publish \/ Interrupt \/ Write \/ ShellExits \/ Announce \/ UNCHANGED vars
  BY <1>1, <1>2 DEF Heartbeat, Pong, FallSilent, PageCloses, Expire, Leave, Return, Ask, Answer, Publish,
                    Interrupt, Write, ShellExits, Announce, vars, terminal, Pipeline
<1>3. CASE Timeout BY <1>1, <1>3, EndedIsTyped DEF Timeout, Pipeline
<1>4. CASE TakeResult
  <2>1. Head(results) \in [of : Command, ok : BOOLEAN] BY <1>4, HeadTail DEF TakeResult, TypeOK
  <2>2. Head(results).of # Nothing /\ Head(results).ok \in BOOLEAN BY <2>1 DEF Nothing, Command
  <2>3. typed' = typed BY <1>4, <2>2, EndedIsTyped DEF TakeResult
  <2> QED BY <1>1, <1>4, <2>3 DEF TakeResult, Pipeline
<1>5. CASE OpenTerminal
  <2>1. UNCHANGED <<written, typed, typedCount>> BY <1>5 DEF OpenTerminal
  <2>2. ops' = Append(ops, Op("open", 0)) \/ ops' = ops BY <1>5 DEF OpenTerminal, Send
  <2>3. Op("open", 0).op # "write" BY DEF Op
  <2> QED BY <1>0, <1>1, <2>1, <2>2, <2>3, OtherOp DEF Pipeline
<1>6. CASE CloseTerminal
  <2>1. UNCHANGED <<written, typed, typedCount>> BY <1>6 DEF CloseTerminal
  <2>2. ops' = Append(ops, Op("close", 0)) \/ ops' = ops BY <1>6 DEF CloseTerminal, Send
  <2>3. Op("close", 0).op # "write" BY DEF Op
  <2> QED BY <1>0, <1>1, <2>1, <2>2, <2>3, OtherOp DEF Pipeline
<1> QED BY <1>2, <1>3, <1>4, <1>5, <1>6, TypeStep, WriteNextStep, ExecuteStep DEF Next

-----------------------------------------------------------------------------
LEMMA SocketInvariant == Spec => []IInv
<1>1. Init => IInv BY InitHolds
<1>2. IInv /\ [Next]_vars => IInv'
  BY TypesStep, StreamStep, QuestionsStep, PipelineStep DEF IInv
<1> QED BY <1>1, <1>2, PTL DEF Spec

\* Every variable of the socket keeps its type; the queue of the writer of
\* events.ts never outgrows its limit.
THEOREM SocketTypes == Spec => []TypeOK
<1>1. IInv => TypeOK BY DEF IInv
<1> QED BY <1>1, SocketInvariant, PTL

\* The writer of events.ts never shows a browser a stream with a hole in it.
THEOREM StreamsHaveNoHole == Spec => []StreamHasNoHole
<1>1. IInv => StreamHasNoHole BY DEF IInv, StreamInOrder, StreamHasNoHole
<1> QED BY <1>1, SocketInvariant, PTL

\* The first answer to a question goes to the runtime that asked it, whatever
\* page it is given on (interactionTarget() in server.ts).
THEOREM AnswersComeHome == Spec => []AnswersGoHome
<1>1. IInv => AnswersGoHome BY DEF IInv
<1> QED BY <1>1, SocketInvariant, PTL

\* Input reaches the PTY in the order typed and never twice (the message chain
\* of openBrowserTerminal() and the queue of HubProfileManager.terminal()).
THEOREM InputStaysInOrder == Spec => []InputInOrder
<1>1. IInv => InputInOrder BY DEF IInv, PipelineInOrder, InputInOrder
<1> QED BY <1>1, SocketInvariant, PTL
=============================================================================
