---------------------------- MODULE BrowserSockets ----------------------------
(***************************************************************************)
(* The WebSockets of a browser at the Hub (hub-server/src/server.ts,       *)
(* events.ts): an official event stream, with its bounded writer and the   *)
(* questions that arrive over it and are answered over HTTP, or a rescue   *)
(* terminal, whose PTY a Node supervisor runs                              *)
(* (hub-node-agent/src/supervisor.ts).  A behaviour has one socket, of     *)
(* either kind.                                                            *)
(*                                                                         *)
(* Frames are numbered as the broker publishes them; the writer's limit    *)
(* counts messages and the one in bytes is left out.  Terminal commands    *)
(* reach the supervisor in order and once (CommandDelivery); the output of *)
(* a terminal and its resizing are left out.  An answer to a question      *)
(* names no session or workspace; a remembered question is not forgotten   *)
(* after an hour or for 10 000 newer ones.                                 *)
(*                                                                         *)
(* Bounds: MaxFrames frames, MaxInputs keystrokes, MaxAttempts answers to  *)
(* a question, MaxFaults lost connections and failed commands.             *)
(***************************************************************************)
EXTENDS Integers, Sequences, FiniteSets

CONSTANTS MaxRuntimes,   \* the runtimes are 1 .. MaxRuntimes, as listed
          MaxPending, MaxFrames, MaxInputs, MaxAttempts, MaxFaults

ASSUME SocketAssumption ==
  /\ {MaxRuntimes, MaxPending} \subseteq Nat \ {0}
  /\ {MaxFrames, MaxInputs, MaxAttempts, MaxFaults} \subseteq Nat

Runtimes == 1 .. MaxRuntimes
Here == 1       \* the runtime whose terminal is opened

VARIABLES
  kind,         \* "stream" or "terminal"
  socket,       \* readyState: "open", "closing", "closed"
  silent,       \* the browser has stopped reading and answering
  awaiting,     \* awaitingPong
  online,       \* runtimes that are online
  frames,       \* frames the stream has had since the subscription
  queue, shut,  \* the writer: what is not sent, closed
  got,          \* frames the browser received
  asked,        \* the frame in which a runtime asked its question, or 0
  remembered,   \* interactionTargets: the runtimes whose question is in it
  attempts,     \* answers the browser has tried
  replies,      \* answers that were dispatched, and to whom
  phase,        \* openBrowserTerminal()
  typed,        \* input in the message chain
  awaited,      \* the command waitCommand() waits for
  ops, results, \* commands for the supervisor, its results
  pty, written, \* the PTY, and the input it was given
  typedCount, faults

stream == <<frames, queue, shut, got>>
questions == <<asked, remembered, attempts, replies>>
terminal == <<phase, typed, awaited, ops, results, pty, written, typedCount>>
peer == <<silent, awaiting>>
vars == <<kind, socket, peer, online, stream, questions, terminal, faults>>

Nothing == [op |-> "none", n |-> 0]
Op(name, n) == [op |-> name, n |-> n]

Init ==
  /\ kind \in {"stream", "terminal"} /\ socket = "open"
  /\ silent = FALSE /\ awaiting = FALSE /\ online = Runtimes
  /\ frames = 0 /\ queue = <<>> /\ shut = FALSE /\ got = <<>>
  /\ asked = [r \in Runtimes |-> 0] /\ remembered = {}
  /\ attempts = [r \in Runtimes |-> 0] /\ replies = {}
  /\ phase = "start" /\ typed = <<>> /\ awaited = Nothing
  /\ ops = <<>> /\ results = <<>> /\ pty = "none" /\ written = <<>>
  /\ typedCount = 0 /\ faults = 0

Fault == faults < MaxFaults /\ faults' = faults + 1
Closing == IF socket = "open" THEN "closing" ELSE socket

-----------------------------------------------------------------------------
(* Any socket *)

\* A ping every interval; the peer that has not answered the last is dropped.
Heartbeat ==
  /\ socket = "open"
  /\ \/ awaiting /\ socket' = "closed" /\ UNCHANGED awaiting
     \/ ~awaiting /\ awaiting' = TRUE /\ UNCHANGED socket
  /\ UNCHANGED <<kind, silent, online, stream, questions, terminal, faults>>
Pong ==
  /\ socket = "open" /\ awaiting /\ ~silent /\ awaiting' = FALSE
  /\ UNCHANGED <<kind, socket, silent, online, stream, questions, terminal, faults>>

FallSilent ==
  /\ ~silent /\ silent' = TRUE
  /\ UNCHANGED <<kind, socket, awaiting, online, stream, questions, terminal, faults>>

\* The page is closed, or the closing handshake or its timer ends.
PageCloses ==
  /\ socket # "closed" /\ socket' = "closed"
  /\ UNCHANGED <<kind, peer, online, stream, questions, terminal, faults>>
\* The operator's authentication expires.
Expire ==
  /\ socket = "open" /\ socket' = "closing"
  /\ kind = "stream" \/ phase = "serving"
  /\ UNCHANGED <<kind, peer, online, stream, questions, terminal, faults>>

Leave(r) ==
  /\ r \in online /\ Fault /\ online' = online \ {r}
  /\ UNCHANGED <<kind, socket, peer, stream, questions, terminal>>
Return(r) ==
  /\ r \notin online /\ online' = online \cup {r}
  /\ UNCHANGED <<kind, socket, peer, stream, questions, terminal, faults>>

-----------------------------------------------------------------------------
(* The official stream *)

\* HubBrowserStreamWriter.enqueue(): room, or the socket closes.
Enqueue(n) ==
  \/ /\ shut \/ socket # "open"
     /\ UNCHANGED <<queue, shut, socket>>
  \/ /\ ~shut /\ socket = "open" /\ Len(queue) < MaxPending
     /\ queue' = Append(queue, n) /\ UNCHANGED <<shut, socket>>
  \/ /\ ~shut /\ socket = "open" /\ Len(queue) >= MaxPending
     /\ shut' = TRUE /\ socket' = "closing" /\ UNCHANGED queue

Subscribed == kind = "stream" /\ socket # "closed"

\* The broker publishes a frame of an online runtime.
Publish ==
  /\ Subscribed /\ online # {} /\ frames < MaxFrames
  /\ frames' = frames + 1 /\ Enqueue(frames + 1)
  /\ UNCHANGED <<kind, peer, online, got, questions, terminal, faults>>

\* A runtime asks: whoever is subscribed remembers whose question it is.
Ask(r) ==
  /\ Subscribed /\ r \in online /\ asked[r] = 0 /\ frames < MaxFrames
  /\ frames' = frames + 1 /\ Enqueue(frames + 1)
  /\ asked' = [asked EXCEPT ![r] = frames + 1] /\ remembered' = remembered \cup {r}
  /\ UNCHANGED <<kind, peer, online, got, attempts, replies, terminal, faults>>

\* Mutant: an interruption does not concern the browser.
InterruptUnnoticed ==
  /\ Subscribed /\ frames < MaxFrames /\ frames' = frames + 1
  /\ UNCHANGED <<kind, socket, peer, online, queue, shut, got, questions, terminal, faults>>
\* Frames were dropped on their way: the browser has to begin anew.
Interrupt ==
  /\ Subscribed /\ frames < MaxFrames /\ frames' = frames + 1
  /\ socket' = Closing
  /\ UNCHANGED <<kind, peer, online, queue, shut, got, questions, terminal, faults>>

\* The write at the head of the chain, or its refusal.
Write ==
  /\ queue # <<>> /\ queue' = Tail(queue)
  /\ \/ /\ socket = "open" /\ ~shut /\ ~silent
        /\ got' = Append(got, Head(queue)) /\ UNCHANGED <<shut, socket>>
     \/ /\ socket # "open" \/ shut
        /\ shut' = TRUE /\ socket' = Closing /\ UNCHANGED got
  /\ UNCHANGED <<kind, peer, online, frames, questions, terminal, faults>>

-----------------------------------------------------------------------------
(* Answers to questions, over HTTP *)

First == IF online = {} THEN {} ELSE {CHOOSE r \in online : \A p \in online : r <= p}

\* Mutant: the runtime the page shows comes before the one that asked.
TargetShownFirst(r, shown) ==
  IF shown \in online THEN {shown} ELSE IF r \in remembered THEN {r} ELSE First
\* proxyOfficialRequest(), client-response: the one that asked, the one the page
\* shows, or the first there is.
Target(r, shown) ==
  IF r \in remembered THEN {r} ELSE IF shown \in online THEN {shown} ELSE First

\* interactionTarget() forgets the question at the first attempt.
Answer(r, shown) ==
  /\ kind = "stream" /\ asked[r] # 0 /\ \E i \in DOMAIN got : got[i] = asked[r]
  /\ attempts[r] < MaxAttempts /\ attempts' = [attempts EXCEPT ![r] = @ + 1]
  /\ remembered' = remembered \ {r}
  /\ replies' = replies \cup
       {[of |-> r, to |-> p, again |-> attempts[r] > 0] : p \in Target(r, shown) \cap online}
  /\ UNCHANGED <<kind, socket, peer, online, stream, asked, terminal, faults>>

-----------------------------------------------------------------------------
(* The terminal: openBrowserTerminal() *)

Terminal == kind = "terminal"
Send(op) == ops' = Append(ops, op) /\ awaited' = op
Fails == phase' = "failed" /\ socket' = Closing

OpenTerminal ==
  /\ Terminal /\ phase = "start"
  /\ \/ /\ Here \in online /\ Send(Op("open", 0))
        /\ phase' = "opening" /\ UNCHANGED socket
     \/ /\ Here \notin online /\ Fails /\ UNCHANGED <<ops, awaited>>
  /\ UNCHANGED <<kind, peer, online, stream, questions, typed, results, pty, written, typedCount, faults>>

\* HubProfileManager.terminal(): one operation at a time, in order.
Execute ==
  /\ Terminal /\ Here \in online /\ ops # <<>> /\ ops' = Tail(ops)
  /\ LET o == Head(ops)
         Ends(ok) == results' = Append(results, [of |-> o, ok |-> ok]) IN
     \/ /\ o.op = "open" /\ pty' = "running" /\ Ends(TRUE) /\ UNCHANGED <<written, faults>>
     \/ /\ o.op = "write" /\ pty = "running"
        /\ written' = Append(written, o.n) /\ Ends(TRUE) /\ UNCHANGED <<pty, faults>>
     \/ /\ o.op = "write" /\ pty # "running" /\ Ends(FALSE) /\ UNCHANGED <<pty, written, faults>>
     \/ /\ o.op = "close" /\ pty' = "gone" /\ Ends(TRUE) /\ UNCHANGED <<written, faults>>
     \/ /\ o.op \in {"open", "write"} /\ Fault /\ Ends(FALSE) /\ UNCHANGED <<pty, written>>
  /\ UNCHANGED <<kind, socket, peer, online, stream, questions, phase, typed, awaited, typedCount>>

\* onExit().
ShellExits ==
  /\ pty = "running" /\ Fault /\ pty' = "gone"
  /\ UNCHANGED <<kind, socket, peer, online, stream, questions, phase, typed, awaited, ops, results,
                 written, typedCount>>

\* Mutant: a command that failed is put back into the chain.
RetryWrite(n) == socket' = Closing /\ typed' = <<n>> \o typed
\* The chain reports and closes the socket, and goes on with what it has.
FailWrite(n) == socket' = Closing /\ UNCHANGED typed

\* What openBrowserTerminal() does when the command it waits for ends.
Ended(ok) ==
  /\ awaited' = Nothing
  /\ \/ /\ awaited.op = "open" /\ ok /\ phase' = "announcing" /\ UNCHANGED <<socket, typed>>
     \/ /\ awaited.op = "open" /\ ~ok /\ Fails /\ UNCHANGED typed
     \/ /\ awaited.op = "write" /\ ok /\ UNCHANGED <<phase, socket, typed>>
     \/ /\ awaited.op = "write" /\ ~ok /\ FailWrite(awaited.n) /\ UNCHANGED phase
     \/ /\ awaited.op = "close" /\ phase' = "ended" /\ UNCHANGED <<socket, typed>>

\* A result reaches the Hub; the one somebody waits for wakes him.
TakeResult ==
  /\ Here \in online /\ results # <<>> /\ results' = Tail(results)
  /\ \/ /\ Head(results).of = awaited /\ Ended(Head(results).ok)
     \/ /\ Head(results).of # awaited /\ UNCHANGED <<awaited, phase, socket, typed>>
  /\ UNCHANGED <<kind, peer, online, stream, questions, ops, pty, written, typedCount, faults>>

Timeout ==
  /\ awaited # Nothing /\ Ended(FALSE)
  /\ UNCHANGED <<kind, peer, online, stream, questions, ops, results, pty, written, typedCount, faults>>

\* { type: 'opened' } is sent, or throws because the page is gone.
Announce ==
  /\ Terminal /\ phase = "announcing"
  /\ \/ socket = "open" /\ phase' = "serving" /\ UNCHANGED socket
     \/ socket # "open" /\ Fails
  /\ UNCHANGED <<kind, peer, online, stream, questions, typed, awaited, ops, results, pty, written,
                 typedCount, faults>>

Type ==
  /\ Terminal /\ phase = "serving" /\ socket = "open" /\ ~silent
  /\ typedCount < MaxInputs /\ typedCount' = typedCount + 1
  /\ typed' = Append(typed, typedCount + 1)
  /\ UNCHANGED <<kind, socket, peer, online, stream, questions, phase, awaited, ops, results, pty,
                 written, faults>>

\* The next message of the chain.
WriteNext ==
  /\ Terminal /\ phase = "serving" /\ typed # <<>> /\ awaited = Nothing
  /\ typed' = Tail(typed)
  /\ \/ Here \in online /\ Send(Op("write", Head(typed))) /\ UNCHANGED socket
     \/ Here \notin online /\ socket' = Closing /\ UNCHANGED <<ops, awaited>>
  /\ UNCHANGED <<kind, peer, online, stream, questions, phase, results, pty, written, typedCount, faults>>

\* Mutant: nothing is cleaned up after a browser that went silent.
CloseableAnswered == socket = "closed" /\ typed = <<>> /\ awaited = Nothing /\ ~silent
\* The socket has closed and the chain has run dry.
Closeable == socket = "closed" /\ typed = <<>> /\ awaited = Nothing

CloseTerminal ==
  /\ Terminal /\ phase = "serving" /\ Closeable
  /\ \/ Here \in online /\ Send(Op("close", 0)) /\ phase' = "ending"
     \/ Here \notin online /\ phase' = "ended" /\ UNCHANGED <<ops, awaited>>
  /\ UNCHANGED <<kind, socket, peer, online, stream, questions, typed, results, pty, written, typedCount, faults>>

Next ==
  \/ Heartbeat \/ Pong \/ FallSilent \/ PageCloses \/ Expire
  \/ \E r \in Runtimes : Leave(r) \/ Return(r) \/ Ask(r)
  \/ \E r \in Runtimes, shown \in Runtimes \cup {0} : Answer(r, shown)
  \/ Publish \/ Interrupt \/ Write
  \/ OpenTerminal \/ Execute \/ ShellExits \/ TakeResult \/ Timeout \/ Announce
  \/ Type \/ WriteNext \/ CloseTerminal

\* The Hub's timers and promises and the supervisor run; the page, the network
\* and the operator do what they like.
Fairness ==
  /\ WF_vars(Heartbeat) /\ WF_vars(Write)
  /\ WF_vars(Execute) /\ WF_vars(TakeResult) /\ WF_vars(Timeout)
  /\ WF_vars(OpenTerminal) /\ WF_vars(Announce) /\ WF_vars(WriteNext) /\ WF_vars(CloseTerminal)

Spec == Init /\ [][Next]_vars /\ Fairness

-----------------------------------------------------------------------------
(* Properties *)

Command == [op : {"open", "close"}, n : {0}] \cup [op : {"write"}, n : 1 .. MaxInputs]
TypeOK ==
  /\ kind \in {"stream", "terminal"} /\ socket \in {"open", "closing", "closed"}
  /\ {silent, awaiting, shut} \subseteq BOOLEAN /\ online \subseteq Runtimes
  /\ frames \in 0 .. MaxFrames /\ got \in Seq(1 .. MaxFrames)
  /\ queue \in Seq(1 .. MaxFrames) /\ Len(queue) <= MaxPending
  /\ asked \in [Runtimes -> 0 .. MaxFrames] /\ remembered \subseteq Runtimes
  /\ attempts \in [Runtimes -> 0 .. MaxAttempts]
  /\ replies \subseteq [of : Runtimes, to : Runtimes, again : BOOLEAN]
  /\ phase \in {"start", "opening", "announcing", "serving", "ending", "ended", "failed"}
  /\ typed \in Seq(1 .. MaxInputs) /\ written \in Seq(1 .. MaxInputs)
  /\ awaited \in Command \cup {Nothing} /\ ops \in Seq(Command)
  /\ results \in Seq([of : Command, ok : BOOLEAN])
  /\ pty \in {"none", "running", "gone"} /\ typedCount \in 0 .. MaxInputs
  /\ faults \in 0 .. MaxFaults

\* A browser never sees a stream with a hole in it: what it received is the first
\* of what was published, and while its socket is open the rest is on the way.
\* Frames too many for the writer, and frames lost before the Hub, end the socket.
StreamHasNoHole ==
  /\ \A i \in DOMAIN got : got[i] = i
  /\ socket = "open" /\ kind = "stream" => Len(got) + Len(queue) = frames

\* An answer goes to the runtime that asked, whatever the page shows; only an
\* answer tried again can go astray.
AnswersGoHome == \A a \in replies : ~a.again => a.to = a.of

\* Keystrokes reach the PTY in the order they were typed and none twice, whatever
\* is late, refused or lost between.
InputInOrder == \A i, k \in DOMAIN written : i < k => written[i] < written[k]

\* The PTY of a terminal that was served is closed with its page, as long as its
\* node is connected.
PtyClosesWithPage ==
  (phase = "serving" /\ socket = "closed") ~> (pty # "running" \/ Here \notin online)
=============================================================================
