--------------------------- MODULE ModelTransfer ---------------------------
(***************************************************************************)
(* Copying a model provider from one node to another through the Hub:      *)
(* the Hub's route (hub-server/src/server.ts), its transient requests that *)
(* live in memory only (hub-server/src/agents.ts,                          *)
(* hub-node-agent/src/agent.ts) and the writer of the target's             *)
(* configuration (hub-connector/src/model-sync.ts).                        *)
(*                                                                         *)
(* One target and one provider route with one credential; several          *)
(* transfers to the target at once, and a person at the target who edits   *)
(* the provider.  The sealed bundle is left out: what reaches applyOnce()  *)
(* is what the source sent.  DSH's settings and credentials are external:  *)
(* a mutation that names a revision is refused when it is not the current. *)
(*                                                                         *)
(* Bounds: MaxEdits edits at the target, MaxFaults lost sockets, crashes   *)
(* and failed calls of DSH.                                                *)
(***************************************************************************)
EXTENDS Integers, Sequences, FiniteSets, Faults

CONSTANTS Transfers,
          Replacing,     \* the transfers with replaceExisting
          MaxReceivers, MaxEdits

None == "none"
Editor == "editor"

ASSUME TransferAssumption ==
  /\ Replacing \subseteq Transfers /\ {None, Editor} \cap Transfers = {}
  /\ {MaxReceivers, MaxEdits, MaxFaults} \subseteq Nat

VARIABLES
  hub,          \* what invokeModelSync() of a transfer waits for, or its outcome
  requests,     \* requests on their way to the target's Connector
  replies,      \* its replies on their way back
  receivers,    \* transfers the Connector holds a private key for
  writing,      \* transfers that wait for the configuration writer, in order
  at, seen, before,  \* the writer: its step, the revision and credential it read
  provider, revision, credential,   \* the target's configuration
  cancelled,    \* transfers whose cancellation the Connector has handled
  torn          \* a crash or a failed reversal left the credential of a refused write

wire == <<requests, replies>>
writer == <<at, seen, before>>
target == <<provider, revision, credential>>
connector == <<receivers, writing, writer, cancelled>>
transferVars == <<hub, wire, connector, target, torn, faults>>

Request(t, op) == [transfer |-> t, op |-> op]
Reply(t, op, ok) == [transfer |-> t, op |-> op, ok |-> ok]

TransferInit ==
  /\ hub = [t \in Transfers |-> "idle"] /\ requests = <<>> /\ replies = {}
  /\ receivers = {} /\ writing = <<>>
  /\ at = "idle" /\ seen = 0 /\ before = None
  /\ provider = None /\ revision = 0 /\ credential = None
  /\ cancelled = {} /\ torn = FALSE /\ faults = 0

-----------------------------------------------------------------------------
(* The Hub: prepare, export, apply, and cancel whatever happened. *)

Ask(t, op) == /\ hub' = [hub EXCEPT ![t] = op]
              /\ requests' = Append(requests, Request(t, op))

Start(t) ==
  /\ hub[t] = "idle" /\ Ask(t, "prepare")
  /\ UNCHANGED <<replies, connector, target, torn, faults>>

\* The source answers the export, with an error if a credential is missing.
Exported(t) ==
  /\ hub[t] = "export" /\ Ask(t, "apply")
  /\ UNCHANGED <<replies, connector, target, torn, faults>>

\* The outcome is final: the receiver is cancelled, if the Hub knows of one.
Close(t, outcome) ==
  /\ hub' = [hub EXCEPT ![t] = outcome]
  /\ requests' = IF hub[t] = "prepare" THEN requests ELSE Append(requests, Request(t, "cancel"))

ExportFails(t) ==
  /\ hub[t] = "export" /\ Close(t, "failed") /\ Fault
  /\ UNCHANGED <<replies, connector, target, torn>>

\* A request is answered once; a late answer finds nobody.
Answered(r) ==
  /\ r \in replies /\ replies' = replies \ {r}
  /\ LET t == r.transfer IN
     IF hub[t] # r.op THEN UNCHANGED <<hub, requests>>
     ELSE IF ~r.ok THEN Close(t, "failed")
     ELSE IF r.op = "apply" THEN Close(t, "ok")
     ELSE hub' = [hub EXCEPT ![t] = "export"] /\ UNCHANGED requests
  /\ UNCHANGED <<connector, target, torn, faults>>

\* Thirty seconds without an answer.
TimedOut(t) ==
  /\ hub[t] \in {"prepare", "export", "apply"} /\ Close(t, "failed")
  /\ UNCHANGED <<replies, connector, target, torn, faults>>

\* The socket of the target is lost: what is on it is lost too, and nothing is
\* sent again; pending requests fail, and their cancellations have no socket.
Disconnected ==
  /\ Fault
  /\ hub' = [t \in Transfers |-> IF hub[t] \in {"prepare", "apply"} THEN "failed" ELSE hub[t]]
  /\ requests' = <<>> /\ replies' = {}
  /\ UNCHANGED <<connector, target, torn>>

-----------------------------------------------------------------------------
(* The target's Connector. *)

Say(t, op, ok) == replies' = replies \cup {Reply(t, op, ok)}

HasRoom == Cardinality(receivers) < MaxReceivers

Prepare(t) ==
  /\ receivers' = IF HasRoom THEN receivers \cup {t} ELSE receivers
  /\ Say(t, "prepare", HasRoom)
  /\ UNCHANGED <<writing, cancelled>>

Cancel(t) ==
  /\ receivers' = receivers \ {t} /\ cancelled' = cancelled \cup {t}
  /\ UNCHANGED <<writing, replies>>

\* apply() queues behind the writes under way.
Apply(t) ==
  /\ writing' = Append(writing, t)
  /\ UNCHANGED <<receivers, replies, cancelled>>

Handle ==
  /\ requests # <<>> /\ requests' = Tail(requests)
  /\ LET r == Head(requests) IN
     \/ r.op = "prepare" /\ Prepare(r.transfer)
     \/ r.op = "apply" /\ Apply(r.transfer)
     \/ r.op = "cancel" /\ Cancel(r.transfer)
  /\ UNCHANGED <<hub, writer, target, torn, faults>>

\* Two minutes after prepare().
Expire(t) ==
  /\ t \in receivers /\ receivers' = receivers \ {t}
  /\ UNCHANGED <<hub, wire, writing, writer, cancelled, target, torn, faults>>

Current == Head(writing)
Ended(ok) ==
  /\ writing' = Tail(writing) /\ at' = "idle" /\ seen' = 0 /\ before' = None
  /\ Say(Current, "apply", ok)

\* Mutant: a write whose turn has come is not checked again.
UsableOnArrival(t) == TRUE
\* The receiver exists and is used up by this.
Usable(t) == t \in receivers

\* applyOnce(): the receiver, then the configuration as it is now.
Begin ==
  /\ at = "idle" /\ writing # <<>>
  /\ receivers' = receivers \ {Current}
  /\ IF ~Usable(Current) THEN Ended(FALSE)
     ELSE IF provider # None /\ Current \notin Replacing THEN Ended(TRUE)
     ELSE at' = "resolve" /\ seen' = revision /\ UNCHANGED <<writing, before, replies>>
  /\ UNCHANGED <<hub, requests, cancelled, target, torn, faults>>

\* The credential of the route is read and saved with the configuration.
Resolve ==
  /\ at = "resolve" /\ at' = "set" /\ before' = credential
  /\ UNCHANGED <<hub, wire, receivers, writing, seen, cancelled, target, torn, faults>>

Set ==
  /\ at = "set" /\ at' = "mutate" /\ credential' = Current
  /\ UNCHANGED <<hub, wire, receivers, writing, seen, before, cancelled, provider, revision, torn, faults>>

\* Mutant: the mutation names no revision.
CurrentAlways == TRUE
\* The revision the mutation names is the current one.
StillCurrent == revision = seen

Mutate ==
  /\ at = "mutate"
  /\ IF StillCurrent
     THEN provider' = Current /\ revision' = revision + 1 /\ Ended(TRUE)
     ELSE at' = "undo" /\ UNCHANGED <<provider, revision, writing, seen, before, replies>>
  /\ UNCHANGED <<hub, requests, receivers, cancelled, credential, torn, faults>>

\* A call that writes is refused: nothing of it was done.
Refused ==
  /\ at \in {"set", "mutate"} /\ at' = "undo" /\ Fault
  /\ UNCHANGED <<hub, wire, receivers, writing, seen, before, cancelled, target, torn>>

\* Mutant: the reference is removed instead of given its old value.
UnsetOnly == IF credential = Current THEN None ELSE credential
\* Credentials this write has set get back what they held before.
Reverted == IF credential = Current THEN before ELSE credential

Undo ==
  /\ at = "undo" /\ credential' = Reverted /\ Ended(FALSE)
  /\ UNCHANGED <<hub, requests, receivers, cancelled, provider, revision, torn, faults>>

UndoFails ==
  /\ at = "undo" /\ torn' = (torn \/ credential = Current) /\ Ended(FALSE) /\ Fault
  /\ UNCHANGED <<hub, requests, receivers, cancelled, target>>

\* A step before the first write fails: the transfer ends.
ResolveFails ==
  /\ at = "resolve" /\ Ended(FALSE) /\ Fault
  /\ UNCHANGED <<hub, requests, receivers, cancelled, target, torn>>

\* The Connector stops: receivers and waiting writes are gone.
Crash ==
  /\ Fault
  /\ receivers' = {} /\ writing' = <<>> /\ at' = "idle" /\ seen' = 0 /\ before' = None
  /\ torn' = (torn \/ at \in {"mutate", "undo"})
  /\ UNCHANGED <<hub, wire, cancelled, target>>

LocalEdit ==
  /\ revision < MaxEdits + Cardinality(Transfers)
  /\ provider' = Editor /\ revision' = revision + 1
  /\ UNCHANGED <<hub, wire, connector, credential, torn, faults>>

-----------------------------------------------------------------------------
TransferNext ==
  \/ \E t \in Transfers : Start(t) \/ Exported(t) \/ ExportFails(t) \/ TimedOut(t) \/ Expire(t)
  \/ \E r \in replies : Answered(r)
  \/ Disconnected \/ Handle \/ Crash \/ LocalEdit
  \/ Begin \/ Resolve \/ Set \/ Mutate \/ Refused \/ Undo \/ UndoFails \/ ResolveFails

TransferSpec == TransferInit /\ [][TransferNext]_transferVars

-----------------------------------------------------------------------------
Ops == {"prepare", "apply", "cancel"}
Writers == Transfers \cup {None, Editor}
TransferTypeOK ==
  /\ hub \in [Transfers -> {"idle", "prepare", "export", "apply", "ok", "failed"}]
  /\ requests \in Seq([transfer : Transfers, op : Ops])
  /\ replies \subseteq [transfer : Transfers, op : Ops, ok : BOOLEAN]
  /\ receivers \subseteq Transfers /\ Cardinality(receivers) <= MaxReceivers
  /\ writing \in Seq(Transfers) /\ cancelled \subseteq Transfers
  /\ at \in {"idle", "resolve", "set", "mutate", "undo"} /\ (at # "idle" => writing # <<>>)
  /\ {provider, credential, before} \subseteq Writers /\ {revision, seen} \subseteq Nat

\* A transfer that does not replace never overwrites a provider, whenever it
\* was configured.
MatchingIsKept ==
  [][\A t \in Transfers \ Replacing : provider' = t => provider \in {None, t}]_transferVars

\* A write that was refused leaves no trace: a provider that came with a transfer
\* has the credential of that transfer, unless the target stopped or could not
\* revert it.
CredentialFits ==
  at = "idle" /\ ~torn =>
    /\ provider \in Transfers => credential = provider
    /\ provider = None => credential = None

\* A transfer that the Hub has given up and cancelled is not written later.
CancelledStaysOut ==
  [][\A t \in cancelled : (at = "idle" \/ Current # t) => (provider' = t => provider = t)
                          /\ (at' # "idle" => Head(writing') # t)]_transferVars
=============================================================================
