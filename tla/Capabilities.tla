----------------------------- MODULE Capabilities -----------------------------
(***************************************************************************)
(* The operations a runtime advertises with their recovery class, and its  *)
(* streams (hub-capabilities/src/index.ts).  The class decides what the    *)
(* Node Agent does with a request whose execution a crash interrupted.     *)
(***************************************************************************)
Class == {"read", "idempotent", "reconcile", "never-retry"}

modelSync == [prepare |-> "never-retry", export |-> "read", apply |-> "never-retry",
              cancel |-> "idempotent"]
sessionLifecycle == [inventory |-> "read", archive |-> "reconcile", unarchive |-> "reconcile",
                     trash |-> "reconcile", restore |-> "reconcile", purge |-> "reconcile"]
sessions == [list |-> "read", read |-> "read", create |-> "idempotent",
             append |-> "reconcile", steer |-> "reconcile", cancel |-> "idempotent",
             respond |-> "idempotent"]
terminals == [open |-> "idempotent", write |-> "never-retry", resize |-> "idempotent",
              close |-> "idempotent"]
plugins == [inventory |-> "read", check |-> "read", apply |-> "idempotent",
            history |-> "read", rollback |-> "reconcile"]
snapshots == [create |-> "idempotent", list |-> "read", restore |-> "reconcile"]
settings == [read |-> "read", update |-> "reconcile"]
files == [list |-> "read", read |-> "read", write |-> "reconcile", remove |-> "reconcile"]
web == [fetch |-> "reconcile"]
runtime == [health |-> "read"]

\* A request of this class is carried out again after a crash; one that is
\* never retried is answered outcome-unknown.
Repeatable(class) == class \in Class \ {"never-retry"}

\* What a stream can be rebuilt from, so that frames of it may be left out.
Reconstructible == [index |-> TRUE, events |-> TRUE, mux |-> TRUE, host |-> TRUE,
                    inventory |-> TRUE, health |-> TRUE, changed |-> TRUE,
                    output |-> FALSE]
=============================================================================
