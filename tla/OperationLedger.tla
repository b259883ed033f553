--------------------------- MODULE OperationLedger --------------------------
(***************************************************************************)
(* What yaca promises of the side effects of its tools, whatever fails and *)
(* wherever the process ends: an effect is preceded by a durable intent,   *)
(* no operation is intended while another has no result, and a result says *)
(* nothing of the effect that is not so.  ToolOperations implements it.    *)
(***************************************************************************)
EXTENDS Naturals

CONSTANT Operations

VARIABLES
  ledger,    \* "none", "intended", or the durable result of each operation
  effect     \* what each has done to the world

vars == <<ledger, effect>>

Results == {"ok", "error", "cancelled", "unknown"}
Effects == {"none", "running", "partial", "done"}

\* "error" and "cancelled" may leave an effect behind, but none that goes on.
Sincere(result, done) ==
  /\ result = "ok" => done = "done"
  /\ result \in {"error", "cancelled"} => done # "running"

Init ==
  /\ ledger = [o \in Operations |-> "none"]
  /\ effect = [o \in Operations |-> "none"]

Intend(o) ==
  /\ ledger[o] = "none"
  /\ \A p \in Operations : ledger[p] # "intended"
  /\ ledger' = [ledger EXCEPT ![o] = "intended"]
  /\ UNCHANGED effect

\* Only an operation without a result, or one reported as unknown, changes
\* anything.
Work(o) ==
  /\ ledger[o] \in {"intended", "unknown"}
  /\ \E e \in Effects : effect' = [effect EXCEPT ![o] = e]
  /\ UNCHANGED ledger

Settle(o) ==
  /\ ledger[o] = "intended"
  /\ \E r \in Results :
       Sincere(r, effect[o]) /\ ledger' = [ledger EXCEPT ![o] = r]
  /\ UNCHANGED effect

Next == \E o \in Operations : Intend(o) \/ Work(o) \/ Settle(o)

Spec == Init /\ [][Next]_vars
=============================================================================
