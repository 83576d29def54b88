---------------------------- MODULE ApprovalGate ----------------------------
(***************************************************************************)
(* What an approval gate promises for each thing that needs a person's     *)
(* approval: it is carried out only after a person released it, and at     *)
(* most once; a verdict, once given, is never taken back.                  *)
(*                                                                         *)
(* Three parts of the system keep this promise by different means: the     *)
(* gated tool calls of agent runs (AgentApprovals), where runs, job        *)
(* deliveries and sweeps share the work; the approved sends of an invoice  *)
(* (Invoices), where a retry may meet a spent card; and the requested      *)
(* changes of a subscription (Subscriptions), applied in one transaction.  *)
(***************************************************************************)
CONSTANT Approvals          \* the gated calls, sends or changes

VARIABLE gate               \* how far each of them has come

States == {"unasked", "asked", "released", "refused", "carried_out"}

TypeOK == gate \in [Approvals -> States]

Init == gate = [a \in Approvals |-> "unasked"]

Move(a, from, to) ==
  /\ gate[a] = from
  /\ gate' = [gate EXCEPT ![a] = to]

\* A person is asked about it.
Ask(a) == Move(a, "unasked", "asked")

\* The person answers, once.
Release(a) == Move(a, "asked", "released")
Refuse(a)  == Move(a, "asked", "refused")

\* What was released is done; there is no way back from here.
CarryOut(a) == Move(a, "released", "carried_out")

Next == \E a \in Approvals : Ask(a) \/ Release(a) \/ Refuse(a) \/ CarryOut(a)

Spec == Init /\ [][Next]_gate
=============================================================================
