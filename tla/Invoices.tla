------------------------------ MODULE Invoices ------------------------------
(***************************************************************************)
(* One invoice: the status that staff, the payment webhook, an approved    *)
(* send and the overdue sweep all write.                                   *)
(*                                                                         *)
(* Payments, sends and chases work under the invoice's row lock; the two   *)
(* staff actions, mark paid and void, read the row without it and write    *)
(* what the read allowed.  A step is one statement, or the statements      *)
(* between two points where another transaction can be seen.  Amounts are  *)
(* counted in payments of one unit.                                        *)
(***************************************************************************)
EXTENDS Naturals, Functions

CONSTANTS
  Payments,  \* payments of this invoice: provider events, or entries by staff
  Total,     \* invoices.total_pence, in payments
  Cards,     \* approvals rows that may ask to send it
  Earlier,   \* chase tickets before the last one that are kept account of
  Workers,   \* requests and job handlers that may be alive at once
  None       \* nobody, nothing

ASSUME ConstantsOK ==
  /\ Payments \cap Cards = {}
  /\ None \notin Payments \cup Cards \cup Workers

VARIABLES
  status,   \* invoices.status
  late,     \* dueAt has passed
  booked,   \* committed payments rows with status succeeded, by payment
  flagged,  \* metadata.settleSkippedAt
  card,     \* approvals.status of each send request; "spent" once consumedAt is set
  emails,   \* how often the invoice was emailed for each card (a history variable)
  chase,    \* the ticket metadata.overdueTicketId names: "none" yet, "open" as it was raised,
            \* "settled" when it is resolved or closed, "reopened" by hand
  older,    \* the same of chases raised before it
  cooling,  \* metadata.lastChasedAt is less than OVERDUE_CHASE_COOLDOWN_MS old
  lock,     \* who holds the row lock
  pc,       \* where each worker is
  arg,      \* the payment or card it works on
  covers,   \* what its sum under the lock said
  overruns  \* staff wrote over a status other than the one they read (a history variable)

invoice == <<status, flagged>>
chasing == <<late, chase, older, cooling>>
sending == <<card, emails>>
local   == <<pc, arg, covers>>
vars    == <<invoice, chasing, sending, local, booked, lock, overruns>>

Statuses == {"draft", "sent", "overdue", "paid", "void"}
Terminal == {"paid", "void"}
ChaseStates == {"none", "open", "settled", "reopened"}
PCs == {"idle", "inserted", "summed", "paying", "voiding", "sending", "chasing"}

-----------------------------------------------------------------------------
(* The state machine of invoices.ts *)

AllowedTransitions ==
  [draft   |-> {"sent", "void"},
   sent    |-> {"sent", "paid", "overdue", "void"},
   overdue |-> {"overdue", "paid", "void"},
   paid    |-> {},
   void    |-> {}]

CanTransition(from, to) == to \in AllowedTransitions[from]
SendTarget(from) == IF from = "overdue" THEN "overdue" ELSE "sent"
SendableUnlessVoid(from) == from # "void"                               \* mutant
Sendable(from) == CanTransition(from, SendTarget(from))

Covered(rows) == FoldFunction(+, 0, rows) >= Total

\* The invoice asks for something: no payment at all does not cover it.
ASSUME SomethingOwed == ~Covered([p \in Payments |-> 0])

WithRow(p) == [booked EXCEPT ![p] = @ + 1]

-----------------------------------------------------------------------------
Init ==
  /\ status = "draft" /\ late = FALSE /\ flagged = FALSE
  /\ booked = [p \in Payments |-> 0]
  /\ card = [a \in Cards |-> "none"]
  /\ emails = [a \in Cards |-> 0]
  /\ chase = "none" /\ older = [t \in Earlier |-> "none"] /\ cooling = FALSE
  /\ lock = None
  /\ pc = [w \in Workers |-> "idle"]
  /\ arg = [w \in Workers |-> None]
  /\ covers = [w \in Workers |-> FALSE]
  /\ overruns = FALSE

Goto(w, l, x, c) ==
  /\ pc' = [pc EXCEPT ![w] = l]
  /\ arg' = [arg EXCEPT ![w] = x]
  /\ covers' = [covers EXCEPT ![w] = c]

Leave(w) == Goto(w, "idle", None, FALSE)

\* SELECT ... FOR UPDATE, or an UPDATE of the row, waits until nobody else holds it.
LockIgnored == TRUE                                                     \* mutant
LockFree == lock = None

DueDatePasses ==
  /\ ~late /\ late' = TRUE
  /\ UNCHANGED <<invoice, chase, older, cooling, sending, local, booked, lock, overruns>>

-----------------------------------------------------------------------------
(* Payments *)

\* The webhook inserts the payment under the event's id.  A second delivery inserts
\* nothing, and one that meets the first still uncommitted waits for it.
UnseenCommitted(p) == booked[p] = 0                                     \* mutant
Unseen(p) == booked[p] = 0 /\ \A w \in Workers : arg[w] # p

Insert(w, p) ==
  /\ pc[w] = "idle" /\ Unseen(p)
  /\ Goto(w, "inserted", p, FALSE)
  /\ UNCHANGED <<invoice, chasing, sending, booked, lock, overruns>>

\* reconcileInvoice locks the row, then sums what is committed and its own row.
Sum(w) ==
  /\ pc[w] = "inserted" /\ LockFree
  /\ lock' = w
  /\ Goto(w, "summed", arg[w], Covered(WithRow(arg[w])))
  /\ UNCHANGED <<invoice, chasing, sending, booked, overruns>>

\* recordPayment, the entry by staff, takes the lock before it inserts.
RecordPayment(w, p) ==
  /\ pc[w] = "idle" /\ Unseen(p) /\ LockFree
  /\ lock' = w
  /\ Goto(w, "summed", p, Covered(WithRow(p)))
  /\ UNCHANGED <<invoice, chasing, sending, booked, overruns>>

\* What the sum allows, and the commit: paid, or the anomaly flagged once.
Reconcile(w) ==
  /\ pc[w] = "summed"
  /\ booked' = WithRow(arg[w])
  /\ status' = IF covers[w] /\ status \in {"sent", "overdue"} THEN "paid" ELSE status
  /\ flagged' = (flagged \/ (covers[w] /\ status \in {"draft", "void"}))
  /\ lock' = None
  /\ Leave(w)
  /\ UNCHANGED <<chasing, sending, overruns>>

-----------------------------------------------------------------------------
(* Staff: markInvoicePaid and voidInvoice read without a lock ... *)

ReadFor(w, to) ==
  /\ pc[w] = "idle"
  /\ CanTransition(status, to)
  /\ Goto(w, IF to = "paid" THEN "paying" ELSE "voiding", None, FALSE)
  /\ UNCHANGED <<invoice, chasing, sending, booked, lock, overruns>>

\* ... and applyTransition writes by id, whatever the status has become.
ApplyTransition(w) ==
  /\ pc[w] \in {"paying", "voiding"} /\ LockFree
  /\ status' = IF pc[w] = "paying" THEN "paid" ELSE "void"
  /\ overruns' = (overruns \/ ~CanTransition(status, status'))
  /\ Leave(w)
  /\ UNCHANGED <<flagged, chasing, sending, booked, lock>>

-----------------------------------------------------------------------------
(* The approved send *)

\* requestInvoiceSendOnce: a partial unique index allows one pending request.
RequestSend(a) ==
  /\ card[a] = "none" /\ Sendable(status)
  /\ \A b \in Cards : card[b] # "pending"
  /\ card' = [card EXCEPT ![a] = "pending"]
  /\ UNCHANGED <<invoice, chasing, emails, local, booked, lock, overruns>>

Decide(a) ==
  /\ card[a] = "pending"
  /\ \E verdict \in {"approved", "rejected"} : card' = [card EXCEPT ![a] = verdict]
  /\ UNCHANGED <<invoice, chasing, emails, local, booked, lock, overruns>>

UnspentOrSpent(a) == card[a] \in {"approved", "spent"}                  \* mutant
Unspent(a) == card[a] = "approved"

\* claimApproval, one transaction: consume the card, lock the invoice, move it.  Another
\* caller finds the card spent; an invoice that cannot be sent, or a client without an
\* address, rolls everything back.
ClaimApproval(w, a) ==
  /\ pc[w] = "idle" /\ Unspent(a) /\ LockFree
  /\ Sendable(status)
  /\ card' = [card EXCEPT ![a] = "spent"]
  /\ status' = SendTarget(status)
  /\ Goto(w, "sending", a, FALSE)
  /\ UNCHANGED <<flagged, chasing, emails, booked, lock, overruns>>

\* email.send after the commit.  A refusal is recorded; the card stays spent.
Email(w) ==
  /\ pc[w] = "sending"
  /\ emails' \in {emails, [emails EXCEPT ![arg[w]] = @ + 1]}
  /\ Leave(w)
  /\ UNCHANGED <<invoice, chasing, card, booked, lock, overruns>>

-----------------------------------------------------------------------------
(* The overdue sweep *)

ChaseableSent == CanTransition(status, "overdue") /\ status = "sent"    \* mutant
Chaseable == CanTransition(status, "overdue")

\* priorChase reads the last chase, and no other, without a lock on the ticket.
LastIsOpen == chase \in {"open", "reopened"}

\* Everything is asked again under the invoice's lock, whatever the scan saw.
LockForChase(w) ==
  /\ pc[w] = "idle" /\ LockFree
  /\ Chaseable /\ late /\ ~LastIsOpen /\ ~cooling
  /\ lock' = w
  /\ Goto(w, "chasing", None, FALSE)
  /\ UNCHANGED <<invoice, chasing, sending, booked, overruns>>

\* The last chase becomes an earlier one.  Earlier is a bound: a settled chase may be
\* forgotten, as one that is never reopened, and makes room for another.
Filed ==
  {older : c \in {chase} \cap {"none", "settled"}}
    \cup {[older EXCEPT ![t] = chase] : t \in {u \in Earlier : older[u] \in {"none", "settled"}}}

\* Ticket, status and stamp are one commit, even if the last chase is reopened by then.
Chase(w) ==
  /\ pc[w] = "chasing"
  /\ status' = "overdue"
  /\ older' \in Filed /\ chase' = "open"
  /\ cooling' = TRUE
  /\ lock' = None
  /\ Leave(w)
  /\ UNCHANGED <<flagged, late, sending, booked, overruns>>

\* updateTicket writes any status over any other, on the last chase or on an earlier one.
Updated(c) == IF c = "settled" THEN "reopened" ELSE "settled"

UpdateChase ==
  /\ \/ /\ chase # "none" /\ chase' = Updated(chase)
        /\ UNCHANGED older
     \/ /\ \E t \in Earlier :
             older[t] # "none" /\ older' = [older EXCEPT ![t] = Updated(@)]
        /\ UNCHANGED chase
  /\ UNCHANGED <<invoice, late, cooling, sending, local, booked, lock, overruns>>

CooldownEnds ==
  /\ cooling /\ cooling' = FALSE
  /\ UNCHANGED <<invoice, late, chase, older, sending, local, booked, lock, overruns>>

\* A transaction fails or its process dies: it rolls back, and its lock is released.  A
\* send whose claim is committed is lost with its process, the card spent.
Abort(w) ==
  /\ pc[w] # "idle"
  /\ lock' = IF lock = w THEN None ELSE lock
  /\ Leave(w)
  /\ UNCHANGED <<invoice, chasing, sending, booked, overruns>>

-----------------------------------------------------------------------------
\* What a worker does next of itself.
Proceed(w) == Sum(w) \/ Reconcile(w) \/ ApplyTransition(w) \/ Email(w)

Step(w) ==
  \/ \E p \in Payments : Insert(w, p) \/ RecordPayment(w, p)
  \/ \E to \in Terminal : ReadFor(w, to)
  \/ \E a \in Cards : ClaimApproval(w, a)
  \/ LockForChase(w) \/ Chase(w) \/ Proceed(w) \/ Abort(w)

Next ==
  \/ \E w \in Workers : Step(w)
  \/ \E a \in Cards : RequestSend(a) \/ Decide(a)
  \/ DueDatePasses \/ UpdateChase \/ CooldownEnds

Spec == Init /\ [][Next]_vars

\* The sweep runs every morning, requests go on while one of them can, and weeks pass.  A
\* sweep that rolls back runs again the next day, and not every one of them fails; which
\* worker runs it is open.
FairSweep ==
  /\ WF_vars(\E w \in Workers : Proceed(w))
  /\ SF_vars(\E w \in Workers : LockForChase(w)) /\ SF_vars(\E w \in Workers : Chase(w))
  /\ WF_vars(CooldownEnds)

-----------------------------------------------------------------------------
(* Safety *)

TypeOK ==
  /\ status \in Statuses
  /\ late \in BOOLEAN /\ flagged \in BOOLEAN /\ cooling \in BOOLEAN /\ overruns \in BOOLEAN
  /\ booked \in [Payments -> Nat]
  /\ card \in [Cards -> {"none", "pending", "approved", "rejected", "spent"}]
  /\ emails \in [Cards -> Nat]
  /\ chase \in ChaseStates /\ older \in [Earlier -> ChaseStates]
  /\ lock \in Workers \cup {None}
  /\ pc \in [Workers -> PCs]
  /\ arg \in [Workers -> Payments \cup Cards \cup {None}]
  /\ covers \in [Workers -> BOOLEAN]

\* Money that covers an invoice is never overlooked, however payments race each other,
\* the sweep and staff: the invoice is paid or void, or the anomaly is on record
\* (payments.ts, reconcileInvoice: "leave a fully-paid invoice unsettled forever").
CoveredIsSettled == Covered(booked) => status \in Terminal \/ flagged

\* A payment is booked once, however often and however closely its event is delivered
\* (webhook-sync.ts: "leaves a race window where two near-simultaneous deliveries of the
\* same event can both pass").
BookedOnce == \A p \in Payments : booked[p] <= 1

\* The states of the gate, as the card and the history show them; a send that was emailed
\* twice, or without an approval, is in none of them.
GateOf(a) ==
  CASE emails[a] = 0 /\ card[a] = "none" -> "unasked"
    [] emails[a] = 0 /\ card[a] = "pending" -> "asked"
    [] emails[a] = 0 /\ card[a] \in {"approved", "spent"} -> "released"
    [] emails[a] = 0 /\ card[a] = "rejected" -> "refused"
    [] emails[a] = 1 /\ card[a] = "spent" -> "carried_out"
    [] OTHER -> "broken"

Gate == INSTANCE ApprovalGate WITH
  Approvals <- Cards, gate <- [a \in Cards |-> GateOf(a)]

\* The approved send goes through the gate too, whoever retries or dies where: asked, decided
\* once, emailed only if released and at most once (invoice-send.ts: "at most one email per
\* approval").
GateSpec == Gate!Spec

\* The sweep raises a chase only when the one before it was settled, however sweeps overlap
\* and whatever their scans saw: a chase that is open beside the last one was settled and
\* reopened by hand (overdue.ts: the second sweep "re-reads the row the first committed,
\* sees the open ticket it just raised, and skips").
OneOpenChase == \A t \in Earlier : older[t] # "open"

\* A chase is only raised for an invoice that still is a demand on the client, a week after
\* the one before: not after it was paid or voided between the scan and the write, staff's
\* unlocked writes included (overdue.ts: "two overlapping sweeps cannot both decide the
\* cooldown has expired").
ChasedOnlyWhenDue == 
  [][chase # "open" /\ chase' = "open" => status \in {"sent", "overdue"} /\ ~cooling]_vars

\* Short of a staff request that acts on a stale read, the status only moves along the
\* table: no send, payment or chase, decided on whatever it saw before, re-opens a paid or
\* void invoice or takes an overdue one back to sent (invoices.ts: "The whole legal state
\* machine, enforced in core rather than left to each caller").
OnlyAllowedMoves ==
  [][~overruns' => status' = status \/ CanTransition(status, status')]_vars

-----------------------------------------------------------------------------
(* Liveness *)

\* An overdue invoice whose last chase is over is chased again, week after week, until it is
\* settled (overdue.ts, SWEEPABLE_STATUSES).
ChasedUntilSettled ==
  late /\ status \in {"sent", "overdue"} ~> LastIsOpen \/ status \in Terminal
=============================================================================
