--------------------------- MODULE MCBilling_proofs ---------------------------
(***************************************************************************)
(* Proofs about one invoice, for any number of payments, approval cards    *)
(* and workers; about one subscription, for any number of reconciles and   *)
(* requests; and about the three billing components side by side.          *)
(***************************************************************************)
EXTENDS MCBilling, TLAPS

-----------------------------------------------------------------------------
(* One invoice *)

\* The row lock belongs to exactly the transactions that took it.
LockHeld == \A w \in Workers : lock = w <=> pc[w] \in {"summed", "chasing"}

\* A payment being inserted is not booked, and is one worker's alone.
OwnPayment ==
  \A w \in Workers : pc[w] \in {"inserted", "summed"} =>
    /\ arg[w] \in Payments /\ booked[arg[w]] = 0
    /\ \A u \in Workers : arg[u] = arg[w] => u = w

\* Under the lock, what was read still holds.
ReadHolds ==
  \A w \in Workers :
    /\ pc[w] = "summed" => covers[w] = Covered(WithRow(arg[w]))
    /\ pc[w] = "chasing" => status \in {"sent", "overdue"} /\ ~cooling /\ chase # "open"

\* The email of a spent card is one worker's to send, and only before it was sent.
OwnSend ==
  /\ \A w \in Workers : pc[w] = "sending" =>
       /\ arg[w] \in Cards /\ card[arg[w]] = "spent" /\ emails[arg[w]] = 0
       /\ \A u \in Workers : arg[u] = arg[w] => u = w
  /\ \A w \in Workers : arg[w] \in Cards => pc[w] = "sending"
  /\ \A a \in Cards : card[a] # "spent" => emails[a] = 0

\* An approval sends one email at most.
OneEmailPerApproval == \A a \in Cards : emails[a] <= 1

Safe == CoveredIsSettled /\ BookedOnce /\ OneEmailPerApproval /\ OneOpenChase

IInv == TypeOK /\ LockHeld /\ OwnPayment /\ ReadHolds /\ OwnSend /\ Safe

LEMMA CoveredBoolean == ASSUME NEW rows PROVE Covered(rows) \in BOOLEAN
<1> DEFINE sum == FoldFunction(+, 0, rows)
<1>1. Covered(rows) = (sum >= Total)
  BY DEF Covered
<1> HIDE DEF sum
<1>2. QED
  BY <1>1

LEMMA IInvStep == IInv /\ [Next]_vars => IInv'
<1> SUFFICES ASSUME IInv, [Next]_vars PROVE IInv'
  OBVIOUS
<1> USE ConstantsOK DEF IInv, TypeOK, LockHeld, OwnPayment, ReadHolds, OwnSend, Safe,
        CoveredIsSettled, BookedOnce, OneEmailPerApproval, OneOpenChase,
        Statuses, Terminal, ChaseStates, PCs, WithRow,
        invoice, chasing, sending, local, Goto, Leave, LockFree
<1>1. ASSUME NEW w \in Workers, NEW p \in Payments, Insert(w, p) PROVE IInv'
  BY <1>1 DEF Insert, Unseen
<1>2. ASSUME NEW w \in Workers, NEW p \in Payments, RecordPayment(w, p) PROVE IInv'
  <2>1. TypeOK'
    <3>1. Covered(WithRow(p)) \in BOOLEAN
      BY CoveredBoolean
    <3> DEFINE c == Covered(WithRow(p))
    <3>2. covers' = [covers EXCEPT ![w] = c]
      BY <1>2 DEF RecordPayment
    <3> HIDE DEF c
    <3>3. c \in BOOLEAN
      BY <3>1 DEF c
    <3>4. covers' \in [Workers -> BOOLEAN]
      BY <3>2, <3>3
    <3>5. QED
      BY <1>2, <3>4 DEF RecordPayment
  <2>2. LockHeld'
    BY <1>2 DEF RecordPayment, Unseen
  <2>3. OwnPayment'
    BY <1>2 DEF RecordPayment, Unseen
  <2>4. ReadHolds'
    BY <1>2 DEF RecordPayment, Unseen
  <2>5. OwnSend'
    BY <1>2 DEF RecordPayment, Unseen
  <2>6. Safe'
    BY <1>2 DEF RecordPayment, Unseen
  <2>7. QED
    BY <2>1, <2>2, <2>3, <2>4, <2>5, <2>6
<1>3. ASSUME NEW w \in Workers, Sum(w) PROVE IInv'
  <2>1. TypeOK'
    <3>1. Covered(WithRow(arg[w])) \in BOOLEAN
      BY CoveredBoolean
    <3> DEFINE c == Covered(WithRow(arg[w]))
    <3>2. covers' = [covers EXCEPT ![w] = c]
      BY <1>3 DEF Sum
    <3> HIDE DEF c
    <3>3. c \in BOOLEAN
      BY <3>1 DEF c
    <3>4. covers' \in [Workers -> BOOLEAN]
      BY <3>2, <3>3
    <3>5. QED
      BY <1>3, <3>4 DEF Sum
  <2>2. LockHeld'
    BY <1>3 DEF Sum
  <2>3. OwnPayment'
    BY <1>3 DEF Sum
  <2>4. ReadHolds'
    BY <1>3 DEF Sum
  <2>5. OwnSend'
    BY <1>3 DEF Sum
  <2>6. Safe'
    BY <1>3 DEF Sum
  <2>7. QED
    BY <2>1, <2>2, <2>3, <2>4, <2>5, <2>6
<1>4. ASSUME NEW w \in Workers, Reconcile(w) PROVE IInv'
  <2>1. TypeOK'
    BY <1>4 DEF Reconcile
  <2>2. LockHeld'
    BY <1>4 DEF Reconcile
  <2>3. OwnPayment'
    BY <1>4 DEF Reconcile
  <2>4. ReadHolds'
    BY <1>4 DEF Reconcile
  <2>5. OwnSend'
    BY <1>4 DEF Reconcile
  <2>6. Safe'
    <3>1. CoveredIsSettled'
      <4>1. booked' = WithRow(arg[w]) /\ covers[w] = Covered(WithRow(arg[w]))
        BY <1>4 DEF Reconcile
      <4>2. status \in Statuses
        OBVIOUS
      <4> HIDE DEF WithRow
      <4>3. covers[w] => status' \in Terminal \/ flagged'
        BY <1>4, <4>2 DEF Reconcile
      <4>4. QED
        BY <4>1, <4>3
    <3>2. BookedOnce'
      BY <1>4 DEF Reconcile
    <3>3. OneEmailPerApproval' /\ OneOpenChase'
      BY <1>4 DEF Reconcile
    <3>4. QED
      BY <3>1, <3>2, <3>3
  <2>7. QED
    BY <2>1, <2>2, <2>3, <2>4, <2>5, <2>6
<1>5. ASSUME NEW w \in Workers, NEW to \in Terminal, ReadFor(w, to) PROVE IInv'
  BY <1>5 DEF ReadFor
<1>6. ASSUME NEW w \in Workers, ApplyTransition(w) PROVE IInv'
  BY <1>6 DEF ApplyTransition
<1>7. ASSUME NEW a \in Cards, RequestSend(a) \/ Decide(a) PROVE IInv'
  BY <1>7 DEF RequestSend, Decide
<1>8. ASSUME NEW w \in Workers, NEW a \in Cards, ClaimApproval(w, a) PROVE IInv'
  BY <1>8 DEF ClaimApproval, Unspent, Sendable, CanTransition, AllowedTransitions, SendTarget
<1>9. ASSUME NEW w \in Workers, Email(w) PROVE IInv'
  BY <1>9 DEF Email
<1>10. ASSUME NEW w \in Workers, LockForChase(w) PROVE IInv'
  BY <1>10 DEF LockForChase, LastIsOpen, Chaseable, CanTransition, AllowedTransitions
<1>11. ASSUME NEW w \in Workers, Chase(w) PROVE IInv'
  <2>1. TypeOK'
    <3>1. older' \in [Earlier -> ChaseStates]
      BY <1>11 DEF Chase, Filed
    <3>2. QED
      BY <1>11, <3>1 DEF Chase
  <2>2. LockHeld'
    BY <1>11 DEF Chase
  <2>3. OwnPayment'
    BY <1>11 DEF Chase
  <2>4. ReadHolds'
    BY <1>11 DEF Chase
  <2>5. OwnSend'
    BY <1>11 DEF Chase
  <2>6. Safe'
    <3>1. CoveredIsSettled'
      <4>1. Covered(booked) => flagged
        BY <1>11 DEF Chase
      <4>2. booked' = booked /\ flagged' = flagged
        BY <1>11 DEF Chase
      <4>3. QED
        BY <4>1, <4>2
    <3>2. BookedOnce' /\ OneEmailPerApproval'
      BY <1>11 DEF Chase
    <3>3. OneOpenChase'
      <4>1. chase # "open"
        BY <1>11 DEF Chase
      <4>2. QED
        BY <1>11, <4>1 DEF Chase, Filed
    <3>4. QED
      BY <3>1, <3>2, <3>3
  <2>7. QED
    BY <2>1, <2>2, <2>3, <2>4, <2>5, <2>6
<1>12. ASSUME NEW w \in Workers, Abort(w) PROVE IInv'
  BY <1>12 DEF Abort
<1>13. ASSUME DueDatePasses \/ UpdateChase \/ CooldownEnds PROVE IInv'
  <2>1. CASE DueDatePasses
    BY <2>1 DEF DueDatePasses
  <2>2. CASE UpdateChase
    BY <2>2 DEF UpdateChase, Updated
  <2>3. CASE CooldownEnds
    <3>1. TypeOK'
      BY <2>3 DEF CooldownEnds
    <3>2. LockHeld' /\ OwnPayment'
      BY <2>3 DEF CooldownEnds
    <3>3. ReadHolds'
      BY <2>3 DEF CooldownEnds
    <3>4. OwnSend' /\ Safe'
      BY <2>3 DEF CooldownEnds
    <3>5. QED
      BY <3>1, <3>2, <3>3, <3>4
  <2>4. QED
    BY <1>13, <2>1, <2>2, <2>3
<1>14. ASSUME UNCHANGED vars PROVE IInv'
  BY <1>14 DEF vars
<1>15. QED
  <2> HIDE DEF IInv
  <2>1. QED
    BY <1>1, <1>2, <1>3, <1>4, <1>5, <1>6, <1>7, <1>8, <1>9, <1>10, <1>11, <1>12, <1>13,
       <1>14 DEF Next, Step, Proceed

LEMMA InvoiceInit == Init => IInv
<1> SUFFICES ASSUME Init PROVE IInv
  OBVIOUS
<1> USE DEF Init
<1>1. TypeOK
  BY DEF TypeOK, Statuses, ChaseStates, PCs
<1>2. LockHeld /\ OwnPayment /\ ReadHolds
  BY ConstantsOK DEF LockHeld, OwnPayment, ReadHolds
<1>3. OwnSend
  BY ConstantsOK DEF OwnSend
<1>4. CoveredIsSettled
  BY SomethingOwed DEF CoveredIsSettled
<1>5. BookedOnce /\ OneEmailPerApproval /\ OneOpenChase
  BY DEF BookedOnce, OneEmailPerApproval, OneOpenChase
<1>6. QED
  BY <1>1, <1>2, <1>3, <1>4, <1>5 DEF IInv, Safe

LEMMA Invariant == Spec => []IInv
BY InvoiceInit, IInvStep, PTL DEF Spec

\* Every variable keeps its type.
THEOREM InvoiceTyped == Spec => []TypeOK
<1>1. IInv => TypeOK
  BY DEF IInv, Safe
<1>2. QED
  BY Invariant, <1>1, PTL

\* Payments that cover the invoice are never overlooked, however they race.
THEOREM NothingOverlooked == Spec => []CoveredIsSettled
<1>1. IInv => CoveredIsSettled
  BY DEF IInv, Safe
<1>2. QED
  BY Invariant, <1>1, PTL

\* No event is booked twice, however its deliveries overlap.
THEOREM EventsBookedOnce == Spec => []BookedOnce
<1>1. IInv => BookedOnce
  BY DEF IInv, Safe
<1>2. QED
  BY Invariant, <1>1, PTL

LEMMA SendGateStep ==
  ASSUME IInv, [Next]_vars
  PROVE  [Gate!Next]_([a \in Cards |-> GateOf(a)])
<1> DEFINE g == [a \in Cards |-> GateOf(a)]
<1> USE DEF IInv, TypeOK, OwnSend, sending, local, Goto, Leave
<1>1. ASSUME UNCHANGED <<card, emails>> PROVE g' = g
  BY <1>1 DEF GateOf
<1>0. ASSUME NEW a \in Cards, NEW from, NEW to,
             GateOf(a) = from, GateOf(a)' = to,
             \A b \in Cards : b # a => card'[b] = card[b] /\ emails'[b] = emails[b]
      PROVE  Gate!Move(a, from, to)
  <2>1. \A b \in Cards : b # a => g'[b] = g[b]
    BY <1>0 DEF GateOf
  <2>2. g' = [g EXCEPT ![a] = to]
    BY <1>0, <2>1
  <2>3. QED
    BY <1>0, <2>2 DEF Gate!Move
<1>2. ASSUME NEW a \in Cards, RequestSend(a) PROVE Gate!Ask(a)
  <2>1. card[a] = "none" /\ emails' = emails /\ card' = [card EXCEPT ![a] = "pending"]
    BY <1>2 DEF RequestSend
  <2>2. GateOf(a) = "unasked" /\ GateOf(a)' = "asked"
    BY <2>1 DEF GateOf
  <2>3. QED
    BY <1>0, <2>1, <2>2 DEF Gate!Ask
<1>3. ASSUME NEW a \in Cards, Decide(a) PROVE Gate!Release(a) \/ Gate!Refuse(a)
  <2>1. PICK v \in {"approved", "rejected"} : card' = [card EXCEPT ![a] = v]
    BY <1>3 DEF Decide
  <2>2. card[a] = "pending" /\ emails' = emails
    BY <1>3 DEF Decide
  <2>3. GateOf(a) = "asked" /\ GateOf(a)' = (IF v = "approved" THEN "released" ELSE "refused")
    BY <2>1, <2>2 DEF GateOf
  <2>4. QED
    BY <1>0, <2>1, <2>2, <2>3 DEF Gate!Release, Gate!Refuse
<1>4. ASSUME NEW w \in Workers, NEW a \in Cards, ClaimApproval(w, a) PROVE g' = g
  <2>1. card[a] = "approved" /\ emails' = emails /\ card' = [card EXCEPT ![a] = "spent"]
    BY <1>4 DEF ClaimApproval, Unspent
  <2>2. GateOf(a) = "released" /\ GateOf(a)' = "released"
    BY <2>1 DEF GateOf
  <2>3. \A b \in Cards : b # a => GateOf(b)' = GateOf(b)
    BY <2>1 DEF GateOf
  <2>4. QED
    BY <2>2, <2>3
<1>5. ASSUME NEW w \in Workers, Email(w)
      PROVE  (\E a \in Cards : Gate!CarryOut(a)) \/ g' = g
  <2>1. arg[w] \in Cards /\ card[arg[w]] = "spent" /\ emails[arg[w]] = 0 /\ card' = card
    BY <1>5 DEF Email
  <2>2. CASE emails' = emails
    BY <1>1, <2>1, <2>2
  <2>3. CASE emails' = [emails EXCEPT ![arg[w]] = @ + 1]
    <3>1. PICK c \in Cards : c = arg[w]
      BY <2>1
    <3>2. card[c] = "spent" /\ emails[c] = 0 /\ card' = card /\ emails' = [emails EXCEPT ![c] = 1]
      BY <2>1, <2>3, <3>1
    <3>3. GateOf(c) = "released" /\ GateOf(c)' = "carried_out"
      BY <3>2 DEF GateOf
    <3>4. Gate!CarryOut(c)
      BY <1>0, <3>2, <3>3 DEF Gate!CarryOut
    <3>5. QED
      BY <3>4
  <2>4. QED
    BY <1>5, <2>2, <2>3 DEF Email
<1>6. \/ UNCHANGED <<card, emails>>
      \/ \E a \in Cards : RequestSend(a) \/ Decide(a)
      \/ \E w \in Workers : Email(w) \/ \E a \in Cards : ClaimApproval(w, a)
  BY DEF Next, Step, Proceed, Insert, RecordPayment, ReadFor, Sum, Reconcile, ApplyTransition,
     LockForChase, Chase, Abort, DueDatePasses, UpdateChase, CooldownEnds, vars
<1>7. QED
  BY <1>1, <1>2, <1>3, <1>4, <1>5, <1>6 DEF Gate!Next

\* However many requests act on an approved send and die where they like, each approval is
\* asked for, decided once, and emails the client at most once and only if it was released.
THEOREM SendsThroughTheGate == Spec => GateSpec
<1>1. Init => Gate!Init
  BY DEF Init, Gate!Init, GateOf
<1>2. IInv /\ [Next]_vars => [Gate!Next]_([a \in Cards |-> GateOf(a)])
  BY SendGateStep
<1>3. QED
  BY Invariant, <1>1, <1>2, PTL DEF Spec, GateSpec, Gate!Spec

\* However many sweeps overlap, and whatever staff do to the tickets of earlier chases, the
\* sweep never raises a chase beside one that it raised and nobody settled.
THEOREM OneChase == Spec => []OneOpenChase
<1>1. IInv => OneOpenChase
  BY DEF IInv, Safe
<1>2. QED
  BY Invariant, <1>1, PTL

\* Short of a staff request that acts on a stale read, the status moves along the table.
\* Whoever writes it either asked under the row lock or left a stale read on record.
THEOREM MovesAreAllowed == Spec => OnlyAllowedMoves
<1> DEFINE Good == status' = status \/ CanTransition(status, status')
<1>1. ASSUME IInv, [Next]_vars, ~overruns'
      PROVE  Good
  <2> USE <1>1 DEF Terminal, invoice, chasing, sending, local
  <2>1. ASSUME NEW w \in Workers, Reconcile(w) PROVE Good
    BY <2>1 DEF Reconcile, CanTransition, AllowedTransitions
  <2>2. ASSUME NEW w \in Workers, ApplyTransition(w) PROVE Good
    BY <2>2 DEF ApplyTransition
  <2>3. ASSUME NEW w \in Workers, NEW a \in Cards, ClaimApproval(w, a) PROVE Good
    BY <2>3 DEF ClaimApproval, Sendable
  <2>4. ASSUME NEW w \in Workers, Chase(w) PROVE Good
    BY <2>4 DEF Chase, IInv, ReadHolds, CanTransition, AllowedTransitions
  <2>5. ASSUME NEW w \in Workers, NEW p \in Payments, Insert(w, p) \/ RecordPayment(w, p)
        PROVE  Good
    BY <2>5 DEF Insert, RecordPayment
  <2>6. ASSUME NEW w \in Workers, NEW to \in Terminal, ReadFor(w, to) PROVE Good
    BY <2>6 DEF ReadFor
  <2>7. ASSUME NEW w \in Workers, Sum(w) \/ Email(w) \/ LockForChase(w) \/ Abort(w)
        PROVE  Good
    BY <2>7 DEF Sum, Email, LockForChase, Abort
  <2>8. ASSUME NEW a \in Cards, RequestSend(a) \/ Decide(a) PROVE Good
    BY <2>8 DEF RequestSend, Decide
  <2>9. ASSUME DueDatePasses \/ UpdateChase \/ CooldownEnds \/ UNCHANGED vars
        PROVE  Good
    BY <2>9 DEF DueDatePasses, UpdateChase, CooldownEnds, vars
  <2>10. QED
    BY <2>1, <2>2, <2>3, <2>4, <2>5, <2>6, <2>7, <2>8, <2>9 DEF Next, Step, Proceed
<1>2. QED
  BY Invariant, <1>1, PTL DEF Spec, OnlyAllowedMoves

\* Nobody is chased for a paid or void invoice, or twice in a week.
THEOREM ChasedWhileOwed == Spec => ChasedOnlyWhenDue
<1>1. ASSUME IInv, [Next]_vars, chase # "open", chase' = "open"
      PROVE  status \in {"sent", "overdue"} /\ ~cooling
  <2> USE <1>1 DEF IInv, TypeOK, invoice, chasing, sending, local
  <2>1. ASSUME NEW w \in Workers, Chase(w)
        PROVE  status \in {"sent", "overdue"} /\ ~cooling
    BY <2>1 DEF Chase, ReadHolds
  <2>2. ASSUME UpdateChase PROVE FALSE
    BY <2>2 DEF UpdateChase, Updated
  <2>3. ASSUME chase' = chase PROVE FALSE
    BY <2>3
  <2>4. (\E w \in Workers : Chase(w)) \/ UpdateChase \/ chase' = chase
    BY DEF Next, Step, Proceed, Insert, RecordPayment, ReadFor, ClaimApproval, Sum, Reconcile,
       ApplyTransition, Email, LockForChase, Abort, RequestSend, Decide, DueDatePasses,
       CooldownEnds, vars
  <2>5. QED
    BY <2>1, <2>2, <2>3, <2>4
<1>2. QED
  BY Invariant, <1>1, PTL DEF Spec, ChasedOnlyWhenDue

-----------------------------------------------------------------------------
(* One subscription *)

\* Whoever is about to write `cancelled` was told so by Stripe, where a cancellation is final.
ToldByStripe ==
  /\ "cancelled" \in sWire => sLive = "cancelled"
  /\ \A r \in Runs : sListing[r] = "cancelled" => sLive = "cancelled"
  /\ sCancelling = "writing" => sLive = "cancelled"

\* A card nobody has decided has nothing under way, so what a request left behind is not lost.
UndecidedIsIdle == \A a \in Requests : sCard[a] \in {"none", "pending"} => sStopping[a] = "no"

SubInv == Sub!TypeOK /\ ToldByStripe /\ UndecidedIsIdle /\ Sub!ChargedOnlyAfterAFault

LEMMA SubInit == Sub!ConstantsOK /\ Sub!Init => SubInv
<1> SUFFICES ASSUME Sub!ConstantsOK, Sub!Init PROVE SubInv
  OBVIOUS
<1> USE DEF Sub!ConstantsOK, Sub!Init
<1>1. Sub!TypeOK
  BY DEF Sub!TypeOK, Sub!Statuses, Sub!Kinds
<1>2. ToldByStripe /\ UndecidedIsIdle
  BY DEF ToldByStripe, UndecidedIsIdle
<1>3. Sub!ChargedOnlyAfterAFault
  BY DEF Sub!ChargedOnlyAfterAFault
<1>4. QED
  BY <1>1, <1>2, <1>3 DEF SubInv

LEMMA SubInvStep == Sub!ConstantsOK /\ SubInv /\ [Sub!Next]_(Sub!vars) => SubInv'
<1> SUFFICES ASSUME Sub!ConstantsOK, SubInv, [Sub!Next]_(Sub!vars) PROVE SubInv'
  OBVIOUS
<1> USE DEF Sub!ConstantsOK, SubInv, Sub!TypeOK, Sub!Statuses, Sub!Kinds, ToldByStripe,
        UndecidedIsIdle, Sub!ChargedOnlyAfterAFault, Sub!stripe, Sub!requests
<1>1. ASSUME NEW s \in Sub!Statuses, Sub!StripeMoves(s) PROVE SubInv'
  BY <1>1 DEF Sub!StripeMoves
<1>2. ASSUME NEW s \in Sub!Statuses, Sub!Deliver(s) PROVE SubInv'
  BY <1>2 DEF Sub!Deliver
<1>3. ASSUME NEW s \in Sub!Statuses, Sub!Lose(s) PROVE SubInv'
  BY <1>3 DEF Sub!Lose
<1>4. ASSUME Sub!PeriodEnds PROVE SubInv'
  BY <1>4 DEF Sub!PeriodEnds, Sub!StripeMoves
<1>5. ASSUME NEW r \in Runs, Sub!List(r) PROVE SubInv'
  BY <1>5 DEF Sub!List, Sub!Listed
<1>6. ASSUME NEW r \in Runs, Sub!Reconcile(r) PROVE SubInv'
  BY <1>6 DEF Sub!Reconcile
<1>7. ASSUME NEW r \in Runs, Sub!ReconcileFails(r) PROVE SubInv'
  BY <1>7 DEF Sub!ReconcileFails
<1>8. ASSUME NEW a \in Requests, Sub!RequestChange(a) PROVE SubInv'
  BY <1>8 DEF Sub!RequestChange
<1>9. ASSUME NEW a \in Requests, Sub!Decide(a) PROVE SubInv'
  BY <1>9 DEF Sub!Decide
<1>10. ASSUME NEW a \in Requests, Sub!Apply(a) PROVE SubInv'
  BY <1>10 DEF Sub!Apply, Sub!Applied, Sub!Cancels
<1>11. ASSUME NEW a \in Requests, Sub!StopBilling(a) PROVE SubInv'
  BY <1>11 DEF Sub!StopBilling
<1>12. ASSUME NEW a \in Requests, Sub!Dies(a) PROVE SubInv'
  BY <1>12 DEF Sub!Dies
<1>13. ASSUME Sub!CancelAtProvider PROVE SubInv'
  BY <1>13 DEF Sub!CancelAtProvider
<1>14. ASSUME Sub!WriteCancelled PROVE SubInv'
  BY <1>14 DEF Sub!WriteCancelled
<1>15. ASSUME UNCHANGED Sub!vars PROVE SubInv'
  BY <1>15 DEF Sub!vars
<1>16. QED
  <2> HIDE DEF SubInv, Sub!ConstantsOK
  <2>1. QED
    BY <1>1, <1>2, <1>3, <1>4, <1>5, <1>6, <1>7, <1>8, <1>9, <1>10, <1>11, <1>12, <1>13,
       <1>14, <1>15 DEF Sub!Next

-----------------------------------------------------------------------------
(* The parts side by side: a behaviour of billing is one of the part it picked. *)

SignupProofs == INSTANCE Signups_proofs WITH
  clients <- gClients, profile <- gProfile, account <- gAccount, filed <- gFiled,
  lead <- gLead, claim <- gClaim, welcomed <- gWelcomed, retakes <- gRetakes,
  at <- gAt, found <- gFound

\* Nothing but the part that was picked ever moves.
LEMMA PartStays ==
  ASSUME NEW p
  PROVE  /\ part = p /\ [MCNext]_allVars => (part = p)'
         /\ part # p /\ [MCNext]_allVars => (part # p)'
BY DEF allVars, MCNext, InvoiceStep, SubStep, InSub, SignupStep

\* The invoice is there in every behaviour.
THEOREM RunsInvoice == MCSpec => Spec
<1>1. MCInit => Init
  BY DEF MCInit
<1>2. [MCNext]_allVars => [Next]_vars
  BY DEF allVars, MCNext, InvoiceStep, SubStep, InSub, SignupStep
<1>3. QED
  BY <1>1, <1>2, PTL DEF MCSpec, Spec

\* A subscription keeps its invariant, where there is one at all.
LEMMA SubInvariant == MCSpec => [](part = "subscription" => SubInv)
<1>1. MCInit => (part = "subscription" => SubInv)
  BY InstancesOK, SubInit DEF MCInit
<1>2. (part = "subscription" => SubInv) /\ [MCNext]_allVars => (part = "subscription" => SubInv)'
  <2> SUFFICES ASSUME part = "subscription", SubInv, [MCNext]_allVars
               PROVE  SubInv'
    BY PartStays
  <2>1. CASE SubStep
    BY <2>1, InstancesOK, SubInvStep DEF SubStep, InSub
  <2>2. CASE UNCHANGED allVars
    BY <2>2, InstancesOK, SubInvStep DEF allVars, subVars, Sub!vars, Sub!stripe, Sub!requests
  <2>3. QED
    BY <2>1, <2>2 DEF MCNext, InvoiceStep, SignupStep
<1>3. QED
  BY <1>1, <1>2, PTL DEF MCSpec

\* A row says cancelled while Stripe goes on charging only after a refusal of the provider or
\* a crash in between, whichever of the writers came last.
THEOREM ChargedAfterAFault == MCSpec => []ChargedOnlyAfterAFault
<1>1. (part = "subscription" => SubInv) => ChargedOnlyAfterAFault
  BY DEF SubInv, ChargedOnlyAfterAFault
<1>2. QED
  BY SubInvariant, <1>1, PTL

\* A cancellation has arrived everywhere: at Stripe, in the row, and in whatever an event or a
\* reconcile under way will still write.
Over ==
  /\ sLive = "cancelled" /\ sRow = "cancelled"
  /\ sWire \subseteq {"cancelled"}
  /\ \A r \in Runs : sListing[r] \in {None, "cancelled"}

LEMMA OverStays ==
  ASSUME Sub!ConstantsOK, Sub!TypeOK, Over, [Sub!Next]_(Sub!vars)
  PROVE  Over'
<1> USE DEF Sub!ConstantsOK, Sub!TypeOK, Over, Sub!stripe, Sub!requests
<1>1. ASSUME NEW s \in Sub!Statuses, Sub!StripeMoves(s) \/ Sub!Deliver(s) \/ Sub!Lose(s)
      PROVE  Over'
  BY <1>1 DEF Sub!StripeMoves, Sub!Deliver, Sub!Lose
<1>2. ASSUME Sub!PeriodEnds PROVE Over'
  BY <1>2 DEF Sub!PeriodEnds, Sub!StripeMoves
<1>3. ASSUME NEW r \in Runs, Sub!List(r) \/ Sub!Reconcile(r) \/ Sub!ReconcileFails(r)
      PROVE  Over'
  BY <1>3 DEF Sub!List, Sub!Listed, Sub!Reconcile, Sub!ReconcileFails
<1>4. ASSUME NEW a \in Requests,
             \/ Sub!RequestChange(a) \/ Sub!Decide(a) \/ Sub!Apply(a) \/ Sub!StopBilling(a)
             \/ Sub!Dies(a)
      PROVE  Over'
  BY <1>4 DEF Sub!RequestChange, Sub!Decide, Sub!Apply, Sub!StopBilling, Sub!Dies
<1>5. ASSUME Sub!CancelAtProvider \/ Sub!WriteCancelled PROVE Over'
  BY <1>5 DEF Sub!CancelAtProvider, Sub!WriteCancelled
<1>6. ASSUME UNCHANGED Sub!vars PROVE Over'
  BY <1>6 DEF Sub!vars
<1>7. QED
  BY <1>1, <1>2, <1>3, <1>4, <1>5, <1>6 DEF Sub!Next

\* Once a cancellation has arrived everywhere the row says so for good: no client's request,
\* no staff action, no late event and no reconcile brings the plan back.  This is the half
\* of EndsWithStripe that needs no fairness.
THEOREM CancelledRowStays == MCSpec => [](part = "subscription" /\ Over => [](sRow = "cancelled"))
<1> DEFINE There == part = "subscription"
<1>1. There /\ SubInv /\ Over /\ [MCNext]_allVars => (There /\ Over)'
  <2> SUFFICES ASSUME There, SubInv, Over, [MCNext]_allVars PROVE Over'
    BY PartStays
  <2>1. Sub!ConstantsOK /\ Sub!TypeOK
    BY InstancesOK DEF SubInv
  <2>2. CASE SubStep
    BY <2>1, <2>2, OverStays DEF SubStep, InSub
  <2>3. CASE UNCHANGED allVars
    BY <2>3 DEF Over, allVars, subVars
  <2>4. QED
    BY <2>2, <2>3 DEF MCNext, InvoiceStep, SignupStep
<1>2. Over => sRow = "cancelled"
  BY DEF Over
<1>3. QED
  BY <1>1, <1>2, SubInvariant, PTL DEF MCSpec

\* The states of the gate for a client's change request: carried out with its decision email,
\* in one transaction.  A rejected request is refused before and after its email.
RequestGateOf(a) ==
  CASE sNotices[a] = 0 /\ sCard[a] = "none" -> "unasked"
    [] sNotices[a] = 0 /\ sCard[a] = "pending" -> "asked"
    [] sNotices[a] = 0 /\ sCard[a] = "approved" -> "released"
    [] sNotices[a] \in {0, 1} /\ sCard[a] = "rejected" -> "refused"
    [] sNotices[a] = 1 /\ sCard[a] = "approved" -> "carried_out"
    [] OTHER -> "broken"

RequestGate == INSTANCE ApprovalGate WITH
  Approvals <- Requests, gate <- [a \in Requests |-> RequestGateOf(a)]

\* A request is answered by the transaction that applies it.
AnsweredWhenApplied ==
  \A a \in Requests :
    /\ sNotices[a] = (IF sApplied[a] THEN 1 ELSE 0)
    /\ sCard[a] \in {"none", "pending"} => ~sApplied[a]

LEMMA AnsweredStep ==
  ASSUME SubInv, AnsweredWhenApplied, [Sub!Next]_(Sub!vars)
  PROVE  AnsweredWhenApplied'
<1> USE DEF SubInv, Sub!TypeOK, UndecidedIsIdle, AnsweredWhenApplied, Sub!stripe, Sub!requests
<1>1. ASSUME NEW a \in Requests, Sub!RequestChange(a) \/ Sub!Decide(a) PROVE AnsweredWhenApplied'
  BY <1>1 DEF Sub!RequestChange, Sub!Decide
<1>2. ASSUME NEW a \in Requests, Sub!Apply(a) PROVE AnsweredWhenApplied'
  BY <1>2 DEF Sub!Apply
<1>3. ASSUME UNCHANGED <<sCard, sApplied, sNotices>> PROVE AnsweredWhenApplied'
  BY <1>3
<1>4. \/ UNCHANGED <<sCard, sApplied, sNotices>>
      \/ \E a \in Requests : Sub!RequestChange(a) \/ Sub!Decide(a) \/ Sub!Apply(a)
  BY DEF Sub!Next, Sub!StripeMoves, Sub!Deliver, Sub!Lose, Sub!PeriodEnds, Sub!List,
     Sub!Reconcile, Sub!ReconcileFails, Sub!StopBilling, Sub!Dies, Sub!CancelAtProvider,
     Sub!WriteCancelled, Sub!vars
<1>5. QED
  BY <1>1, <1>2, <1>3, <1>4

LEMMA RequestGateStep ==
  ASSUME SubInv, AnsweredWhenApplied, [Sub!Next]_(Sub!vars)
  PROVE  [RequestGate!Next]_([a \in Requests |-> RequestGateOf(a)])
<1> DEFINE g == [a \in Requests |-> RequestGateOf(a)]
<1> USE DEF SubInv, Sub!TypeOK, UndecidedIsIdle, AnsweredWhenApplied
<1>0. ASSUME NEW a \in Requests, NEW from, NEW to,
             RequestGateOf(a) = from, RequestGateOf(a)' = to,
             \A b \in Requests : b # a => sCard'[b] = sCard[b] /\ sNotices'[b] = sNotices[b]
      PROVE  RequestGate!Move(a, from, to) /\ (from = to => g' = g)
  <2>1. \A b \in Requests : b # a => g'[b] = g[b]
    BY <1>0 DEF RequestGateOf
  <2>2. g' = [g EXCEPT ![a] = to]
    BY <1>0, <2>1
  <2>3. from = to => g' = g
    BY <1>0, <2>2
  <2>4. QED
    BY <1>0, <2>2, <2>3 DEF RequestGate!Move
<1>1. ASSUME UNCHANGED <<sCard, sNotices>> PROVE g' = g
  BY <1>1 DEF RequestGateOf
<1>2. ASSUME NEW a \in Requests, Sub!RequestChange(a) PROVE RequestGate!Ask(a)
  <2>1. /\ sCard[a] = "none" /\ sNotices' = sNotices /\ sNotices[a] = 0
        /\ sCard' = [sCard EXCEPT ![a] = "pending"]
    BY <1>2 DEF Sub!RequestChange
  <2>2. RequestGateOf(a) = "unasked" /\ RequestGateOf(a)' = "asked"
    BY <2>1 DEF RequestGateOf
  <2>3. QED
    BY <1>0, <2>1, <2>2 DEF RequestGate!Ask
<1>3. ASSUME NEW a \in Requests, Sub!Decide(a)
      PROVE  RequestGate!Release(a) \/ RequestGate!Refuse(a)
  <2>1. PICK v \in {"approved", "rejected"} : sCard' = [sCard EXCEPT ![a] = v]
    BY <1>3 DEF Sub!Decide
  <2>2. sCard[a] = "pending" /\ sNotices' = sNotices /\ sNotices[a] = 0
    BY <1>3 DEF Sub!Decide
  <2>3. /\ RequestGateOf(a) = "asked"
        /\ RequestGateOf(a)' = (IF v = "approved" THEN "released" ELSE "refused")
    BY <2>1, <2>2 DEF RequestGateOf
  <2>4. QED
    BY <1>0, <2>1, <2>2, <2>3 DEF RequestGate!Release, RequestGate!Refuse
<1>4. ASSUME NEW a \in Requests, Sub!Apply(a) PROVE RequestGate!CarryOut(a) \/ g' = g
  <2>1. sStopping[a] = "deciding" /\ ~sApplied[a] /\ sCard' = sCard
    BY <1>4 DEF Sub!Apply
  <2>2. sCard[a] \in {"approved", "rejected"}
    BY <2>1
  <2>3. sNotices[a] = 0
    BY <2>1
  <2>4. sNotices' = [sNotices EXCEPT ![a] = 1]
    BY <1>4, <2>3 DEF Sub!Apply
  <2>5. CASE sCard[a] = "approved"
    <3>1. RequestGateOf(a) = "released" /\ RequestGateOf(a)' = "carried_out"
      BY <2>1, <2>3, <2>4, <2>5 DEF RequestGateOf
    <3>2. QED
      BY <1>0, <2>1, <2>4, <3>1 DEF RequestGate!CarryOut
  <2>6. CASE sCard[a] = "rejected"
    <3>1. RequestGateOf(a) = "refused" /\ RequestGateOf(a)' = "refused"
      BY <2>1, <2>3, <2>4, <2>6 DEF RequestGateOf
    <3>2. QED
      BY <1>0, <2>1, <2>4, <3>1
  <2>7. QED
    BY <2>2, <2>5, <2>6
<1>5. \/ UNCHANGED <<sCard, sNotices>>
      \/ \E a \in Requests : Sub!RequestChange(a) \/ Sub!Decide(a) \/ Sub!Apply(a)
  BY DEF Sub!Next, Sub!StripeMoves, Sub!Deliver, Sub!Lose, Sub!PeriodEnds, Sub!List,
     Sub!Reconcile, Sub!ReconcileFails, Sub!StopBilling, Sub!Dies, Sub!CancelAtProvider,
     Sub!WriteCancelled, Sub!vars, Sub!requests
<1>6. QED
  BY <1>1, <1>2, <1>3, <1>4, <1>5 DEF RequestGate!Next

\* A client's change request goes through the gate as well: asked for, decided once, and
\* applied, with the email that says so, at most once and only if it was approved, although
\* the decision is committed before it is applied and its request may die in between.
THEOREM RequestsThroughTheGate ==
  MCSpec => \/ [](part = "subscription") /\ RequestGate!Spec
            \/ [](part # "subscription")
<1> DEFINE There == part = "subscription"
<1>1. MCInit /\ There => RequestGate!Init /\ AnsweredWhenApplied
  BY DEF MCInit, Sub!Init, RequestGate!Init, RequestGateOf, AnsweredWhenApplied
<1>2. There /\ SubInv /\ AnsweredWhenApplied /\ [MCNext]_allVars =>
        /\ AnsweredWhenApplied'
        /\ [RequestGate!Next]_([a \in Requests |-> RequestGateOf(a)])
  <2> SUFFICES ASSUME There, SubInv, AnsweredWhenApplied, [MCNext]_allVars
               PROVE  /\ AnsweredWhenApplied'
                      /\ [RequestGate!Next]_([a \in Requests |-> RequestGateOf(a)])
    OBVIOUS
  <2>1. [Sub!Next]_(Sub!vars)
    BY DEF MCNext, InvoiceStep, SubStep, InSub, SignupStep, allVars, subVars, Sub!vars,
       Sub!stripe, Sub!requests
  <2>2. QED
    BY <2>1, AnsweredStep, RequestGateStep
<1>3. There /\ [MCNext]_allVars => There'
  BY PartStays
<1>4. part # "subscription" /\ [MCNext]_allVars => (part # "subscription")'
  BY PartStays
<1>5. There \/ part # "subscription"
  OBVIOUS
<1>6. QED
  BY <1>1, <1>2, <1>3, <1>4, <1>5, SubInvariant, PTL DEF MCSpec, RequestGate!Spec

\* Signup and SignupProofs are Signups under one substitution.
LEMMA SameSignup ==
  /\ Signup!ConstantsOK <=> SignupProofs!ConstantsOK
  /\ Signup!Init <=> SignupProofs!Init
  /\ Signup!Next <=> SignupProofs!Next
<1>1. Signup!ConstantsOK <=> SignupProofs!ConstantsOK
  BY DEF Signup!ConstantsOK, Signup!Processes, SignupProofs!ConstantsOK,
         SignupProofs!Processes
<1>2. Signup!Init <=> SignupProofs!Init
  BY DEF Signup!Init, Signup!Processes, SignupProofs!Init, SignupProofs!Processes
<1>3. Signup!Next <=> SignupProofs!Next
  BY DEF Signup!Next, Signup!Complete, Signup!Claim, Signup!Claimable, Signup!Goto,
         Signup!records, Signup!CreateClient, Signup!signup, Signup!FilePlan, Signup!Unfiled,
         Signup!Convert, Signup!Welcome, Signup!Sync, Signup!LoadIndex, Signup!MatchOrCreate,
         Signup!Matches, Signup!ImportClient, Signup!AttachAccount, Signup!LinkProfile,
         Signup!Upsert, Signup!Processes, Signup!Dies, Signup!ClaimAges, SignupProofs!Next,
         SignupProofs!Complete, SignupProofs!Claim, SignupProofs!Claimable, SignupProofs!Goto,
         SignupProofs!records, SignupProofs!CreateClient, SignupProofs!signup,
         SignupProofs!FilePlan, SignupProofs!Unfiled, SignupProofs!Convert,
         SignupProofs!Welcome, SignupProofs!Sync, SignupProofs!LoadIndex,
         SignupProofs!MatchOrCreate, SignupProofs!Matches, SignupProofs!ImportClient,
         SignupProofs!AttachAccount, SignupProofs!LinkProfile, SignupProofs!Upsert,
         SignupProofs!Processes, SignupProofs!Dies, SignupProofs!ClaimAges
<1>4. QED
  BY <1>1, <1>2, <1>3

\* Billing with part = "signup" runs the signup's own specification.
THEOREM RunsSignup ==
  MCSpec => \/ [](part = "signup") /\ SignupProofs!Spec
            \/ [](part # "signup")
<1>1. MCInit /\ part = "signup" => SignupProofs!Init
  BY SameSignup DEF MCInit
<1>2. part = "signup" /\ [MCNext]_allVars => [SignupProofs!Next]_(SignupProofs!vars)
  <2> SUFFICES ASSUME part = "signup", [MCNext]_allVars
               PROVE  [SignupProofs!Next]_(SignupProofs!vars)
    OBVIOUS
  <2>1. CASE SignupStep
    BY <2>1, SameSignup DEF SignupStep
  <2>2. CASE UNCHANGED allVars
    BY <2>2 DEF allVars, signupVars, SignupProofs!vars, SignupProofs!records, SignupProofs!signup
  <2>3. QED
    BY <2>1, <2>2 DEF MCNext, InvoiceStep, SubStep, InSub
<1>3. part = "signup" /\ [MCNext]_allVars => (part = "signup")'
  BY PartStays
<1>4. part # "signup" /\ [MCNext]_allVars => (part # "signup")'
  BY PartStays
<1>5. part = "signup" \/ part # "signup"
  OBVIOUS
<1>6. QED
  BY <1>1, <1>2, <1>3, <1>4, <1>5, PTL DEF MCSpec, SignupProofs!Spec

\* Racing calls of completeSignup make one client between them, and one more for each claim
\* that was retaken.
THEOREM CallersShareAClient == MCSpec => []CallersMakeOne
<1>1. SignupProofs!Spec => []SignupProofs!CallersMakeOne
  BY InstancesOK, SameSignup, SignupProofs!ClientsAreClaimed
<1>2. part # "signup" \/ SignupProofs!CallersMakeOne => CallersMakeOne
  BY DEF CallersMakeOne, Signup!CallersMakeOne, Signup!Cardinality,
         SignupProofs!CallersMakeOne, SignupProofs!Cardinality
<1>3. QED
  BY RunsSignup, <1>1, <1>2, PTL

\* The client a signup ends in keeps the plan and the customer.
THEOREM BuyerKeepsThePlan == MCSpec => []WelcomedOwnsThePlan
<1>1. SignupProofs!Spec => []SignupProofs!WelcomedOwnsThePlan
  BY InstancesOK, SameSignup, SignupProofs!BuyerOwnsThePlan
<1>2. part # "signup" \/ SignupProofs!WelcomedOwnsThePlan => WelcomedOwnsThePlan
  BY DEF WelcomedOwnsThePlan, Signup!WelcomedOwnsThePlan, SignupProofs!WelcomedOwnsThePlan
<1>3. QED
  BY RunsSignup, <1>1, <1>2, PTL

\* Every variable of every part keeps its type.
THEOREM EveryPartTyped == MCSpec => []Typed
<1>1. Spec => []TypeOK
  BY InvoiceTyped
<1>2. (part = "subscription" => SubInv) => part # "subscription" \/ Sub!TypeOK
  BY DEF SubInv
<1>3. SignupProofs!Spec => []SignupProofs!TypeOK
  BY InstancesOK, SameSignup, SignupProofs!SignupTyped
<1>4. SignupProofs!TypeOK => Signup!TypeOK
  BY DEF Signup!TypeOK, Signup!Processes, SignupProofs!TypeOK, SignupProofs!Processes
<1>5. /\ TypeOK
      /\ part # "subscription" \/ Sub!TypeOK
      /\ part # "signup" \/ Signup!TypeOK
      => Typed
  BY DEF Typed
<1>6. QED
  BY RunsInvoice, SubInvariant, RunsSignup, <1>1, <1>2, <1>3, <1>4, <1>5, PTL
=============================================================================
