--------------------------- MODULE Subscriptions ---------------------------
(***************************************************************************)
(* One subscription of a client, at Stripe and in the subscriptions table. *)
(* Stripe's events, the nightly reconcile, staff and the client's approved *)
(* change request all write the row, each what it last heard.              *)
(*                                                                         *)
(* A step is one transaction, or one call of the provider.                 *)
(***************************************************************************)
EXTENDS Naturals

CONSTANTS
  Runs,   \* reconciles that may be alive at once: the nightly one, and "Sync now"
  Cards,  \* approvals rows of kind subscription_change
  None

ConstantsOK == None \notin Cards \cup {"active", "past_due", "cancelled"}

VARIABLES
  live,     \* the status at Stripe
  ending,   \* its cancel_at_period_end
  wire,     \* statuses that events not yet worked off carry
  row,      \* subscriptions.status
  linked,   \* its product is linked to a package
  listing,  \* the status each reconcile was told, None outside one
  card,     \* approvals.status of each request
  wants,    \* the kind of each request
  applied,  \* its metadata.appliedAt
  notices,  \* decision emails queued for each request
  stopping, \* the card whose decision is being carried out, and how far
  cancelling \* staff's cancelSubscription is between the provider and the row

stripe   == <<live, ending>>
requests == <<card, wants, applied, notices, stopping>>
vars     == <<stripe, wire, row, linked, listing, requests, cancelling>>

Statuses == {"active", "past_due", "cancelled"}
Kinds    == {"cancel", "other"}

Init ==
  /\ live = "active" /\ ending = FALSE /\ wire = {} /\ row = "active"
  /\ linked \in BOOLEAN
  /\ listing = [r \in Runs |-> None]
  /\ card = [a \in Cards |-> "none"] /\ wants \in [Cards -> Kinds]
  /\ applied = [a \in Cards |-> FALSE] /\ notices = [a \in Cards |-> 0]
  /\ stopping = [a \in Cards |-> "no"] /\ cancelling = "no"

-----------------------------------------------------------------------------
(* Stripe *)

\* A charge fails or succeeds, the period ends, or somebody cancels in the dashboard.
StripeMoves(to) ==
  /\ live # "cancelled" /\ to # live
  /\ live' = to
  /\ wire' = wire \cup {to}
  /\ UNCHANGED <<ending, row, linked, listing, requests, cancelling>>

PeriodEnds == ending /\ StripeMoves("cancelled")

\* payments.webhook: an event writes the status it carries, in whatever order it comes, and
\* may come again.  One for an unlinked product writes the bare status.
Deliver(s) ==
  /\ s \in wire
  /\ row' = s
  /\ wire' \in {wire, wire \ {s}}
  /\ UNCHANGED <<stripe, linked, listing, requests, cancelling>>

Lose(s) ==
  /\ s \in wire /\ wire' = wire \ {s}
  /\ UNCHANGED <<stripe, row, linked, listing, requests, cancelling>>

-----------------------------------------------------------------------------
(* The reconcile *)

\* listSubscriptions asks for every status.
ListedLive == live # "cancelled"                                        \* mutant
Listed == TRUE

List(r) ==
  /\ listing[r] = None /\ Listed
  /\ listing' = [listing EXCEPT ![r] = live]
  /\ UNCHANGED <<stripe, wire, row, linked, requests, cancelling>>

\* syncOneSubscription skips an unlinked product; upsertSubscriptionRow takes the status it
\* was told.
Reconcile(r) ==
  /\ listing[r] # None
  /\ row' = IF linked THEN listing[r] ELSE row
  /\ listing' = [listing EXCEPT ![r] = None]
  /\ UNCHANGED <<stripe, wire, linked, requests, cancelling>>

ReconcileFails(r) ==
  /\ listing[r] # None
  /\ listing' = [listing EXCEPT ![r] = None]
  /\ UNCHANGED <<stripe, wire, row, linked, requests, cancelling>>

-----------------------------------------------------------------------------
(* The client's request *)

\* A partial unique index allows one pending request; there must be a plan to change.
RequestChange(a) ==
  /\ card[a] = "none" /\ row # "cancelled"
  /\ \A b \in Cards : card[b] # "pending"
  /\ card' = [card EXCEPT ![a] = "pending"]
  /\ UNCHANGED <<stripe, wire, row, linked, listing, wants, applied, notices, stopping, cancelling>>

\* The decision is committed, and the same web request goes on to apply it.
Decide(a) ==
  /\ card[a] = "pending"
  /\ \E verdict \in {"approved", "rejected"} : card' = [card EXCEPT ![a] = verdict]
  /\ stopping' = [stopping EXCEPT ![a] = "deciding"]
  /\ UNCHANGED <<stripe, wire, row, linked, listing, wants, applied, notices, cancelling>>

Cancels(a) == card[a] = "approved" /\ wants[a] = "cancel" /\ row # "cancelled"

AppliedUntold(a) == "no"                                                \* mutant
Applied(a) == IF Cancels(a) THEN "calling" ELSE "no"

\* One transaction: the claim, the row, the notice.
Apply(a) ==
  /\ stopping[a] = "deciding" /\ ~applied[a]
  /\ applied' = [applied EXCEPT ![a] = TRUE]
  /\ notices' = [notices EXCEPT ![a] = @ + 1]
  /\ row' = IF Cancels(a) THEN "cancelled" ELSE row
  /\ stopping' = [stopping EXCEPT ![a] = Applied(a)]
  /\ UNCHANGED <<stripe, wire, linked, listing, card, wants, cancelling>>

\* stopBilling, after the commit.  Scheduling the end is itself an update of a subscription
\* that is still active, and Stripe says so.
StopBilling(a) ==
  /\ stopping[a] = "calling"
  /\ \/ /\ live # "cancelled"
        /\ ending' = TRUE /\ wire' = wire \cup {live}
        /\ stopping' = [stopping EXCEPT ![a] = "no"]
     \/ /\ stopping' = [stopping EXCEPT ![a] = "failed"]
        /\ UNCHANGED <<ending, wire>>
  /\ UNCHANGED <<live, row, linked, listing, card, wants, applied, notices, cancelling>>

Dies(a) ==
  /\ stopping[a] \in {"deciding", "calling"}
  /\ stopping' = [stopping EXCEPT ![a] = "died"]
  /\ UNCHANGED <<stripe, wire, row, linked, listing, card, wants, applied, notices, cancelling>>

-----------------------------------------------------------------------------
(* Staff: cancelSubscription calls the provider, then writes the row *)

CancelAtProvider ==
  /\ cancelling = "no" /\ live # "cancelled"
  /\ live' = "cancelled" /\ wire' = wire \cup {"cancelled"}
  /\ cancelling' = "writing"
  /\ UNCHANGED <<ending, row, linked, listing, requests>>

WriteCancelled ==
  /\ cancelling = "writing"
  /\ \/ row' = "cancelled"
     \/ UNCHANGED row   \* it dies in between
  /\ cancelling' = "no"
  /\ UNCHANGED <<stripe, wire, linked, listing, requests>>

-----------------------------------------------------------------------------
Next ==
  \/ \E s \in Statuses : StripeMoves(s) \/ Deliver(s) \/ Lose(s)
  \/ PeriodEnds
  \/ \E r \in Runs : List(r) \/ Reconcile(r) \/ ReconcileFails(r)
  \/ \E a \in Cards : RequestChange(a) \/ Decide(a) \/ Apply(a) \/ StopBilling(a) \/ Dies(a)
  \/ CancelAtProvider \/ WriteCancelled

Spec == Init /\ [][Next]_vars

\* A period ends; Stripe gives an event up after some days; the reconcile runs every night,
\* and not every one of them fails.
FairReconcile ==
  /\ WF_vars(PeriodEnds) /\ WF_vars(WriteCancelled)
  /\ WF_vars(\E s \in Statuses : Lose(s))
  /\ WF_vars(\E r \in Runs : List(r)) /\ SF_vars(\E r \in Runs : Reconcile(r))

-----------------------------------------------------------------------------
TypeOK ==
  /\ live \in Statuses /\ row \in Statuses /\ wire \subseteq Statuses
  /\ ending \in BOOLEAN /\ linked \in BOOLEAN
  /\ listing \in [Runs -> Statuses \cup {None}]
  /\ card \in [Cards -> {"none", "pending", "approved", "rejected"}]
  /\ wants \in [Cards -> Kinds] /\ applied \in [Cards -> BOOLEAN] /\ notices \in [Cards -> Nat]
  /\ stopping \in [Cards -> {"no", "deciding", "calling", "failed", "died"}]
  /\ cancelling \in {"no", "writing"}

\* A cancellation that Stripe knows of ends in a cancelled row for good, although events are
\* lost, repeated and overtaken, a reconcile writes a list it read before, and the row may
\* be called active again on the way (stripe-sync-writes.ts: "takes everything else from
\* Stripe").
EndsWithStripe == linked /\ (ending \/ live = "cancelled") ~> [](row = "cancelled")

\* A row says cancelled while Stripe goes on charging only after a provider that refused or a
\* process that died in between, whichever of the writers came last
\* (subscription-change-decision.ts: "leaving the client's card being charged").
ChargedOnlyAfterAFault ==
  row = "cancelled" /\ live # "cancelled" /\ ~ending =>
    \E a \in Cards : stopping[a] \in {"calling", "failed", "died"}
=============================================================================
