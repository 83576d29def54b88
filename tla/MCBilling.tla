----------------------------- MODULE MCBilling -----------------------------
(***************************************************************************)
(* Three billing components side by side: an invoice, a subscription and a *)
(* signup.  They share no row, so a behaviour picks one of them at the     *)
(* start and the others stand still.                                       *)
(***************************************************************************)
EXTENDS Invoices

CONSTANTS Runs, Requests, Callers, Imports

VARIABLES
  part,
  sLive, sEnding, sWire, sRow, sLinked, sListing, sCard, sWants, sApplied, sNotices,
  sStopping, sCancelling,
  gClients, gProfile, gAccount, gFiled, gLead, gClaim, gWelcomed, gRetakes, gAt, gFound

Sub == INSTANCE Subscriptions WITH
  Cards <- Requests,
  live <- sLive, ending <- sEnding, wire <- sWire, row <- sRow, linked <- sLinked,
  listing <- sListing, card <- sCard, wants <- sWants, applied <- sApplied,
  notices <- sNotices, stopping <- sStopping, cancelling <- sCancelling

Signup == INSTANCE Signups WITH
  clients <- gClients, profile <- gProfile, account <- gAccount, filed <- gFiled,
  lead <- gLead, claim <- gClaim, welcomed <- gWelcomed, retakes <- gRetakes,
  at <- gAt, found <- gFound

ASSUME InstancesOK == Sub!ConstantsOK /\ Signup!ConstantsOK

subVars == <<sLive, sEnding, sWire, sRow, sLinked, sListing, sCard, sWants, sApplied,
             sNotices, sStopping, sCancelling>>
signupVars == <<gClients, gProfile, gAccount, gFiled, gLead, gClaim, gWelcomed, gRetakes,
                gAt, gFound>>
allVars == <<part, vars, subVars, signupVars>>

SubAbsent ==
  /\ sLive = None /\ sEnding = None /\ sWire = None /\ sRow = None /\ sLinked = None
  /\ sListing = None /\ sCard = None /\ sWants = None /\ sApplied = None
  /\ sNotices = None /\ sStopping = None /\ sCancelling = None

SignupAbsent ==
  /\ gClients = None /\ gProfile = None /\ gAccount = None /\ gFiled = None
  /\ gLead = None /\ gClaim = None /\ gWelcomed = None /\ gRetakes = None
  /\ gAt = None /\ gFound = None

MCInit ==
  /\ Init
  /\ \/ part = "invoice" /\ SubAbsent /\ SignupAbsent
     \/ part = "subscription" /\ Sub!Init /\ SignupAbsent
     \/ part = "signup" /\ SubAbsent /\ Signup!Init

InSub(A) == part = "subscription" /\ A /\ UNCHANGED <<part, vars, signupVars>>

InvoiceStep == part = "invoice" /\ Next /\ UNCHANGED <<part, subVars, signupVars>>
SubStep     == InSub(Sub!Next)
SignupStep  == part = "signup" /\ Signup!Next /\ UNCHANGED <<part, vars, subVars>>

MCNext == InvoiceStep \/ SubStep \/ SignupStep

\* Subscriptions!FairReconcile, where there is a subscription at all.
SubFair ==
  /\ WF_allVars(InSub(Sub!PeriodEnds)) /\ WF_allVars(InSub(Sub!WriteCancelled))
  /\ WF_allVars(InSub(\E s \in Sub!Statuses : Sub!Lose(s)))
  /\ WF_allVars(InSub(\E r \in Runs : Sub!List(r)))
  /\ SF_allVars(InSub(\E r \in Runs : Sub!Reconcile(r)))

MCSpec == MCInit /\ [][MCNext]_allVars /\ FairSweep /\ SubFair

\* Each component's variables have their types.
Typed ==
  /\ TypeOK
  /\ part = "subscription" => Sub!TypeOK
  /\ part = "signup" => Signup!TypeOK

\* Subscriptions!ChargedOnlyAfterAFault: a cancelled row that is still charged for has a
\* refusal of the provider or a crash behind it.
ChargedOnlyAfterAFault == part = "subscription" => Sub!ChargedOnlyAfterAFault

\* Signups!CallersMakeOne: racing calls of completeSignup make one client between them.
CallersMakeOne == part = "signup" => Signup!CallersMakeOne

\* Signups!WelcomedOwnsThePlan: the client a signup ends in holds the plan and the customer.
WelcomedOwnsThePlan == part = "signup" => Signup!WelcomedOwnsThePlan

\* Subscriptions!EndsWithStripe: a cancellation at Stripe ends in a cancelled row for good.
EndsWithStripe ==
  part = "subscription" /\ sLinked /\ (sEnding \/ sLive = "cancelled")
    ~> [](sRow = "cancelled")
=============================================================================
