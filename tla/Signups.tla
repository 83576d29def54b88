------------------------------ MODULE Signups ------------------------------
(***************************************************************************)
(* One paid Checkout session of a self-serve signup, and everybody who may *)
(* act on it: the deliveries of checkout.session.completed, the loads of   *)
(* the page the buyer lands on, and the subscription events and nightly    *)
(* reconciles that import a subscription nobody has filed yet.             *)
(*                                                                         *)
(* A client is named after the process that created it.  A step is one     *)
(* transaction; the calls of a process are not.                            *)
(***************************************************************************)
EXTENDS Naturals, FiniteSets

CONSTANTS
  Callers,   \* calls of completeSignup
  Imports,   \* calls of syncOneSubscription for this subscription
  None

Processes == Callers \cup Imports

ConstantsOK == Callers \cap Imports = {} /\ None \notin Processes

VARIABLES
  clients,    \* the clients created
  profile,    \* whose billing_profiles row carries the customer id
  account,    \* whose client_payment_accounts row does
  filed,      \* the client the subscriptions row belongs to
  lead,       \* leads.client_id
  claim,      \* metadata.signupClaimedAt: "none", "fresh", or older than SIGNUP_CLAIM_TTL_MS
  welcomed,   \* welcome emails sent
  retakes,    \* stale claims taken over (a history variable)
  at,         \* where each process is
  found       \* the client an import matched, itself when it will create one

records == <<clients, profile, account, filed>>
signup  == <<lead, claim, welcomed, retakes>>
vars    == <<records, signup, at, found>>

Init ==
  /\ clients = {} /\ profile = None /\ account = None /\ filed = None
  /\ lead = None /\ claim = "none" /\ welcomed = 0 /\ retakes = 0
  /\ at = [p \in Processes |-> "idle"] /\ found = [p \in Processes |-> None]

Goto(p, place) == at' = [at EXCEPT ![p] = place]

-----------------------------------------------------------------------------
(* completeSignup and provisionSignup *)

\* One conditional UPDATE of the lead: not converted, and not claimed, or not lately.
ClaimableAlways == lead = None                                          \* mutant
Claimable == lead = None /\ claim # "fresh"

Claim(p) ==
  /\ at[p] = "idle"
  /\ IF Claimable
     THEN /\ claim' = "fresh"
          /\ retakes' = IF claim = "stale" THEN retakes + 1 ELSE retakes
          /\ Goto(p, "creating")
     ELSE UNCHANGED <<claim, retakes>> /\ Goto(p, "gone")
  /\ UNCHANGED <<records, lead, welcomed, found>>

ClaimAges ==
  /\ claim = "fresh" /\ claim' = "stale"
  /\ UNCHANGED <<records, lead, welcomed, retakes, at, found>>

CreateClient(p) ==
  /\ at[p] = "creating"
  /\ clients' = clients \cup {p}
  /\ Goto(p, "filing")
  /\ UNCHANGED <<profile, account, filed, signup, found>>

\* The customer id and the subscription id are unique: either may be somebody else's.
UnfiledUnchecked(p) == TRUE                                             \* mutant
Unfiled(p) == profile \in {None, p} /\ filed = None

\* One transaction: it throws when the unique indexes refuse, and the job or the page fails.
FilePlan(p) ==
  /\ at[p] = "filing"
  /\ IF Unfiled(p)
     THEN profile' = p /\ filed' = p /\ Goto(p, "converting")
     ELSE UNCHANGED <<profile, filed>> /\ Goto(p, "gone")
  /\ UNCHANGED <<clients, account, signup, found>>

\* The portal login is created, or its refusal noted, and the lead becomes the client's.
Convert(p) ==
  /\ at[p] = "converting"
  /\ lead' = p
  /\ Goto(p, "welcoming")
  /\ UNCHANGED <<records, claim, welcomed, retakes, found>>

\* The welcome email carries the password; a refusal is told to the owner.
Welcome(p) ==
  /\ at[p] = "welcoming"
  /\ welcomed' \in {welcomed, welcomed + 1}
  /\ Goto(p, "gone")
  /\ UNCHANGED <<records, lead, claim, retakes, found>>

-----------------------------------------------------------------------------
(* syncOneSubscription *)

\* The client of the customer id, the payment account before the billing profile, else one
\* with the buyer's email: every client of this signup has it.
Matches ==
  IF account # None THEN {account}
  ELSE IF profile # None THEN {profile} ELSE clients

NeverMatch(i) == {i}                                                    \* mutant
MatchOrCreate(i) == IF Matches = {} THEN {i} ELSE Matches

\* The index of known clients is loaded before anything is written.
LoadIndex(i) ==
  /\ at[i] = "idle"
  /\ \E c \in IF filed # None THEN {filed} ELSE MatchOrCreate(i) : found' = [found EXCEPT ![i] = c]
  /\ Goto(i, IF filed = None /\ Matches = {} THEN "importing" ELSE "attaching")
  /\ UNCHANGED <<records, signup>>

\* createImportedClient: the client, its profile and its account in one transaction.
ImportClient(i) ==
  /\ at[i] = "importing"
  /\ IF profile = None /\ account = None
     THEN /\ clients' = clients \cup {i} /\ profile' = i /\ account' = i
          /\ Goto(i, "upserting")
     ELSE UNCHANGED <<clients, profile, account>> /\ Goto(i, "gone")
  /\ UNCHANGED <<filed, signup, found>>

\* attachPaymentAccount moves the account; linkBillingProfile only fills an empty profile,
\* and throws when another client has the customer id.
AttachAccount(i) ==
  /\ at[i] = "attaching"
  /\ account' = found[i]
  /\ Goto(i, "linking")
  /\ UNCHANGED <<clients, profile, filed, signup, found>>

LinkProfile(i) ==
  /\ at[i] = "linking"
  /\ profile' = IF profile = None THEN found[i] ELSE profile
  /\ Goto(i, IF profile \in {None, found[i]} THEN "upserting" ELSE "gone")
  /\ UNCHANGED <<clients, account, filed, signup, found>>

\* upsertSubscriptionRow: an existing row keeps its client.
Upsert(i) ==
  /\ at[i] = "upserting"
  /\ filed' = IF filed = None THEN found[i] ELSE filed
  /\ Goto(i, "gone")
  /\ UNCHANGED <<clients, profile, account, signup, found>>

-----------------------------------------------------------------------------
\* A process dies, or a statement fails.  A retry of its job is another process.
Dies(p) ==
  /\ at[p] \notin {"idle", "gone"}
  /\ Goto(p, "gone")
  /\ UNCHANGED <<records, signup, found>>

Complete(p) == Claim(p) \/ CreateClient(p) \/ FilePlan(p) \/ Convert(p) \/ Welcome(p)
Sync(i) == LoadIndex(i) \/ ImportClient(i) \/ AttachAccount(i) \/ LinkProfile(i) \/ Upsert(i)

Next ==
  \/ \E p \in Callers : Complete(p)
  \/ \E i \in Imports : Sync(i)
  \/ \E p \in Processes : Dies(p)
  \/ ClaimAges

Spec == Init /\ [][Next]_vars

-----------------------------------------------------------------------------
TypeOK ==
  /\ clients \subseteq Processes
  /\ {profile, account, filed} \subseteq clients \cup {None}
  /\ lead \in (clients \cap Callers) \cup {None}
  /\ claim \in {"none", "fresh", "stale"}
  /\ welcomed \in Nat /\ retakes \in Nat
  /\ at \in [Processes -> {"idle", "creating", "filing", "converting", "welcoming", "importing",
                           "attaching", "linking", "upserting", "gone"}]
  /\ found \in [Processes -> Processes \cup {None}]

\* Callers that race make one client between them; every further one has a cause of its own,
\* a claim that was retaken after its winner died or outlived it (signup.ts: "the two
\* callers cannot make two clients").
CallersMakeOne == Cardinality(clients \cap Callers) <= 1 + retakes

\* The client a signup ends in is the one that holds the plan and the customer, for good,
\* whatever is imported, redelivered or retaken meanwhile; and only its buyer is welcomed.
WelcomedOwnsThePlan ==
  /\ lead # None => filed = lead /\ profile = lead
  /\ welcomed > 0 => lead # None
  /\ welcomed <= 1
=============================================================================
