----------------------------- MODULE Proposals -----------------------------
(***************************************************************************)
(* One proposal, from the draft to the work it starts: the worker sends    *)
(* it, the client opens and answers it on a public page, and the follow-on *)
(* job countersigns, asks for the money and opens the project.             *)
(*                                                                         *)
(* A step is one transaction.  Between the statement a process read in and *)
(* the one it writes in, anybody else may write.                           *)
(***************************************************************************)
EXTENDS Naturals

CONSTANTS
  Senders,    \* worker processes, one proposals.send job each
  Taps,       \* requests from the public page
  Followers,  \* proposals.accepted jobs that may be alive at once
  Hooks,      \* deliveries of the payment provider's event
  Asks,       \* approvals rows of kind proposal_send
  None

Processes == Senders \cup Taps \cup Followers \cup Hooks

ASSUME KindsApart ==
  /\ Senders \cap (Taps \cup Followers \cup Hooks) = {}
  /\ Taps \cap (Followers \cup Hooks) = {}
  /\ Followers \cap Hooks = {}
  /\ None \notin Asks

VARIABLES
  stage,     \* proposals.status
  lapsed,    \* valid_until has passed
  seen,      \* firstViewedAt
  ask,       \* approvals.status of each card
  applied,   \* its metadata.appliedAt
  mailed,    \* "sent" messages queued for the client
  signed,    \* proposal_acceptances rows
  handedOn,  \* metadata.followOnQueuedAt
  queued,    \* a proposals.accepted job waits; the short queue keeps one per proposal
  session,   \* metadata.checkoutSessionId is set
  links,     \* payment links queued for the client
  paid,      \* metadata.checkoutPaidSessionId is set
  filings,   \* how often the payment was filed under the client
  started,   \* the project, and metadata.followOnDoneAt
  at,        \* where each process is
  held       \* what it read, or the card it carries out

proposal == <<stage, lapsed, seen>>
asking   == <<ask, applied, mailed>>
follow   == <<handedOn, queued, session, links, started>>
payment  == <<paid, filings>>
vars     == <<proposal, asking, signed, follow, payment, at, held>>

Stages == {"draft", "sent", "viewed", "accepted", "declined", "expired"}
Live   == {"sent", "viewed"}

Init ==
  /\ stage = "draft" /\ lapsed = FALSE /\ seen = FALSE
  /\ ask = [a \in Asks |-> "none"] /\ applied = [a \in Asks |-> FALSE]
  /\ mailed = 0 /\ signed = 0
  /\ handedOn = FALSE /\ queued = FALSE /\ session = FALSE /\ links = 0 /\ started = FALSE
  /\ paid = FALSE /\ filings = 0
  /\ at = [p \in Processes |-> "idle"] /\ held = [p \in Processes |-> None]

Goto(p, place, what) ==
  /\ at' = [at EXCEPT ![p] = place]
  /\ held' = [held EXCEPT ![p] = what]

Leave(p) == Goto(p, "idle", None)

DateLapses ==
  /\ ~lapsed /\ lapsed' = TRUE
  /\ UNCHANGED <<stage, seen, asking, signed, follow, payment, at, held>>

-----------------------------------------------------------------------------
(* Sending *)

\* requestProposalApproval: a partial unique index allows one pending card.
RequestApproval(a) ==
  /\ ask[a] = "none" /\ stage = "draft" /\ ~lapsed
  /\ \A b \in Asks : ask[b] # "pending"
  /\ ask' = [ask EXCEPT ![a] = "pending"]
  /\ UNCHANGED <<proposal, applied, mailed, signed, follow, payment, at, held>>

Decide(a) ==
  /\ ask[a] = "pending"
  /\ \E verdict \in {"approved", "rejected"} : ask' = [ask EXCEPT ![a] = verdict]
  /\ UNCHANGED <<proposal, applied, mailed, signed, follow, payment, at, held>>

Awaiting(a) == ask[a] \in {"approved", "rejected"} /\ ~applied[a]

SendableTwice == stage \in {"draft", "sent"} /\ ~lapsed                 \* mutant
Sendable == stage = "draft" /\ ~lapsed

\* sendProposal refuses anything but a draft, then renders the PDF outside any transaction.
\* The card is a decided one, or None when staff pressed Send.
BeginSend(s, a) ==
  /\ at[s] = "idle" /\ Sendable
  /\ Goto(s, "rendering", a)
  /\ UNCHANGED <<proposal, asking, signed, follow, payment>>

CarryOut(s, a) == Awaiting(a) /\ ask[a] = "approved" /\ BeginSend(s, a)

\* The status is written by id, without asking again.
CommitSend(s) ==
  /\ at[s] = "rendering"
  /\ stage' = "sent" /\ mailed' = mailed + 1
  /\ IF held[s] = None THEN Leave(s) ELSE Goto(s, "stamping", held[s])
  /\ UNCHANGED <<lapsed, seen, ask, applied, signed, follow, payment>>

StampApplied(s) ==
  /\ at[s] = "stamping"
  /\ applied' = [applied EXCEPT ![held[s]] = TRUE]
  /\ Leave(s)
  /\ UNCHANGED <<proposal, ask, mailed, signed, follow, payment>>

\* A rejected card, or one whose proposal already went out, is only stamped.
StampOnly(s, a) ==
  /\ at[s] = "idle" /\ Awaiting(a)
  /\ ask[a] = "rejected" \/ stage # "draft"
  /\ applied' = [applied EXCEPT ![a] = TRUE]
  /\ UNCHANGED <<proposal, ask, mailed, signed, follow, payment, at, held>>

-----------------------------------------------------------------------------
(* The public page, and the expiry sweep *)

View ==
  /\ stage # "draft" /\ ~seen
  /\ seen' = TRUE
  /\ stage' = IF stage = "sent" THEN "viewed" ELSE stage
  /\ UNCHANGED <<lapsed, asking, signed, follow, payment, at, held>>

Expire ==
  /\ stage \in Live /\ lapsed
  /\ stage' = "expired"
  /\ UNCHANGED <<lapsed, seen, asking, signed, follow, payment, at, held>>

ReadToAnswer(t) ==
  /\ at[t] = "idle" /\ stage \in Live
  /\ \/ ~lapsed /\ Goto(t, "accepting", stage)
     \/ Goto(t, "declining", stage)
  /\ UNCHANGED <<proposal, asking, signed, follow, payment>>

\* The status it read is part of the key it updates by.
AnyLive(t) == stage \in Stages                                          \* mutant
Unmoved(t) == stage = held[t]

\* One transaction: the acceptance row, which is unique, the client, the status, the mail.
\* Whoever comes second rolls back.
Accept(t) ==
  /\ at[t] = "accepting"
  /\ IF Unmoved(t) /\ signed = 0
     THEN /\ signed' = 1 /\ stage' = "accepted"
          /\ Goto(t, "handing_on", None)
     ELSE UNCHANGED <<stage, signed>> /\ Leave(t)
  /\ UNCHANGED <<lapsed, seen, asking, follow, payment>>

Decline(t) ==
  /\ at[t] = "declining"
  /\ stage' = IF Unmoved(t) THEN "declined" ELSE stage
  /\ Leave(t)
  /\ UNCHANGED <<lapsed, seen, asking, signed, follow, payment>>

\* queueProposalFollowOn in the web process, where nothing replaced its default: it queues
\* no job and returns, and the stamp says it was queued.
HandOn(t) ==
  /\ at[t] = "handing_on"
  /\ handedOn' = TRUE
  /\ Leave(t)
  /\ UNCHANGED <<proposal, asking, signed, queued, session, links, started, payment>>

-----------------------------------------------------------------------------
(* The follow-on *)

Unqueued == stage = "accepted" /\ ~handedOn

SweepFollowOn ==
  /\ Unqueued /\ signed > 0
  /\ queued' = TRUE
  /\ UNCHANGED <<proposal, asking, signed, handedOn, session, links, started, payment, at, held>>

\* The proposal is read once, before the slow rendering of the countersigned copy.
BeginFollowOn(f) ==
  /\ at[f] = "idle" /\ queued
  /\ queued' = FALSE
  /\ Goto(f, IF session THEN "starting" ELSE "opening", None)
  /\ UNCHANGED <<proposal, asking, signed, handedOn, session, links, started, payment>>

SessionAgain == TRUE                                                    \* mutant
SessionFree == ~session

\* A session is opened at the provider, and whoever stamps it first mails its link.
OpenPayment(f) ==
  /\ at[f] = "opening"
  /\ session' = TRUE
  /\ links' = IF SessionFree THEN links + 1 ELSE links
  /\ Goto(f, "starting", None)
  /\ UNCHANGED <<proposal, asking, signed, handedOn, queued, started, payment>>

\* projects_proposal is unique: a second run adopts the first one's project.
StartProject(f) ==
  /\ at[f] = "starting"
  /\ started' = TRUE
  /\ Leave(f)
  /\ UNCHANGED <<proposal, asking, signed, handedOn, queued, session, links, payment>>

-----------------------------------------------------------------------------
(* The payment *)

FileAgain == TRUE                                                       \* mutant
Unclaimed == ~paid

\* completeProposalCheckout claims the session on the proposal, and files it afterwards.
ClaimPayment(h) ==
  /\ at[h] = "idle" /\ session /\ Unclaimed
  /\ paid' = TRUE
  /\ Goto(h, "filing", None)
  /\ UNCHANGED <<proposal, asking, signed, follow, filings>>

FilePayment(h) ==
  /\ at[h] = "filing"
  /\ filings' = filings + 1
  /\ Leave(h)
  /\ UNCHANGED <<proposal, asking, signed, follow, paid>>

-----------------------------------------------------------------------------
\* A step throws, or its process dies; a follow-on that fails is tried again.
Dies(p) ==
  /\ at[p] # "idle"
  /\ queued' = (queued \/ p \in Followers)
  /\ Leave(p)
  /\ UNCHANGED <<proposal, asking, signed, handedOn, session, links, started, payment>>

Send(s) ==
  \/ BeginSend(s, None) \/ CommitSend(s) \/ StampApplied(s)
  \/ \E a \in Asks : CarryOut(s, a) \/ StampOnly(s, a)

Answer(t) == ReadToAnswer(t) \/ Accept(t) \/ Decline(t) \/ HandOn(t)
FollowOn(f) == BeginFollowOn(f) \/ OpenPayment(f) \/ StartProject(f)
Pay(h) == ClaimPayment(h) \/ FilePayment(h)

Next ==
  \/ \E a \in Asks : RequestApproval(a) \/ Decide(a)
  \/ \E s \in Senders : Send(s)
  \/ \E t \in Taps : Answer(t)
  \/ \E f \in Followers : FollowOn(f)
  \/ \E h \in Hooks : Pay(h)
  \/ \E p \in Processes : Dies(p)
  \/ View \/ Expire \/ SweepFollowOn \/ DateLapses

Spec == Init /\ [][Next]_vars

-----------------------------------------------------------------------------
TypeOK ==
  /\ stage \in Stages /\ lapsed \in BOOLEAN /\ seen \in BOOLEAN
  /\ ask \in [Asks -> {"none", "pending", "approved", "rejected"}]
  /\ applied \in [Asks -> BOOLEAN]
  /\ mailed \in Nat /\ signed \in {0, 1}
  /\ handedOn \in BOOLEAN /\ queued \in BOOLEAN /\ session \in BOOLEAN /\ started \in BOOLEAN
  /\ links \in Nat /\ paid \in BOOLEAN /\ filings \in Nat
  /\ at \in [Processes -> {"idle", "rendering", "stamping", "accepting", "declining",
                           "handing_on", "opening", "starting", "filing"}]
  /\ held \in [Processes -> Asks \cup Live \cup {None}]

\* The acceptance record and the status never disagree, whoever taps, opens, expires or
\* sends at the same time (accept.ts: "There is no state where somebody is a client of a
\* proposal that is still `sent`").
AcceptedTogether == signed = 1 <=> stage = "accepted"

\* An answer is final: no second tap, late decline, view, expiry or send replaces it
\* (public.ts: "a decision that has been made cannot be unmade from a public page").
DecisionStands ==
  [][stage' = stage \/ stage \notin {"accepted", "declined", "expired"}]_vars

\* The client is sent the proposal once, although an approved card, the sweep behind it and
\* the Send button may all ask, and a stamp may be lost (approval.ts: "a retry after a lost
\* stamp finds the proposal already `sent`").
MailedOnce == mailed <= 1

\* However often the follow-on runs, dies and overlaps itself, the client gets one payment
\* link, and the payment is filed once (proposals-accepted.ts: "a client with two links in
\* their inbox is a client who might pay twice").
AskedOnce == links <= 1 /\ filings <= 1

\* The stamp says the follow-on was queued: so it is queued, being run, or done
\* (follow-on.ts: "An un-wired process is not a silent loss").
StampedIsQueued ==
  handedOn => queued \/ started \/ \E f \in Followers : at[f] # "idle"
=============================================================================
