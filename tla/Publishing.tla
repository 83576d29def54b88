----------------------------- MODULE Publishing -----------------------------
(***************************************************************************)
(* One content item, from the draft to the post on the client's channel.   *)
(* Staff edit it and cancel it, a card asks the owner, and the publishing  *)
(* sweep of the worker claims what was approved and posts it.              *)
(*                                                                         *)
(* An edit and a cancellation read the item in one statement and write it  *)
(* by id in a later one; every other step is one transaction.              *)
(***************************************************************************)
EXTENDS Naturals

CONSTANTS
  Editors,      \* requests that edit or cancel the item
  Sweeps,       \* publishing sweeps that may be alive at once
  Cards,        \* approvals rows of kind content_publish
  MaxAttempts,  \* MAX_CONTENT_PUBLISH_ATTEMPTS
  None

ConstantsOK ==
  /\ MaxAttempts \in Nat \ {0}
  /\ Editors \cap Sweeps = {} /\ None \notin Cards

VARIABLES
  status,       \* content_items.status
  approvalId,   \* content_items.approvalId
  attempts,     \* metadata.publishAttempts
  card,         \* approvals.status of each card, "withdrawn" when soft-deleted
  applied,      \* its metadata.appliedAt
  posts,        \* posts the platform took
  unanswered,   \* those whose answer was lost on the way back
  overwritten,  \* writes that landed on a status other than the one read
  at,           \* where each request or sweep is
  held          \* the status and the card an edit or a cancellation read

item    == <<status, approvalId, attempts>>
asking  == <<card, applied>>
outside == <<posts, unanswered, overwritten>>
vars    == <<item, asking, outside, at, held>>

Statuses == {"draft", "awaiting_approval", "approved", "rejected", "publishing",
             "published", "failed", "cancelled"}
Revisable   == {"rejected", "failed"}
Cancellable == {"draft", "awaiting_approval", "approved", "failed", "rejected"}
Nothing     == [status |-> None, approvalId |-> None]

\* The item is new, or was rejected before on a card that is none of Cards.
Init ==
  /\ status \in {"draft", "rejected"} /\ approvalId = None /\ attempts = 0
  /\ card = [c \in Cards |-> "none"] /\ applied = [c \in Cards |-> FALSE]
  /\ posts = 0 /\ unanswered = 0 /\ overwritten = 0
  /\ at = [p \in Editors \cup Sweeps |-> "idle"]
  /\ held = [e \in Editors |-> Nothing]

-----------------------------------------------------------------------------
(* The approval *)

\* A partial unique index allows one pending card for the item.
RequestContentApproval(c) ==
  /\ card[c] = "none" /\ status = "draft"
  /\ \A d \in Cards : card[d] # "pending"
  /\ card' = [card EXCEPT ![c] = "pending"]
  /\ status' = "awaiting_approval" /\ approvalId' = c
  /\ UNCHANGED <<attempts, applied, outside, at, held>>

\* decideApproval, which commits before the decision is carried onto the item.
Decide(c) ==
  /\ card[c] = "pending"
  /\ \E verdict \in {"approved", "rejected"} : card' = [card EXCEPT ![c] = verdict]
  /\ UNCHANGED <<item, applied, outside, at, held>>

AwaitsAny(c)  == status = "awaiting_approval"                           \* mutant
AwaitsNone(c) == approvalId = c                                         \* mutant
Awaits(c) == status = "awaiting_approval" /\ approvalId = c

\* Claimed once; the item moves only if it still waits on this very card.
ApplyDecision(c) ==
  /\ card[c] \in {"approved", "rejected"} /\ ~applied[c]
  /\ applied' = [applied EXCEPT ![c] = TRUE]
  /\ IF Awaits(c)
     THEN /\ status' = card[c]
          /\ attempts' = IF card[c] = "approved" THEN 0 ELSE attempts
     ELSE UNCHANGED <<status, attempts>>
  /\ UNCHANGED <<approvalId, card, outside, at, held>>

-----------------------------------------------------------------------------
(* Edits and cancellations *)

ReadItem(e) ==
  /\ at[e] = "idle"
  /\ \/ status \in Revisable /\ at' = [at EXCEPT ![e] = "revising"]
     \/ status \in Cancellable /\ at' = [at EXCEPT ![e] = "cancelling"]
  /\ held' = [held EXCEPT ![e] = [status |-> status, approvalId |-> approvalId]]
  /\ UNCHANGED <<item, asking, outside>>

Release(e) == at' = [at EXCEPT ![e] = "idle"] /\ held' = [held EXCEPT ![e] = Nothing]

Overwrites(e) == overwritten' = IF status = held[e].status THEN overwritten ELSE overwritten + 1

\* updateContentItem on a rejected or failed item; on a draft or a waiting item an edit
\* changes only the words.
Revise(e) ==
  /\ at[e] = "revising"
  /\ status' = "draft" /\ approvalId' = None
  /\ Overwrites(e) /\ Release(e)
  /\ UNCHANGED <<attempts, asking, posts, unanswered>>

\* cancelContentItem withdraws the card it read, if it is still pending.
Cancel(e) ==
  /\ at[e] = "cancelling"
  /\ status' = "cancelled"
  /\ card' = [c \in Cards |->
       IF c = held[e].approvalId /\ card[c] = "pending" THEN "withdrawn" ELSE card[c]]
  /\ Overwrites(e) /\ Release(e)
  /\ UNCHANGED <<approvalId, attempts, applied, posts, unanswered>>

-----------------------------------------------------------------------------
(* The publishing sweep *)

DueOrStuck == status \in {"approved", "publishing"}                     \* mutant
Due == status = "approved"

ClaimDueContent(w) ==
  /\ at[w] = "idle" /\ Due
  /\ status' = "publishing"
  /\ at' = [at EXCEPT ![w] = "posting"]
  /\ UNCHANGED <<approvalId, attempts, asking, outside, held>>

\* publishOne: the platform takes the post, takes it and the answer is lost, or does not.
Post(w) ==
  /\ at[w] = "posting"
  /\ \E outcome \in {"posted", "timeout", "retryable", "permanent"} :
       /\ posts' = IF outcome \in {"posted", "timeout"} THEN posts + 1 ELSE posts
       /\ unanswered' = IF outcome = "timeout" THEN unanswered + 1 ELSE unanswered
       /\ at' = [at EXCEPT ![w] = outcome]
  /\ UNCHANGED <<item, asking, overwritten, held>>

\* markContentPublished and markContentFailed throw when somebody else moved the item.
MarkContentPublished(w) ==
  /\ at[w] = "posted"
  /\ status' = IF status = "publishing" THEN "published" ELSE status
  /\ at' = [at EXCEPT ![w] = "idle"]
  /\ UNCHANGED <<approvalId, attempts, asking, outside, held>>

ExhaustedNever(w) == at[w] = "permanent"                                \* mutant
Exhausted(w) == at[w] = "permanent" \/ attempts + 1 >= MaxAttempts

MarkContentFailed(w) ==
  /\ at[w] \in {"timeout", "retryable", "permanent"}
  /\ IF status = "publishing"
     THEN /\ status' = IF Exhausted(w) THEN "failed" ELSE "approved"
          /\ attempts' = attempts + 1
     ELSE UNCHANGED <<status, attempts>>
  /\ at' = [at EXCEPT ![w] = "idle"]
  /\ UNCHANGED <<approvalId, asking, outside, held>>

\* A process dies between two statements: a claimed item stays `publishing` for a person.
Dies(p) ==
  /\ at[p] # "idle"
  /\ at' = [at EXCEPT ![p] = "idle"]
  /\ held' = [e \in Editors |-> IF e = p THEN Nothing ELSE held[e]]
  /\ UNCHANGED <<item, asking, outside>>

Next ==
  \/ \E c \in Cards : RequestContentApproval(c) \/ Decide(c) \/ ApplyDecision(c)
  \/ \E e \in Editors : ReadItem(e) \/ Revise(e) \/ Cancel(e)
  \/ \E w \in Sweeps :
       ClaimDueContent(w) \/ Post(w) \/ MarkContentPublished(w) \/ MarkContentFailed(w)
  \/ \E p \in Editors \cup Sweeps : Dies(p)

Spec == Init /\ [][Next]_vars

-----------------------------------------------------------------------------
TypeOK ==
  /\ status \in Statuses /\ approvalId \in Cards \cup {None}
  /\ attempts \in 0..MaxAttempts
  /\ card \in [Cards -> {"none", "pending", "approved", "rejected", "withdrawn"}]
  /\ applied \in [Cards -> BOOLEAN]
  /\ posts \in Nat /\ unanswered \in Nat /\ overwritten \in Nat
  /\ at \in [Editors \cup Sweeps -> {"idle", "revising", "cancelling", "posting", "posted",
                                     "timeout", "retryable", "permanent"}]
  /\ held \in [Editors -> [status : Statuses \cup {None}, approvalId : Cards \cup {None}]]

\* Two sweeps, a retry and a crash never post an item twice by themselves: every post beyond
\* the first is a lost answer of the platform or an item somebody overwrote while it went out
\* (publishing.ts: a worker that dies mid-publish leaves the item "visible in the admin list
\* as stuck rather than silently sent twice").
PostsExplained == posts <= 1 + unanswered + overwritten

\* What is on its way out, or came back refused, is there by the owner's approval of the very
\* card on the item, however late an older card's decision is carried out.
OutByApproval ==
  status \in {"approved", "publishing", "published", "failed"} =>
    approvalId \in Cards /\ card[approvalId] = "approved" /\ applied[approvalId]

\* A cancelled item stays cancelled: only a revision that read it before puts it back
\* (items.ts: the card "cannot be approved into a cancelled item").
RevivedByRevision ==
  status = "cancelled" /\ status' # "cancelled" =>
    \E e \in Editors : at[e] = "revising" /\ at'[e] = "idle"

\* The same of every step.
CancelledStays == [][RevivedByRevision]_vars
=============================================================================
