------------------------------ MODULE MCStudio ------------------------------
(***************************************************************************)
(* Four components of the agency's work side by side: a proposal, a        *)
(* content item, a host's diary and a support conversation.  They share no *)
(* row, so a behaviour picks one of them at the start and the others stand *)
(* still.                                                                  *)
(***************************************************************************)
EXTENDS Proposals, TLC

CONSTANTS
  Editors, Sweeps, Cards, MaxAttempts,
  Calls, Requests, LastSlot, Horizon, Buffer, Notice,
  Tickets, Mails, Deliveries, Replies, Staff, Thread

VARIABLES
  part,
  cStatus, cApprovalId, cAttempts, cCard, cApplied, cPosts, cUnanswered, cOverwritten, cAt, cHeld,
  mNow, mStatus, mStartsAt, mHosted, mStamped, mReminders, mAt, mHeld, mOutrun,
  mCrossed,
  tByMail, tCase, tShown, tLink, tCame, tLock, tAt, tOn, tMemo, tHeard, tMissed

Content == INSTANCE Publishing WITH
  status <- cStatus, approvalId <- cApprovalId, attempts <- cAttempts, card <- cCard,
  applied <- cApplied, posts <- cPosts, unanswered <- cUnanswered,
  overwritten <- cOverwritten, at <- cAt, held <- cHeld

Diary == INSTANCE Meetings WITH
  now <- mNow, status <- mStatus, startsAt <- mStartsAt, hosted <- mHosted,
  stamped <- mStamped, reminders <- mReminders, at <- mAt, held <- mHeld, outrun <- mOutrun,
  crossed <- mCrossed

Support == INSTANCE Cases WITH
  byMail <- tByMail, case <- tCase, shown <- tShown, link <- tLink, came <- tCame,
  lock <- tLock, at <- tAt, on <- tOn, memo <- tMemo, heard <- tHeard, missed <- tMissed

ASSUME InstancesOK == Content!ConstantsOK /\ Diary!ConstantsOK /\ Support!ConstantsOK

contentVars == <<cStatus, cApprovalId, cAttempts, cCard, cApplied, cPosts, cUnanswered,
                 cOverwritten, cAt, cHeld>>
diaryVars == <<mNow, mStatus, mStartsAt, mHosted, mStamped, mReminders, mAt, mHeld, mOutrun,
  mCrossed>>
supportVars == <<tByMail, tCase, tShown, tLink, tCame, tLock, tAt, tOn, tMemo, tHeard, tMissed>>
allVars == <<part, vars, contentVars, diaryVars, supportVars>>

ContentAbsent ==
  /\ cStatus = None /\ cApprovalId = None /\ cAttempts = None /\ cCard = None
  /\ cApplied = None /\ cPosts = None /\ cUnanswered = None /\ cOverwritten = None
  /\ cAt = None /\ cHeld = None

DiaryAbsent ==
  /\ mNow = None /\ mStatus = None /\ mStartsAt = None /\ mHosted = None /\ mStamped = None
  /\ mReminders = None /\ mAt = None /\ mHeld = None
  /\ mOutrun = None /\ mCrossed = None

SupportAbsent ==
  /\ tByMail = None /\ tCase = None /\ tShown = None /\ tLink = None /\ tCame = None
  /\ tLock = None /\ tAt = None /\ tOn = None /\ tMemo = None /\ tHeard = None
  /\ tMissed = None

MCInit ==
  /\ Init
  /\ \/ part = "proposal" /\ ContentAbsent /\ DiaryAbsent /\ SupportAbsent
     \/ part = "content" /\ Content!Init /\ DiaryAbsent /\ SupportAbsent
     \/ part = "diary" /\ ContentAbsent /\ Diary!Init /\ SupportAbsent
     \/ part = "support" /\ ContentAbsent /\ DiaryAbsent /\ Support!Init

ProposalStep ==
  part = "proposal" /\ Next /\ UNCHANGED <<part, contentVars, diaryVars, supportVars>>
ContentStep ==
  part = "content" /\ Content!Next /\ UNCHANGED <<part, vars, diaryVars, supportVars>>
DiaryStep ==
  part = "diary" /\ Diary!Next /\ UNCHANGED <<part, vars, contentVars, supportVars>>
SupportStep ==
  part = "support" /\ Support!Next /\ UNCHANGED <<part, vars, contentVars, diaryVars>>

MCNext == ProposalStep \/ ContentStep \/ DiaryStep \/ SupportStep

MCSpec == MCInit /\ [][MCNext]_allVars

\* The same names serve the requests, the jobs, and the cards, calls and cases of all four.
Symmetry ==
  Permutations(Taps) \cup Permutations(Followers) \cup Permutations(Cards)

\* Each component's variables have their types.
Typed ==
  /\ TypeOK
  /\ part = "content" => Content!TypeOK
  /\ part = "diary" => Diary!TypeOK
  /\ part = "support" => Support!TypeOK

\* Publishing!PostsExplained: no item is posted twice without a lost answer or an overwrite.
PostsExplained == part = "content" => Content!PostsExplained

\* Publishing!OutByApproval: what goes out, goes out by the owner's approval of its card.
OutByApproval == part = "content" => Content!OutByApproval

\* Publishing!CancelledStays: a cancelled item comes back only by a revision that read it
\* before.
CancelledStays == [][part = "content" => Content!RevivedByRevision]_allVars

\* Meetings!OneCallPerSlot: two guests never hold one slot.
OneCallPerSlot == part = "diary" => Diary!OneCallPerSlot

\* Meetings!ProviderAgrees: row and video provider say the same, or the last move was lost.
ProviderAgrees == part = "diary" => Diary!ProviderAgrees

\* Cases!ClientHeard: no message is left on a closed case that did not itself meet the close.
ClientHeard == part = "support" => Support!ClientHeard

\* Cases!NoLockCycle: no transactions of one case wait for each other in a circle.
NoLockCycle == part = "support" => Support!NoLockCycle
=============================================================================
