--------------------------- MODULE MCStudio_proofs ---------------------------
(***************************************************************************)
(* Proofs about one proposal, for any number of taps, follow-on jobs,      *)
(* payment events and approval cards; and about the four components of the *)
(* studio side by side, for every value of their constants.                *)
(*                                                                         *)
(* Two workers that both read the draft both send it (Proposals,           *)
(* CommitSend).  With one sender at a time, which is how the worker runs   *)
(* its jobs, that cannot be; for any number of senders what can go wrong   *)
(* is bounded by their number, and the rest holds until a second copy      *)
(* goes out.                                                               *)
(***************************************************************************)
EXTENDS MCStudio, FiniteSetTheorems, TLAPS

-----------------------------------------------------------------------------
(* One proposal *)

OneSender == \A s, u \in Senders : s = u

\* Each kind of process is where its own code goes.
Places ==
  /\ \A s \in Senders : at[s] \in {"idle", "rendering", "stamping"}
  /\ \A t \in Taps : at[t] \in {"idle", "accepting", "declining", "handing_on"}
  /\ \A f \in Followers : at[f] \in {"idle", "opening", "starting"}
  /\ \A h \in Hooks : at[h] \in {"idle", "filing"}

\* What a process holds on to: an answer the status it read, a sender its card.
Holds ==
  /\ \A t \in Taps : at[t] \in {"accepting", "declining"} => held[t] \in Live
  /\ \A s \in Senders : /\ at[s] = "rendering" => held[s] \in Asks \cup {None}
                        /\ at[s] = "stamping" => held[s] \in Asks

\* A link went out only with the session stamped, and a payment is filed by its one claimant.
OwnFiling ==
  /\ ~session => links = 0
  /\ \A h \in Hooks : at[h] = "filing" =>
       paid /\ filings = 0 /\ \A g \in Hooks : at[g] = "filing" => g = h
  /\ ~paid => filings = 0

\* A draft is what nobody was sent; and until a second copy goes out, nobody takes an answer
\* back.
UntilResent ==
  /\ stage = "draft" <=> mailed = 0
  /\ MailedOnce => AcceptedTogether

AnswerInv == TypeOK /\ Places /\ Holds /\ AskedOnce /\ OwnFiling

LEMMA AnswerStep == AnswerInv /\ [Next]_vars => AnswerInv'
<1> SUFFICES ASSUME AnswerInv, [Next]_vars PROVE AnswerInv'
  OBVIOUS
<1> USE KindsApart DEF AnswerInv, TypeOK, Places, Holds, AskedOnce, OwnFiling, Stages, Live,
        Processes, proposal, asking, follow, payment, Goto, Leave
<1>1. ASSUME NEW a \in Asks, RequestApproval(a) \/ Decide(a) PROVE AnswerInv'
  BY <1>1 DEF RequestApproval, Decide
<1>2. ASSUME NEW s \in Senders, NEW a \in Asks \cup {None}, BeginSend(s, a) PROVE AnswerInv'
  BY <1>2 DEF BeginSend
<1>3. ASSUME NEW s \in Senders, CommitSend(s) PROVE AnswerInv'
  BY <1>3 DEF CommitSend
<1>4. ASSUME NEW s \in Senders, StampApplied(s) PROVE AnswerInv'
  BY <1>4 DEF StampApplied
<1>5. ASSUME NEW s \in Senders, NEW a \in Asks, StampOnly(s, a) PROVE AnswerInv'
  BY <1>5 DEF StampOnly
<1>6. ASSUME NEW t \in Taps, ReadToAnswer(t) PROVE AnswerInv'
  BY <1>6 DEF ReadToAnswer
<1>7. ASSUME NEW t \in Taps, Accept(t) PROVE AnswerInv'
  BY <1>7 DEF Accept
<1>8. ASSUME NEW t \in Taps, Decline(t) PROVE AnswerInv'
  BY <1>8 DEF Decline
<1>9. ASSUME NEW t \in Taps, HandOn(t) PROVE AnswerInv'
  BY <1>9 DEF HandOn
<1>10. ASSUME NEW f \in Followers, BeginFollowOn(f) PROVE AnswerInv'
  <2>1. PICK place \in {"opening", "starting"} :
          at' = [at EXCEPT ![f] = place] /\ held' = [held EXCEPT ![f] = None]
    BY <1>10 DEF BeginFollowOn
  <2>2. TypeOK'
    BY <1>10, <2>1 DEF BeginFollowOn
  <2>3. Places' /\ Holds'
    BY <1>10, <2>1 DEF BeginFollowOn
  <2>4. AskedOnce' /\ OwnFiling'
    BY <1>10, <2>1 DEF BeginFollowOn
  <2>5. QED
    BY <2>2, <2>3, <2>4
<1>11. ASSUME NEW f \in Followers, OpenPayment(f) PROVE AnswerInv'
  BY <1>11 DEF OpenPayment, SessionFree
<1>12. ASSUME NEW f \in Followers, StartProject(f) PROVE AnswerInv'
  BY <1>12 DEF StartProject
<1>13. ASSUME NEW h \in Hooks, ClaimPayment(h) PROVE AnswerInv'
  BY <1>13 DEF ClaimPayment, Unclaimed
<1>14. ASSUME NEW h \in Hooks, FilePayment(h) PROVE AnswerInv'
  BY <1>14 DEF FilePayment
<1>15. ASSUME NEW p \in Processes, Dies(p) PROVE AnswerInv'
  BY <1>15 DEF Dies
<1>16. ASSUME View PROVE AnswerInv'
  BY <1>16 DEF View
<1>17. ASSUME Expire PROVE AnswerInv'
  BY <1>17 DEF Expire
<1>18. ASSUME SweepFollowOn PROVE AnswerInv'
  BY <1>18 DEF SweepFollowOn
<1>19. ASSUME DateLapses PROVE AnswerInv'
  BY <1>19 DEF DateLapses
<1>20. ASSUME UNCHANGED vars PROVE AnswerInv'
  BY <1>20 DEF vars
<1>21. QED
  <2> HIDE DEF AnswerInv
  <2>1. QED
    BY <1>1, <1>2, <1>3, <1>4, <1>5, <1>6, <1>7, <1>8, <1>9, <1>10, <1>11, <1>12, <1>13,
       <1>14, <1>15, <1>16, <1>17, <1>18, <1>19, <1>20 DEF Next, Send, CarryOut, Answer, FollowOn, Pay

LEMMA AnswerInit == Init => AnswerInv
<1> SUFFICES ASSUME Init PROVE AnswerInv
  OBVIOUS
<1> USE DEF Init, Processes
<1>1. TypeOK
  BY DEF TypeOK, Stages
<1>2. Places /\ Holds /\ AskedOnce /\ OwnFiling
  BY DEF Places, Holds, AskedOnce, OwnFiling
<1>3. QED
  BY <1>1, <1>2 DEF AnswerInv

LEMMA AnswerInvariant == Spec => []AnswerInv
BY AnswerInit, AnswerStep, PTL DEF Spec

LEMMA UntilResentStep == AnswerInv /\ UntilResent /\ [Next]_vars => UntilResent'
<1> SUFFICES ASSUME AnswerInv, UntilResent, [Next]_vars PROVE UntilResent'
  OBVIOUS
<1> USE KindsApart DEF AnswerInv, TypeOK, Places, Holds, UntilResent,
        MailedOnce, AcceptedTogether, Stages, Live, Processes,
        proposal, asking, follow, payment, Goto, Leave
<1>1. ASSUME NEW a \in Asks, RequestApproval(a) \/ Decide(a) PROVE UntilResent'
  BY <1>1 DEF RequestApproval, Decide
<1>2. ASSUME NEW s \in Senders, NEW a \in Asks \cup {None}, BeginSend(s, a) PROVE UntilResent'
  BY <1>2 DEF BeginSend, Sendable
<1>3. ASSUME NEW s \in Senders, CommitSend(s) PROVE UntilResent'
  BY <1>3 DEF CommitSend
<1>4. ASSUME NEW s \in Senders, StampApplied(s) PROVE UntilResent'
  BY <1>4 DEF StampApplied
<1>5. ASSUME NEW s \in Senders, NEW a \in Asks, StampOnly(s, a) PROVE UntilResent'
  BY <1>5 DEF StampOnly
<1>6. ASSUME NEW t \in Taps, ReadToAnswer(t) PROVE UntilResent'
  BY <1>6 DEF ReadToAnswer
<1>7. ASSUME NEW t \in Taps, Accept(t) PROVE UntilResent'
  BY <1>7 DEF Accept, Unmoved
<1>8. ASSUME NEW t \in Taps, Decline(t) PROVE UntilResent'
  BY <1>8 DEF Decline, Unmoved
<1>9. ASSUME NEW t \in Taps, HandOn(t) PROVE UntilResent'
  BY <1>9 DEF HandOn
<1>10. ASSUME NEW f \in Followers, BeginFollowOn(f) \/ OpenPayment(f) \/ StartProject(f)
       PROVE  UntilResent'
  BY <1>10 DEF BeginFollowOn, OpenPayment, StartProject
<1>11. ASSUME NEW h \in Hooks, ClaimPayment(h) \/ FilePayment(h) PROVE UntilResent'
  BY <1>11 DEF ClaimPayment, FilePayment
<1>12. ASSUME NEW p \in Processes, Dies(p) PROVE UntilResent'
  BY <1>12 DEF Dies
<1>13. ASSUME View \/ Expire PROVE UntilResent'
  BY <1>13 DEF View, Expire
<1>14. ASSUME SweepFollowOn \/ DateLapses PROVE UntilResent'
  BY <1>14 DEF SweepFollowOn, DateLapses
<1>15. ASSUME UNCHANGED vars PROVE UntilResent'
  BY <1>15 DEF vars
<1>16. QED
  <2> HIDE DEF UntilResent, AnswerInv
  <2>1. QED
    BY <1>1, <1>2, <1>3, <1>4, <1>5, <1>6, <1>7, <1>8, <1>9, <1>10, <1>11, <1>12, <1>13,
       <1>14, <1>15 DEF Next, Send, CarryOut, Answer, FollowOn, Pay

LEMMA UntilResentInvariant == Spec => []UntilResent
<1>1. Init => UntilResent
  BY DEF Init, UntilResent, MailedOnce, AcceptedTogether
<1>2. QED
  BY AnswerInvariant, <1>1, UntilResentStep, PTL DEF Spec

\* Every variable of a proposal keeps its type.
THEOREM ProposalTyped == Spec => []TypeOK
<1>1. AnswerInv => TypeOK
  BY DEF AnswerInv
<1>2. QED
  BY AnswerInvariant, <1>1, PTL

\* However many follow-on jobs and payment events overlap, the client gets one payment link
\* and the payment is filed once.
THEOREM OneLinkOneFiling == Spec => []AskedOnce
<1>1. AnswerInv => AskedOnce
  BY DEF AnswerInv
<1>2. QED
  BY AnswerInvariant, <1>1, PTL

\* The senders that read the draft and have not committed yet.
Rendering == {s \in Senders : at[s] = "rendering"}

\* Once the first of them has committed nobody reads a draft again, and each that did read it
\* mails at most once.
MailBound ==
  /\ stage = "draft" => mailed = 0
  /\ stage # "draft" => mailed + Cardinality(Rendering) <= Cardinality(Senders)

LEMMA RenderingFinite ==
  ASSUME IsFiniteSet(Senders)
  PROVE  /\ IsFiniteSet(Rendering)
         /\ Cardinality(Rendering) \in Nat /\ Cardinality(Senders) \in Nat
         /\ Cardinality(Rendering) <= Cardinality(Senders)
<1>1. Rendering \subseteq Senders
  BY DEF Rendering
<1>2. IsFiniteSet(Rendering) /\ Cardinality(Rendering) <= Cardinality(Senders)
  BY <1>1, FS_Subset
<1>3. QED
  BY <1>2, FS_CardinalityType

LEMMA FewerRendering ==
  ASSUME IsFiniteSet(Senders), Rendering' \subseteq Rendering
  PROVE  Cardinality(Rendering') \in Nat /\ Cardinality(Rendering') <= Cardinality(Rendering)
<1>1. IsFiniteSet(Rendering') /\ Cardinality(Rendering') <= Cardinality(Rendering)
  BY RenderingFinite, FS_Subset
<1>2. QED
  BY <1>1, FS_CardinalityType

\* A step that mails nothing, and lets nobody begin who was not there, keeps the bound.
Idles ==
  /\ mailed' = mailed
  /\ stage' = stage \/ (stage # "draft" /\ stage' # "draft")
  /\ stage = "draft" \/ Rendering' \subseteq Rendering

LEMMA IdlesOrCommits ==
  ASSUME AnswerInv, [Next]_vars
  PROVE  Idles \/ \E s \in Senders : CommitSend(s)
<1> USE KindsApart DEF AnswerInv, TypeOK, Places, Holds, Live, Processes, Idles, Rendering,
        proposal, asking, follow, payment, Goto, Leave
<1>1. ASSUME NEW a \in Asks, RequestApproval(a) \/ Decide(a) PROVE Idles
  BY <1>1 DEF RequestApproval, Decide
<1>2. ASSUME NEW s \in Senders, NEW a \in Asks \cup {None}, BeginSend(s, a) PROVE Idles
  BY <1>2 DEF BeginSend, Sendable
<1>3. ASSUME NEW s \in Senders, StampApplied(s) PROVE Idles
  BY <1>3 DEF StampApplied
<1>4. ASSUME NEW s \in Senders, NEW a \in Asks, StampOnly(s, a) PROVE Idles
  BY <1>4 DEF StampOnly
<1>5. ASSUME NEW t \in Taps, ReadToAnswer(t) \/ HandOn(t) PROVE Idles
  BY <1>5 DEF ReadToAnswer, HandOn
<1>6. ASSUME NEW t \in Taps, Accept(t) \/ Decline(t) PROVE Idles
  BY <1>6 DEF Accept, Decline, Unmoved
<1>7. ASSUME NEW f \in Followers, BeginFollowOn(f) PROVE Idles
  <2>1. PICK place \in {"opening", "starting"} : at' = [at EXCEPT ![f] = place]
    BY <1>7 DEF BeginFollowOn
  <2>2. QED
    BY <1>7, <2>1 DEF BeginFollowOn
<1>8. ASSUME NEW f \in Followers, OpenPayment(f) \/ StartProject(f) PROVE Idles
  BY <1>8 DEF OpenPayment, StartProject
<1>9. ASSUME NEW h \in Hooks, ClaimPayment(h) \/ FilePayment(h) PROVE Idles
  BY <1>9 DEF ClaimPayment, FilePayment
<1>10. ASSUME NEW p \in Processes, Dies(p) PROVE Idles
  BY <1>10 DEF Dies
<1>11. ASSUME View \/ Expire \/ SweepFollowOn \/ DateLapses PROVE Idles
  BY <1>11 DEF View, Expire, SweepFollowOn, DateLapses
<1>12. ASSUME UNCHANGED vars PROVE Idles
  BY <1>12 DEF vars
<1>13. QED
  <2> HIDE DEF AnswerInv, Idles
  <2>1. QED
    BY <1>1, <1>2, <1>3, <1>4, <1>5, <1>6, <1>7, <1>8, <1>9, <1>10, <1>11, <1>12
       DEF Next, Send, CarryOut, Answer, FollowOn, Pay

LEMMA MailBoundStep ==
  ASSUME IsFiniteSet(Senders), AnswerInv, MailBound, [Next]_vars
  PROVE  MailBound'
<1>1. mailed \in Nat /\ DOMAIN at = Processes
  BY DEF AnswerInv, TypeOK
<1>2. CASE Idles
  <2>1. CASE stage = "draft"
    BY <1>2, <2>1 DEF MailBound, Idles
  <2>2. CASE stage # "draft"
    <3>1. Cardinality(Rendering') \in Nat /\ Cardinality(Rendering') <= Cardinality(Rendering)
      BY <1>2, <2>2, FewerRendering DEF Idles
    <3>2. mailed + Cardinality(Rendering) <= Cardinality(Senders)
      BY <2>2 DEF MailBound
    <3>3. mailed' = mailed /\ stage' # "draft"
      BY <1>2, <2>2 DEF Idles
    <3>4. QED
      BY <1>1, <3>1, <3>2, <3>3, RenderingFinite DEF MailBound
  <2>3. QED
    BY <2>1, <2>2
<1>3. ASSUME NEW s \in Senders, CommitSend(s) PROVE MailBound'
  <2>1. Rendering' = Rendering \ {s} /\ s \in Rendering
    BY <1>1, <1>3, KindsApart DEF CommitSend, Rendering, Goto, Leave, Processes
  <2>2. Cardinality(Rendering') = Cardinality(Rendering) - 1
    BY <2>1, RenderingFinite, FS_RemoveElement
  <2>3. mailed + Cardinality(Rendering) <= Cardinality(Senders)
    BY <1>1, RenderingFinite DEF MailBound
  <2>4. mailed' = mailed + 1 /\ stage' = "sent"
    BY <1>3 DEF CommitSend
  <2>5. QED
    BY <1>1, <2>2, <2>3, <2>4, RenderingFinite DEF MailBound
<1>4. Idles \/ \E s \in Senders : CommitSend(s)
  BY IdlesOrCommits
<1>5. QED
  BY <1>2, <1>3, <1>4

\* Where more workers than one send, the client still gets no more copies of a proposal than
\* there are workers, however many cards, sweeps and Send buttons ask for it.
THEOREM SentOncePerSender ==
  IsFiniteSet(Senders) => (Spec => [](mailed <= Cardinality(Senders)))
<1> SUFFICES ASSUME IsFiniteSet(Senders)
             PROVE  Spec => [](mailed <= Cardinality(Senders))
  OBVIOUS
<1>1. Init => MailBound
  BY DEF Init, MailBound
<1>2. AnswerInv /\ MailBound /\ [Next]_vars => MailBound'
  BY MailBoundStep
<1>3. AnswerInv /\ MailBound => mailed <= Cardinality(Senders)
  BY RenderingFinite DEF AnswerInv, TypeOK, MailBound
<1>4. QED
  BY AnswerInvariant, <1>1, <1>2, <1>3, PTL DEF Spec

\* With one sender at a time, the proposal is mailed once.
THEOREM SentOnce == OneSender => (Spec => []MailedOnce)
<1> SUFFICES ASSUME OneSender PROVE Spec => []MailedOnce
  OBVIOUS
<1>1. IsFiniteSet(Senders) /\ Cardinality(Senders) \in {0, 1}
  <2>1. CASE Senders = {}
    BY <2>1, FS_EmptySet
  <2>2. CASE Senders # {}
    <3>1. PICK s \in Senders : TRUE
      BY <2>2
    <3>2. Senders = {s}
      BY <3>1 DEF OneSender
    <3>3. QED
      BY <3>2, FS_Singleton
  <2>3. QED
    BY <2>1, <2>2
<1>2. Spec => [](mailed <= Cardinality(Senders))
  BY <1>1, SentOncePerSender
<1>3. AnswerInv /\ mailed <= Cardinality(Senders) => MailedOnce
  BY <1>1 DEF AnswerInv, TypeOK, MailedOnce
<1>4. QED
  BY AnswerInvariant, <1>2, <1>3, PTL

\* Until a second copy goes out, the acceptance record and the status never disagree, for any
\* number of senders.
THEOREM AgreeUntilResent == Spec => [](MailedOnce => AcceptedTogether)
<1>1. UntilResent => (MailedOnce => AcceptedTogether)
  BY DEF UntilResent
<1>2. QED
  BY UntilResentInvariant, <1>1, PTL

\* So with one sender at a time they never do.
THEOREM RecordAndStatusAgree == OneSender => (Spec => []AcceptedTogether)
<1> SUFFICES ASSUME OneSender PROVE Spec => []AcceptedTogether
  OBVIOUS
<1>1. Spec => []MailedOnce
  BY SentOnce
<1>2. QED
  BY <1>1, AgreeUntilResent, PTL

AnswerStands == stage' = stage \/ stage \notin {"accepted", "declined", "expired"}

\* Until a second copy goes out, an answered or expired proposal keeps its status, for any
\* number of senders.
THEOREM FinalUntilResent == Spec => [][MailedOnce' => AnswerStands]_vars
<1>1. ASSUME AnswerInv, UntilResent, MailedOnce', [Next]_vars
      PROVE  AnswerStands
  <2> USE <1>1 DEF Live, Stages, proposal, asking, follow, payment, Goto, Leave
  <2>1. ASSUME NEW s \in Senders, CommitSend(s) PROVE stage = "draft"
    BY <2>1 DEF CommitSend, UntilResent, MailedOnce, AnswerInv, TypeOK
  <2>2. ASSUME NEW t \in Taps, Accept(t) \/ Decline(t), stage' # stage PROVE stage \in Live
    BY <2>2 DEF Accept, Decline, Unmoved, AnswerInv, Holds
  <2>3. ASSUME View, stage' # stage PROVE stage \in Live
    BY <2>3 DEF View
  <2>4. ASSUME Expire PROVE stage \in Live
    BY <2>4 DEF Expire
  <2>5. \/ \E s \in Senders : CommitSend(s)
        \/ \E t \in Taps : Accept(t) \/ Decline(t)
        \/ View \/ Expire \/ stage' = stage
    BY DEF Next, Send, CarryOut, Answer, FollowOn, Pay, RequestApproval, Decide, BeginSend,
       StampApplied, StampOnly, ReadToAnswer, HandOn, BeginFollowOn, OpenPayment, StartProject,
       ClaimPayment, FilePayment, Dies, SweepFollowOn, DateLapses, vars
  <2>6. QED
    BY <2>1, <2>2, <2>3, <2>4, <2>5 DEF AnswerStands
<1>2. QED
  BY AnswerInvariant, UntilResentInvariant, <1>1, PTL DEF Spec

\* So with one sender at a time, an answer is final.
THEOREM AnswerIsFinal == OneSender => (Spec => DecisionStands)
<1> SUFFICES ASSUME OneSender PROVE Spec => DecisionStands
  OBVIOUS
<1>1. Spec => []MailedOnce
  BY SentOnce
<1>2. MailedOnce' /\ [MailedOnce' => AnswerStands]_vars =>
        [stage' = stage \/ stage \notin {"accepted", "declined", "expired"}]_vars
  BY DEF AnswerStands
<1>3. QED
  BY <1>1, <1>2, FinalUntilResent, PTL DEF DecisionStands

-----------------------------------------------------------------------------
(* The parts side by side: a behaviour of the studio is one of the part it picked, so what
   is proved of that part holds of it. *)

ContentProofs == INSTANCE Publishing_proofs WITH
  status <- cStatus, approvalId <- cApprovalId, attempts <- cAttempts, card <- cCard,
  applied <- cApplied, posts <- cPosts, unanswered <- cUnanswered,
  overwritten <- cOverwritten, at <- cAt, held <- cHeld

DiaryProofs == INSTANCE Meetings_proofs WITH
  now <- mNow, status <- mStatus, startsAt <- mStartsAt, hosted <- mHosted,
  stamped <- mStamped, reminders <- mReminders, at <- mAt, held <- mHeld, outrun <- mOutrun,
  crossed <- mCrossed

SupportProofs == INSTANCE Cases_proofs WITH
  byMail <- tByMail, case <- tCase, shown <- tShown, link <- tLink, came <- tCame,
  lock <- tLock, at <- tAt, on <- tOn, memo <- tMemo, heard <- tHeard, missed <- tMissed

\* Nothing but the part that was picked ever moves.
LEMMA PartStays ==
  ASSUME NEW p
  PROVE  /\ part = p /\ [MCNext]_allVars => (part = p)'
         /\ part # p /\ [MCNext]_allVars => (part # p)'
BY DEF allVars, MCNext, ProposalStep, ContentStep, DiaryStep, SupportStep

\* The proposal is there in every behaviour.
THEOREM RunsProposal == MCSpec => Spec
<1>1. MCInit => Init
  BY DEF MCInit
<1>2. [MCNext]_allVars => [Next]_vars
  BY DEF allVars, MCNext, ProposalStep, ContentStep, DiaryStep, SupportStep
<1>3. QED
  BY <1>1, <1>2, PTL DEF MCSpec, Spec

\* Content and ContentProofs are Publishing under one substitution.
LEMMA SameContent ==
  /\ Content!ConstantsOK <=> ContentProofs!ConstantsOK
  /\ Content!Init <=> ContentProofs!Init
  /\ Content!Next <=> ContentProofs!Next
<1>1. Content!ConstantsOK <=> ContentProofs!ConstantsOK
  BY DEF Content!ConstantsOK, ContentProofs!ConstantsOK
<1>2. Content!Init <=> ContentProofs!Init
  BY DEF Content!Init, Content!Nothing, ContentProofs!Init, ContentProofs!Nothing
<1>3. Content!Next <=> ContentProofs!Next
  BY DEF Content!Next, Content!RequestContentApproval, Content!outside, Content!Decide,
         Content!item, Content!ApplyDecision, Content!Awaits, Content!ReadItem,
         Content!Revisable, Content!Cancellable, Content!asking, Content!Revise,
         Content!Overwrites, Content!Release, Content!Nothing, Content!Cancel,
         Content!ClaimDueContent, Content!Due, Content!Post, Content!MarkContentPublished,
         Content!MarkContentFailed, Content!Exhausted, Content!Dies, ContentProofs!Next,
         ContentProofs!RequestContentApproval, ContentProofs!outside, ContentProofs!Decide,
         ContentProofs!item, ContentProofs!ApplyDecision, ContentProofs!Awaits,
         ContentProofs!ReadItem, ContentProofs!Revisable, ContentProofs!Cancellable,
         ContentProofs!asking, ContentProofs!Revise, ContentProofs!Overwrites,
         ContentProofs!Release, ContentProofs!Nothing, ContentProofs!Cancel,
         ContentProofs!ClaimDueContent, ContentProofs!Due, ContentProofs!Post,
         ContentProofs!MarkContentPublished, ContentProofs!MarkContentFailed,
         ContentProofs!Exhausted, ContentProofs!Dies
<1>4. QED
  BY <1>1, <1>2, <1>3

\* The studio with part = "content" runs the content item's own specification.
THEOREM RunsContent ==
  MCSpec => \/ [](part = "content") /\ ContentProofs!Spec
            \/ [](part # "content")
<1>1. MCInit /\ part = "content" => ContentProofs!Init
  BY SameContent DEF MCInit
<1>2. part = "content" /\ [MCNext]_allVars => [ContentProofs!Next]_(ContentProofs!vars)
  <2> SUFFICES ASSUME part = "content", [MCNext]_allVars
               PROVE  [ContentProofs!Next]_(ContentProofs!vars)
    OBVIOUS
  <2>1. CASE ContentStep
    BY <2>1, SameContent DEF ContentStep
  <2>2. CASE UNCHANGED allVars
    BY <2>2 DEF allVars, contentVars, ContentProofs!vars, ContentProofs!item, ContentProofs!asking, ContentProofs!outside
  <2>3. QED
    BY <2>1, <2>2 DEF MCNext, ProposalStep, DiaryStep, SupportStep
<1>3. part = "content" /\ [MCNext]_allVars => (part = "content")'
  BY PartStays
<1>4. part # "content" /\ [MCNext]_allVars => (part # "content")'
  BY PartStays
<1>5. part = "content" \/ part # "content"
  OBVIOUS
<1>6. QED
  BY <1>1, <1>2, <1>3, <1>4, <1>5, PTL DEF MCSpec, ContentProofs!Spec

\* Diary and DiaryProofs are Meetings under one substitution.
LEMMA SameDiary ==
  /\ Diary!ConstantsOK <=> DiaryProofs!ConstantsOK
  /\ Diary!Init <=> DiaryProofs!Init
  /\ Diary!Next <=> DiaryProofs!Next
<1>1. Diary!ConstantsOK <=> DiaryProofs!ConstantsOK
  BY DEF Diary!ConstantsOK, DiaryProofs!ConstantsOK
<1>2. Diary!Init <=> DiaryProofs!Init
  BY DEF Diary!Init, Diary!Actors, Diary!NoWork, DiaryProofs!Init, DiaryProofs!Actors,
         DiaryProofs!NoWork
<1>3. Diary!Next <=> DiaryProofs!Next
  BY DEF Diary!Next, Diary!CommitBooking, Diary!Taken, Diary!GivesBack, Diary!diary, Diary!history,
         Diary!Leave, Diary!Goto, Diary!Slots, Diary!BeginBooking, Diary!Available,
         Diary!Near, Diary!MoveHosted, Diary!MoveRow, Diary!CancelRow, Diary!MarkRow,
         Diary!ReadToCancel, Diary!Start, Diary!AtWork, Diary!ReadToMark, Diary!ReadToMove,
         Diary!Remind, Diary!Unclaimed, Diary!ListReminder, Diary!DueForReminder,
         Diary!Actors, Diary!Dies, Diary!Tick, DiaryProofs!Next, DiaryProofs!CommitBooking,
         DiaryProofs!Taken, DiaryProofs!GivesBack, DiaryProofs!diary, DiaryProofs!history,
         DiaryProofs!Leave,
         DiaryProofs!Goto, DiaryProofs!Slots, DiaryProofs!BeginBooking, DiaryProofs!Available,
         DiaryProofs!Near, DiaryProofs!MoveHosted, DiaryProofs!MoveRow, DiaryProofs!CancelRow,
         DiaryProofs!MarkRow, DiaryProofs!ReadToCancel, DiaryProofs!Start, DiaryProofs!AtWork,
         DiaryProofs!ReadToMark, DiaryProofs!ReadToMove, DiaryProofs!Remind,
         DiaryProofs!Unclaimed, DiaryProofs!ListReminder, DiaryProofs!DueForReminder,
         DiaryProofs!Actors, DiaryProofs!Dies, DiaryProofs!Tick
<1>4. QED
  BY <1>1, <1>2, <1>3

\* The studio with part = "diary" runs the diary's own specification.
THEOREM RunsDiary ==
  MCSpec => \/ [](part = "diary") /\ DiaryProofs!Spec
            \/ [](part # "diary")
<1>1. MCInit /\ part = "diary" => DiaryProofs!Init
  BY SameDiary DEF MCInit
<1>2. part = "diary" /\ [MCNext]_allVars => [DiaryProofs!Next]_(DiaryProofs!vars)
  <2> SUFFICES ASSUME part = "diary", [MCNext]_allVars
               PROVE  [DiaryProofs!Next]_(DiaryProofs!vars)
    OBVIOUS
  <2>1. CASE DiaryStep
    BY <2>1, SameDiary DEF DiaryStep
  <2>2. CASE UNCHANGED allVars
    BY <2>2 DEF allVars, diaryVars, DiaryProofs!vars, DiaryProofs!diary,
             DiaryProofs!history
  <2>3. QED
    BY <2>1, <2>2 DEF MCNext, ProposalStep, ContentStep, SupportStep
<1>3. part = "diary" /\ [MCNext]_allVars => (part = "diary")'
  BY PartStays
<1>4. part # "diary" /\ [MCNext]_allVars => (part # "diary")'
  BY PartStays
<1>5. part = "diary" \/ part # "diary"
  OBVIOUS
<1>6. QED
  BY <1>1, <1>2, <1>3, <1>4, <1>5, PTL DEF MCSpec, DiaryProofs!Spec

\* Support and SupportProofs are Cases under one substitution.
LEMMA SameSupport ==
  /\ Support!ConstantsOK <=> SupportProofs!ConstantsOK
  /\ Support!Init <=> SupportProofs!Init
  /\ Support!Next <=> SupportProofs!Next
<1>1. Support!ConstantsOK <=> SupportProofs!ConstantsOK
  BY DEF Support!ConstantsOK, Support!Processes, SupportProofs!ConstantsOK,
         SupportProofs!Processes
<1>2. Support!Init <=> SupportProofs!Init
  BY DEF Support!Init, Support!Rows, Support!Processes, SupportProofs!Init,
         SupportProofs!Rows, SupportProofs!Processes
<1>3. Support!Next <=> SupportProofs!Next
  BY DEF Support!Next, Support!ReadThread, Support!Goto, Support!tickets, Support!thread,
         Support!history, Support!LockCase, Support!Free, Support!LockOrder, Support!Refused,
         Support!Leave, Support!Post, Support!Reopens, Support!Unlocked, Support!Rows,
         Support!Work, Support!Answer, Support!WriteCase, Support!Statuses, Support!ReadCase,
         Support!Ingest, Support!ReceiveMail, Support!StoreMail, Support!Attach,
         Support!OpenCase, Support!SetVisibility, Support!local, Support!Processes,
         Support!Dies, SupportProofs!Next, SupportProofs!ReadThread, SupportProofs!Goto,
         SupportProofs!tickets, SupportProofs!thread, SupportProofs!history,
         SupportProofs!LockCase, SupportProofs!Free, SupportProofs!LockOrder,
         SupportProofs!Refused, SupportProofs!Leave, SupportProofs!Post,
         SupportProofs!Reopens, SupportProofs!Unlocked, SupportProofs!Rows,
         SupportProofs!Work, SupportProofs!Answer, SupportProofs!WriteCase,
         SupportProofs!Statuses, SupportProofs!ReadCase, SupportProofs!Ingest,
         SupportProofs!ReceiveMail, SupportProofs!StoreMail, SupportProofs!Attach,
         SupportProofs!OpenCase, SupportProofs!SetVisibility, SupportProofs!local,
         SupportProofs!Processes, SupportProofs!Dies
<1>4. QED
  BY <1>1, <1>2, <1>3

\* The studio with part = "support" runs the conversation's own specification.
THEOREM RunsSupport ==
  MCSpec => \/ [](part = "support") /\ SupportProofs!Spec
            \/ [](part # "support")
<1>1. MCInit /\ part = "support" => SupportProofs!Init
  BY SameSupport DEF MCInit
<1>2. part = "support" /\ [MCNext]_allVars => [SupportProofs!Next]_(SupportProofs!vars)
  <2> SUFFICES ASSUME part = "support", [MCNext]_allVars
               PROVE  [SupportProofs!Next]_(SupportProofs!vars)
    OBVIOUS
  <2>1. CASE SupportStep
    BY <2>1, SameSupport DEF SupportStep
  <2>2. CASE UNCHANGED allVars
    BY <2>2 DEF allVars, supportVars, SupportProofs!vars, SupportProofs!tickets, SupportProofs!thread, SupportProofs!local, SupportProofs!history
  <2>3. QED
    BY <2>1, <2>2 DEF MCNext, ProposalStep, ContentStep, DiaryStep
<1>3. part = "support" /\ [MCNext]_allVars => (part = "support")'
  BY PartStays
<1>4. part # "support" /\ [MCNext]_allVars => (part # "support")'
  BY PartStays
<1>5. part = "support" \/ part # "support"
  OBVIOUS
<1>6. QED
  BY <1>1, <1>2, <1>3, <1>4, <1>5, PTL DEF MCSpec, SupportProofs!Spec

-----------------------------------------------------------------------------
\* Every variable of every part keeps its type.
THEOREM EveryPartTyped == MCSpec => []Typed
<1>1. Spec => []TypeOK
  BY ProposalTyped
<1>2. ContentProofs!Spec => []ContentProofs!TypeOK
  BY InstancesOK, SameContent, ContentProofs!PublishingTyped
<1>3. DiaryProofs!Spec => []DiaryProofs!TypeOK
  BY InstancesOK, SameDiary, DiaryProofs!DiaryTyped
<1>4. SupportProofs!Spec => []SupportProofs!TypeOK
  BY InstancesOK, SameSupport, SupportProofs!CasesTyped
<1>5. ContentProofs!TypeOK => Content!TypeOK
  BY DEF Content!TypeOK, Content!Statuses, ContentProofs!TypeOK, ContentProofs!Statuses
<1>6. DiaryProofs!TypeOK => Diary!TypeOK
  BY DEF Diary!TypeOK, Diary!Slots, Diary!Actors, DiaryProofs!TypeOK, DiaryProofs!Slots,
         DiaryProofs!Actors
<1>7. SupportProofs!TypeOK => Support!TypeOK
  BY DEF Support!TypeOK, Support!Statuses, Support!Rows, Support!Processes, Support!Update,
         SupportProofs!TypeOK, SupportProofs!Statuses, SupportProofs!Rows,
         SupportProofs!Processes, SupportProofs!Update
<1>8. /\ TypeOK
      /\ part # "content" \/ Content!TypeOK
      /\ part # "diary" \/ Diary!TypeOK
      /\ part # "support" \/ Support!TypeOK
      => Typed
  BY DEF Typed
<1>9. QED
  BY RunsProposal, RunsContent, RunsDiary, RunsSupport,
     <1>1, <1>2, <1>3, <1>4, <1>5, <1>6, <1>7, <1>8, PTL

\* Beyond the first post of an item there is, for each, an answer the platform lost or an
\* overwrite by a request, however many sweeps overlap.
THEOREM PostsHaveCauses == MCSpec => []PostsExplained
<1>1. ContentProofs!Spec => []ContentProofs!PostsExplained
  BY InstancesOK, SameContent, ContentProofs!NotPostedTwice
<1>2. part # "content" \/ ContentProofs!PostsExplained => PostsExplained
  BY DEF PostsExplained, Content!PostsExplained, ContentProofs!PostsExplained
<1>3. QED
  BY RunsContent, <1>1, <1>2, PTL

\* Whatever content goes out, goes out by the owner's approval of the card it carries.
THEOREM ApprovedOnly == MCSpec => []OutByApproval
<1>1. ContentProofs!Spec => []ContentProofs!OutByApproval
  BY InstancesOK, SameContent, ContentProofs!OwnerDecides
<1>2. part # "content" \/ ContentProofs!OutByApproval => OutByApproval
  BY DEF OutByApproval, Content!OutByApproval, ContentProofs!OutByApproval
<1>3. QED
  BY RunsContent, <1>1, <1>2, PTL

\* Two guests never hold one slot of the diary.
THEOREM OneGuestPerSlot == MCSpec => []OneCallPerSlot
<1>1. DiaryProofs!Spec => []DiaryProofs!OneCallPerSlot
  BY InstancesOK, SameDiary, DiaryProofs!NoDoubleBooking
<1>2. part # "diary" \/ DiaryProofs!OneCallPerSlot => OneCallPerSlot
  BY DEF OneCallPerSlot, Diary!OneCallPerSlot, DiaryProofs!OneCallPerSlot
<1>3. QED
  BY RunsDiary, <1>1, <1>2, PTL

\* Between requests, row and provider hold a call at the same time, unless a process died or
\* two requests were at work on it at once, and but where its last move lost its time.
THEOREM RowFollowsProvider == MCSpec => []ProviderAgrees
<1>1. DiaryProofs!Spec => []DiaryProofs!ProviderAgrees
  BY InstancesOK, SameDiary, DiaryProofs!RowAndProviderAgree
<1>2. part # "diary" \/ DiaryProofs!ProviderAgrees => ProviderAgrees
  BY DEF ProviderAgrees, Diary!ProviderAgrees, Diary!AtWork, DiaryProofs!ProviderAgrees,
         DiaryProofs!AtWork
<1>3. QED
  BY RunsDiary, <1>1, <1>2, PTL

\* No client who writes is left on a closed case, unless that very message met a close.
THEOREM EveryClientHeard == MCSpec => []ClientHeard
<1>1. SupportProofs!Spec => []SupportProofs!ClientHeard
  BY InstancesOK, SameSupport, SupportProofs!NeverLeftUnheard
<1>2. part # "support" \/ SupportProofs!ClientHeard => ClientHeard
  BY DEF ClientHeard, Support!ClientHeard, SupportProofs!ClientHeard
<1>3. QED
  BY RunsSupport, <1>1, <1>2, PTL

\* The transactions on one conversation never wait for each other in a circle.
THEOREM NoCircle == MCSpec => []NoLockCycle
<1>1. SupportProofs!Spec => []SupportProofs!NoLockCycle
  BY InstancesOK, SameSupport, SupportProofs!NoDeadlock
<1>2. part # "support" \/ SupportProofs!NoLockCycle => NoLockCycle
  BY DEF NoLockCycle, Support!NoLockCycle, Support!Processes, Support!WaitsFor,
         Support!Wanted, Support!LockOrder, SupportProofs!NoLockCycle,
         SupportProofs!Processes, SupportProofs!WaitsFor, SupportProofs!Wanted,
         SupportProofs!LockOrder
<1>3. QED
  BY RunsSupport, <1>1, <1>2, PTL

\* No late decision and no sweep brings a cancelled content item back.
THEOREM CancelledForGood == MCSpec => CancelledStays
<1>1. ContentProofs!Spec => ContentProofs!CancelledStays
  BY InstancesOK, SameContent, ContentProofs!OnlyARevisionRevives
<1>2. [ContentProofs!RevivedByRevision]_(ContentProofs!vars) =>
        [part = "content" => Content!RevivedByRevision]_allVars
  BY DEF ContentProofs!RevivedByRevision, Content!RevivedByRevision, ContentProofs!vars,
         ContentProofs!item
<1>3. part # "content" => [part = "content" => Content!RevivedByRevision]_allVars
  OBVIOUS
<1>4. QED
  BY RunsContent, <1>1, <1>2, <1>3, PTL DEF CancelledStays, ContentProofs!CancelledStays
=============================================================================
