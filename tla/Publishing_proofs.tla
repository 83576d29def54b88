------------------------- MODULE Publishing_proofs -------------------------
(***************************************************************************)
(* Proofs about one content item, for any number of editors, publishing    *)
(* sweeps, cards and attempts.                                             *)
(***************************************************************************)
EXTENDS Publishing, FiniteSetTheorems, TLAPS

\* A request acts on a status its guard lets pass, and a sweep never edits.
Places ==
  /\ \A e \in Editors :
       /\ at[e] \in {"idle", "revising", "cancelling"}
       /\ at[e] = "revising" => held[e].status \in Revisable
       /\ at[e] = "cancelling" => held[e].status \in Cancellable
  /\ \A w \in Sweeps : at[w] \notin {"revising", "cancelling"}

\* What may still be posted has an attempt left.
AttemptLeft == status \in {"approved", "publishing"} => attempts < MaxAttempts

IInv == TypeOK /\ Places /\ AttemptLeft /\ OutByApproval

LEMMA PublishingInit == ConstantsOK /\ Init => IInv
BY DEF ConstantsOK, Init, IInv, TypeOK, Places, AttemptLeft, OutByApproval, Statuses, Nothing

LEMMA PublishingStep == ConstantsOK /\ IInv /\ [Next]_vars => IInv'
<1> SUFFICES ASSUME ConstantsOK, IInv, [Next]_vars PROVE IInv'
  OBVIOUS
<1> USE DEF ConstantsOK, IInv, TypeOK, Places, AttemptLeft, OutByApproval, Statuses, Nothing,
        Revisable, Cancellable, item, asking, outside
<1>1. ASSUME NEW c \in Cards, RequestContentApproval(c) PROVE IInv'
  BY <1>1 DEF RequestContentApproval
<1>2. ASSUME NEW c \in Cards, Decide(c) PROVE IInv'
  BY <1>2 DEF Decide
<1>3. ASSUME NEW c \in Cards, ApplyDecision(c) PROVE IInv'
  BY <1>3 DEF ApplyDecision, Awaits
<1>4. ASSUME NEW e \in Editors, ReadItem(e) PROVE IInv'
  BY <1>4 DEF ReadItem
<1>5. ASSUME NEW e \in Editors, Revise(e) PROVE IInv'
  BY <1>5 DEF Revise, Release, Overwrites
<1>6. ASSUME NEW e \in Editors, Cancel(e) PROVE IInv'
  BY <1>6 DEF Cancel, Release, Overwrites
<1>7. ASSUME NEW w \in Sweeps, ClaimDueContent(w) PROVE IInv'
  BY <1>7 DEF ClaimDueContent, Due
<1>8. ASSUME NEW w \in Sweeps, Post(w) PROVE IInv'
  BY <1>8 DEF Post
<1>9. ASSUME NEW w \in Sweeps, MarkContentPublished(w) PROVE IInv'
  BY <1>9 DEF MarkContentPublished
<1>10. ASSUME NEW w \in Sweeps, MarkContentFailed(w) PROVE IInv'
  BY <1>10 DEF MarkContentFailed, Exhausted
<1>11. ASSUME NEW p \in Editors \cup Sweeps, Dies(p) PROVE IInv'
  BY <1>11 DEF Dies
<1>12. ASSUME UNCHANGED vars PROVE IInv'
  BY <1>12 DEF vars
<1>13. QED
  <2> HIDE DEF IInv, ConstantsOK
  <2>1. QED
    BY <1>1, <1>2, <1>3, <1>4, <1>5, <1>6, <1>7, <1>8, <1>9, <1>10, <1>11, <1>12 DEF Next

LEMMA Invariant == ConstantsOK => (Spec => []IInv)
<1> SUFFICES ASSUME ConstantsOK PROVE Spec => []IInv
  OBVIOUS
<1>1. Init => IInv
  BY PublishingInit
<1>2. IInv /\ [Next]_vars => IInv'
  BY PublishingStep
<1>3. QED
  BY <1>1, <1>2, PTL DEF Spec

-----------------------------------------------------------------------------
(* Counting posts *)

\* The sweeps that may still post, or whose post was not confirmed.
Out == {w \in Sweeps : at[w] \in {"posting", "timeout", "retryable", "permanent"}}

\* A post that was confirmed, or a sweep on its way to one, stands for the item's being out,
\* for an overwrite of it while it was out, or for a lost answer.
Afforded ==
  /\ IsFiniteSet(Out)
  /\ posts + Cardinality(Out) <=
       unanswered + overwritten + (IF status \in {"publishing", "published"} THEN 1 ELSE 0)

LEMMA AffordedInit == Init => Afforded
<1> SUFFICES ASSUME Init PROVE Afforded
  OBVIOUS
<1>1. Out = {}
  BY DEF Init, Out
<1>2. QED
  BY <1>1, FS_EmptySet DEF Init, Afforded

LEMMA AffordedStep == ConstantsOK /\ IInv /\ Afforded /\ [Next]_vars => Afforded'
<1> SUFFICES ASSUME ConstantsOK, IInv, Afforded, [Next]_vars PROVE Afforded'
  OBVIOUS
<1> USE DEF ConstantsOK, item, asking, outside
<1>1. Cardinality(Out) \in Nat /\ {posts, unanswered, overwritten} \subseteq Nat
  BY FS_CardinalityType DEF Afforded, IInv, TypeOK
<1>2. ASSUME Out' = Out, UNCHANGED outside,
             status' = status \/ (status \notin {"publishing", "published"})
      PROVE  Afforded'
  BY <1>1, <1>2 DEF Afforded
<1>3. ASSUME NEW c \in Cards, RequestContentApproval(c) \/ Decide(c) \/ ApplyDecision(c)
      PROVE  Afforded'
  BY <1>2, <1>3 DEF RequestContentApproval, Decide, ApplyDecision, Awaits, Out
<1>4. ASSUME NEW e \in Editors, ReadItem(e) PROVE Afforded'
  BY <1>2, <1>4 DEF ReadItem, Out, IInv, TypeOK
<1>5. ASSUME NEW e \in Editors, Revise(e) \/ Cancel(e) PROVE Afforded'
  <2>1. Out' = Out /\ UNCHANGED <<posts, unanswered>>
    BY <1>5 DEF Revise, Cancel, Release, Out, IInv, TypeOK
  <2>2. status' \notin {"publishing", "published"}
    BY <1>5 DEF Revise, Cancel
  <2>3. held[e].status \notin {"publishing", "published"}
    BY <1>5 DEF Revise, Cancel, IInv, Places, Revisable, Cancellable
  <2>4. IF status = held[e].status THEN overwritten' = overwritten
                                   ELSE overwritten' = overwritten + 1
    BY <1>5 DEF Revise, Cancel, Overwrites
  <2>5. QED
    BY <1>1, <2>1, <2>2, <2>3, <2>4 DEF Afforded
<1>6. ASSUME NEW w \in Sweeps, ClaimDueContent(w) PROVE Afforded'
  <2>1. w \notin Out /\ Out' = Out \cup {w}
    BY <1>6 DEF ClaimDueContent, Out, IInv, TypeOK
  <2>2. IsFiniteSet(Out') /\ Cardinality(Out') = Cardinality(Out) + 1
    BY <2>1, FS_AddElement DEF Afforded
  <2>3. QED
    BY <1>1, <1>6, <2>2 DEF ClaimDueContent, Due, Afforded
<1>7. ASSUME NEW w \in Sweeps, w \in Out, w \notin Out', Out' = Out \ {w}
      PROVE  IsFiniteSet(Out') /\ Cardinality(Out') = Cardinality(Out) - 1
  BY <1>7, FS_RemoveElement DEF Afforded
<1>8. ASSUME NEW w \in Sweeps, Post(w) PROVE Afforded'
  <2>1. w \in Out
    BY <1>8 DEF Post, Out
  <2>2. CASE at'[w] = "posted"
    <3>1. w \notin Out' /\ Out' = Out \ {w}
      BY <1>8, <2>2 DEF Post, Out, IInv, TypeOK
    <3>2. posts' = posts + 1 /\ UNCHANGED <<unanswered, overwritten, status>>
      BY <1>8, <2>2 DEF Post, IInv, TypeOK
    <3>3. IsFiniteSet(Out') /\ Cardinality(Out') = Cardinality(Out) - 1
      BY <1>7, <2>1, <3>1
    <3>4. QED
      BY <1>1, <3>2, <3>3 DEF Afforded
  <2>3. CASE at'[w] # "posted"
    <3>1. Out' = Out /\ UNCHANGED <<overwritten, status>>
      BY <1>8, <2>3 DEF Post, Out, IInv, TypeOK
    <3>2. \/ UNCHANGED <<posts, unanswered>>
          \/ posts' = posts + 1 /\ unanswered' = unanswered + 1
      BY <1>8, <2>3 DEF Post, IInv, TypeOK
    <3>3. QED
      BY <1>1, <3>1, <3>2 DEF Afforded
  <2>4. QED
    BY <2>2, <2>3
<1>9. ASSUME NEW w \in Sweeps, MarkContentPublished(w) PROVE Afforded'
  <2>1. Out' = Out /\ UNCHANGED outside
    BY <1>9 DEF MarkContentPublished, Out, IInv, TypeOK
  <2>2. status \in {"publishing", "published"} <=> status' \in {"publishing", "published"}
    BY <1>9 DEF MarkContentPublished
  <2>3. QED
    BY <1>1, <2>1, <2>2 DEF Afforded
<1>10. ASSUME NEW w \in Sweeps, MarkContentFailed(w) PROVE Afforded'
  <2>1. w \in Out /\ w \notin Out' /\ Out' = Out \ {w} /\ UNCHANGED outside
    BY <1>10 DEF MarkContentFailed, Out, IInv, TypeOK
  <2>2. status' = status \/ status = "publishing"
    BY <1>10 DEF MarkContentFailed
  <2>3. IsFiniteSet(Out') /\ Cardinality(Out') = Cardinality(Out) - 1
    BY <1>7, <2>1
  <2>4. QED
    BY <1>1, <2>1, <2>2, <2>3 DEF Afforded
<1>11. ASSUME NEW p \in Editors \cup Sweeps, Dies(p) PROVE Afforded'
  <2>1. UNCHANGED <<outside, status>>
    BY <1>11 DEF Dies
  <2>2. Out' \in SUBSET Out
    BY <1>11 DEF Dies, Out, IInv, TypeOK
  <2>3. IsFiniteSet(Out') /\ Cardinality(Out') <= Cardinality(Out)
    BY <2>2, FS_Subset DEF Afforded
  <2>4. Cardinality(Out') \in Nat
    BY <2>3, FS_CardinalityType
  <2>5. QED
    BY <1>1, <2>1, <2>3, <2>4 DEF Afforded
<1>12. ASSUME UNCHANGED vars PROVE Afforded'
  BY <1>2, <1>12 DEF vars, Out
<1>13. QED
  BY <1>3, <1>4, <1>5, <1>6, <1>8, <1>9, <1>10, <1>11, <1>12 DEF Next

-----------------------------------------------------------------------------
\* Every variable of a content item keeps its type, and no item is tried more than
\* MaxAttempts times for one approval.
THEOREM PublishingTyped == ConstantsOK => (Spec => []TypeOK)
<1> SUFFICES ASSUME ConstantsOK PROVE Spec => []TypeOK
  OBVIOUS
<1>1. IInv => TypeOK
  BY DEF IInv
<1>2. QED
  BY Invariant, <1>1, PTL

\* Whatever goes out, goes out by the owner's approval of the card the item carries.
THEOREM OwnerDecides == ConstantsOK => (Spec => []OutByApproval)
<1> SUFFICES ASSUME ConstantsOK PROVE Spec => []OutByApproval
  OBVIOUS
<1>1. IInv => OutByApproval
  BY DEF IInv
<1>2. QED
  BY Invariant, <1>1, PTL

\* However many sweeps overlap, die and come back, each further post of an item has a cause
\* of its own outside them: an answer lost at the platform, or an overwrite by a request.
THEOREM NotPostedTwice == ConstantsOK => (Spec => []PostsExplained)
<1> SUFFICES ASSUME ConstantsOK PROVE Spec => []PostsExplained
  OBVIOUS
<1>1. Init => Afforded
  BY AffordedInit
<1>2. IInv /\ Afforded /\ [Next]_vars => Afforded'
  BY AffordedStep
<1>3. IInv /\ Afforded => PostsExplained
  BY FS_CardinalityType DEF Afforded, PostsExplained, IInv, TypeOK
<1>4. QED
  BY Invariant, <1>1, <1>2, <1>3, PTL DEF Spec

\* No late decision and no sweep brings a cancelled item back.
THEOREM OnlyARevisionRevives == ConstantsOK => (Spec => CancelledStays)
<1> SUFFICES ASSUME ConstantsOK PROVE Spec => CancelledStays
  OBVIOUS
<1>1. IInv /\ [Next]_vars => [RevivedByRevision]_vars
  <2> SUFFICES ASSUME IInv, Next, status = "cancelled", status' # "cancelled"
               PROVE  \E e \in Editors : at[e] = "revising" /\ at'[e] = "idle"
    BY DEF RevivedByRevision
  <2>1. PICK e \in Editors : Revise(e)
    BY DEF Next, RequestContentApproval, Decide, ApplyDecision, Awaits, ReadItem, Cancel,
           ClaimDueContent, Due, Post, MarkContentPublished, MarkContentFailed, Dies, item
  <2>2. QED
    BY <2>1 DEF Revise, Release, IInv, TypeOK
<1>2. QED
  BY Invariant, <1>1, PTL DEF Spec, CancelledStays
=============================================================================
