----------------------- MODULE OutboundMessages_proofs -----------------------
(***************************************************************************)
(* Proofs about outbound messages, for any number of messages, deliveries, *)
(* attempts and faults.                                                    *)
(***************************************************************************)
EXTENDS OutboundMessages, FiniteSetTheorems, TLAPS

\* The state is typed, and a message that can still be claimed has attempts left.
Shape ==
  /\ TypeOK
  /\ \A s \in Senders :
       /\ on[s] = None <=> pc[s] = "idle"
       /\ snap[s].attempts < MaxAttempts
  /\ \A m \in Messages :
       /\ status[m] \in {"none", "queued"} => attempts[m] < MaxAttempts
       /\ status[m] = "none" =>
            accepted[m] = 0 /\ m \notin jobs \cup raised /\ \A s \in Senders : on[s] # m

\* The deliveries that may yet send the message or put it back in the queue.
Pitching(m) == {s \in Senders : on[s] = m /\ pc[s] \in {"claimed", "caught"}}

\* 1 if another delivery may claim the message, now or once a lease nobody holds lapses.
Open(m) ==
  IF status[m] = "queued" /\ (lease[m] # "live" \/ \A s \in Senders : ~Holding(s, m))
  THEN 1 ELSE 0

\* Sends made and sends that may still be made, against the causes for a second one.
Budget(m) == accepted[m] + Cardinality(Pitching(m)) + Open(m) <= 1 + slips[m]

\* Until something slips, the one delivery that holds a message holds its live lease.
Exclusive ==
  \A m \in Messages : slips[m] = 0 =>
    /\ \A s, t \in Senders : Holding(s, m) /\ Holding(t, m) => s = t
    /\ \A s \in Senders : Holding(s, m) => status[m] = "queued" /\ lease[m] = "live"

LEMMA ShapeStep == Shape /\ [Next]_vars => Shape'
<1> SUFFICES ASSUME Shape, [Next]_vars PROVE Shape'
  OBVIOUS
<1> USE ConstantsOK DEF Shape, TypeOK, Markers, PCs, NoSnap, Holding, row, local, history,
        Goto, Leave, Rethrow, Fault, Slip, Patch
<1>1. ASSUME NEW m \in Messages, Queue(m) PROVE Shape'
  BY <1>1 DEF Queue
<1>2. ASSUME NEW m \in Messages, Enqueue(m) PROVE Shape'
  BY <1>2 DEF Enqueue
<1>3. ASSUME NEW s \in Senders, NEW m \in Messages, Deliver(s, m) PROVE Shape'
  <2>1. CASE Claimable(m)
    <3> DEFINE new == [attempts |-> attempts[m], marks |-> marks[m]]
    <3>1. /\ new \in [attempts : 0..MaxAttempts, marks : SUBSET Markers]
          /\ new.attempts < MaxAttempts
      BY <2>1 DEF Claimable
    <3>2. /\ jobs' = jobs \ {m}
          /\ lease' = [lease EXCEPT ![m] = "live"]
          /\ on' = [on EXCEPT ![s] = m]
          /\ snap' = [snap EXCEPT ![s] = new]
          /\ pc' = [pc EXCEPT ![s] = "claimed"]
          /\ status[m] = "queued"
          /\ UNCHANGED <<status, attempts, marks, age, raised, found, history, faults>>
      BY <1>3, <2>1 DEF Deliver, Claimable
    <3> HIDE DEF new
    <3>3. QED
      BY <3>1, <3>2
  <2>2. CASE ~Claimable(m)
    BY <1>3, <2>2 DEF Deliver
  <2>3. QED
    BY <2>1, <2>2
<1>4. ASSUME NEW s \in Senders, BrokenThread(s) PROVE Shape'
  BY <1>4 DEF BrokenThread
<1>5. ASSUME NEW s \in Senders, Accept(s) PROVE Shape'
  BY <1>5 DEF Accept
<1>6. ASSUME NEW s \in Senders, Refuse(s) PROVE Shape'
  BY <1>6 DEF Refuse
<1>7. ASSUME NEW s \in Senders, SkipSend(s) PROVE Shape'
  BY <1>7 DEF SkipSend
<1>8. ASSUME NEW s \in Senders, RecordSent(s) PROVE Shape'
  BY <1>8 DEF RecordSent
<1>9. ASSUME NEW s \in Senders, AuditSent(s) PROVE Shape'
  BY <1>9 DEF AuditSent
<1>10. ASSUME NEW s \in Senders, RecordThrows(s) PROVE Shape'
  BY <1>10 DEF RecordThrows
<1>11. ASSUME NEW s \in Senders, RecordFailure(s) PROVE Shape'
  BY <1>11 DEF RecordFailure, Exhausted
<1>12. ASSUME NEW s \in Senders, RetryLater(s) PROVE Shape'
  BY <1>12 DEF RetryLater
<1>13. ASSUME NEW s \in Senders, Announce(s) PROVE Shape'
  BY <1>13 DEF Announce
<1>14. ASSUME NEW s \in Senders, Dies(s) PROVE Shape'
  BY <1>14 DEF Dies
<1>15. ASSUME NEW m \in Messages, Lapse(m) PROVE Shape'
  BY <1>15 DEF Lapse
<1>16. ASSUME NEW m \in Messages,
              BecomesDue(m) \/ BecomesLate(m) \/ Redrive(m) \/ TellGivenUp(m)
       PROVE Shape'
  BY <1>16 DEF BecomesDue, BecomesLate, Redrive, Undelivered, TellGivenUp
<1>17. ASSUME FindGivenUp PROVE Shape'
  BY <1>17 DEF FindGivenUp
<1>18. CASE UNCHANGED vars
  BY <1>18 DEF vars
<1>19. QED
  BY <1>1, <1>2, <1>3, <1>4, <1>5, <1>6, <1>7, <1>8, <1>9, <1>10, <1>11, <1>12,
     <1>13, <1>14, <1>15, <1>16, <1>17, <1>18 DEF Next, Handle

LEMMA ShapeInit == Init => Shape
BY ConstantsOK DEF Init, Shape, TypeOK, Markers, PCs, NoSnap

\* Every variable keeps its type; no attempt is made beyond the limit.
THEOREM TypeCorrect == Spec => []TypeOK
<1>1. Shape => TypeOK
  BY DEF Shape
<1>2. QED
  BY ShapeInit, ShapeStep, <1>1, PTL DEF Spec

LEMMA PitchingFinite ==
  ASSUME NEW m \in Messages
  PROVE  IsFiniteSet(Pitching(m)) /\ Cardinality(Pitching(m)) \in Nat
<1>1. IsFiniteSet(Pitching(m))
  BY ConstantsOK, FS_Subset DEF Pitching
<1>2. QED
  BY <1>1, FS_CardinalityType

LEMMA OpenBound == ASSUME NEW m \in Messages PROVE Open(m) \in {0, 1}
BY DEF Open

\* A delivery that leaves a message alone leaves its budget alone.
LEMMA BudgetElsewhere ==
  ASSUME NEW m \in Messages, Budget(m),
         UNCHANGED <<accepted[m], slips[m], status[m], lease[m]>>,
         \A s \in Senders : (on[s] = m \/ on'[s] = m) => UNCHANGED <<on[s], pc[s]>>
  PROVE  Budget(m)'
<1>1. Pitching(m)' = Pitching(m)
  BY DEF Pitching
<1>2. \A s \in Senders : Holding(s, m)' <=> Holding(s, m)
  BY DEF Holding
<1>3. Open(m)' = Open(m)
  BY <1>2 DEF Open
<1>4. QED
  BY <1>1, <1>3 DEF Budget

\* A delivery gives up its pitch, having sent the message or lost its claim.
LEMMA PitchSpent ==
  ASSUME NEW m \in Messages, NEW s \in Pitching(m), Pitching(m)' = Pitching(m) \ {s}
  PROVE  Cardinality(Pitching(m)') = Cardinality(Pitching(m)) - 1
BY PitchingFinite, FS_RemoveElement

LEMMA PitchGained ==
  ASSUME NEW m \in Messages, NEW s \in Senders \ Pitching(m),
         Pitching(m)' = Pitching(m) \cup {s}
  PROVE  Cardinality(Pitching(m)') = Cardinality(Pitching(m)) + 1
BY PitchingFinite, FS_AddElement

LEMMA BudgetStep ==
  ASSUME Shape, [Next]_vars, NEW m \in Messages, Budget(m)
  PROVE  Budget(m)'
<1> USE ConstantsOK DEF Shape, TypeOK, row, local, history
<1>a. /\ accepted[m] \in Nat /\ slips[m] \in Nat
      /\ Cardinality(Pitching(m)) \in Nat /\ Open(m) \in {0, 1}
      /\ accepted[m] + Cardinality(Pitching(m)) + Open(m) <= 1 + slips[m]
  BY PitchingFinite, OpenBound DEF Budget
<1>b. Open(m)' \in {0, 1}
  BY DEF Open
<1>1. CASE Queue(m)
  <2>1. Pitching(m)' = Pitching(m) /\ Pitching(m) = {}
    BY <1>1 DEF Queue, Pitching
  <2>2. Cardinality(Pitching(m)') = 0
    BY <2>1, FS_EmptySet
  <2>3. accepted'[m] = 0 /\ slips'[m] \in Nat
    BY <1>1 DEF Queue
  <2>4. QED
    BY <2>2, <2>3, <1>b DEF Budget
<1>2. ASSUME NEW s \in Senders, Deliver(s, m) PROVE Budget(m)'
  <2>1. CASE Claimable(m)
    <3>1. /\ pc[s] = "idle" /\ pc' = [pc EXCEPT ![s] = "claimed"]
          /\ on' = [on EXCEPT ![s] = m] /\ lease' = [lease EXCEPT ![m] = "live"]
          /\ UNCHANGED <<accepted, slips>>
      BY <1>2, <2>1 DEF Deliver, Goto
    <3>2. Open(m) = 1
      BY <2>1 DEF Open, Claimable
    <3>3. Open(m)' = 0
      BY <3>1 DEF Open, Holding
    <3>4. s \in Senders \ Pitching(m) /\ Pitching(m)' = Pitching(m) \cup {s}
      BY <3>1 DEF Pitching
    <3>5. Cardinality(Pitching(m)') = Cardinality(Pitching(m)) + 1
      BY <3>4, PitchGained
    <3>6. QED
      BY <3>1, <3>2, <3>3, <3>5, <1>a DEF Budget
  <2>2. CASE ~Claimable(m)
    BY <1>2, <2>2, BudgetElsewhere DEF Deliver
  <2>3. QED
    BY <2>1, <2>2
<1>3. ASSUME NEW s \in Senders, on[s] = m, Accept(s) PROVE Budget(m)'
  <2>1. /\ pc[s] = "claimed" /\ pc' = [pc EXCEPT ![s] = "accepted"]
        /\ accepted' = [accepted EXCEPT ![m] = @ + 1]
        /\ UNCHANGED <<on, status, lease, slips>>
    BY <1>3 DEF Accept, Goto
  <2>2. s \in Pitching(m) /\ Pitching(m)' = Pitching(m) \ {s}
    BY <1>3, <2>1 DEF Pitching
  <2>3. Cardinality(Pitching(m)') = Cardinality(Pitching(m)) - 1
    BY <2>2, PitchSpent
  <2>4. Open(m)' = Open(m)
    <3>1. \A t \in Senders : Holding(t, m)' <=> Holding(t, m)
      BY <1>3, <2>1 DEF Holding
    <3>2. QED
      BY <2>1, <3>1 DEF Open
  <2>5. QED
    BY <2>1, <2>3, <2>4, <1>a DEF Budget
<1>4. ASSUME NEW s \in Senders, on[s] = m, Refuse(s) PROVE Budget(m)'
  <2>1. /\ pc[s] = "claimed" /\ pc' = [pc EXCEPT ![s] = "caught"]
        /\ UNCHANGED <<on, status, lease, accepted, slips>>
    BY <1>4 DEF Refuse, Goto
  <2>2. Pitching(m)' = Pitching(m)
    BY <1>4, <2>1 DEF Pitching
  <2>3. \A t \in Senders : Holding(t, m)' <=> Holding(t, m)
    BY <1>4, <2>1 DEF Holding
  <2>4. Open(m)' = Open(m)
    BY <2>1, <2>3 DEF Open
  <2>5. QED
    BY <2>1, <2>2, <2>4, <1>a DEF Budget
<1>5. ASSUME NEW s \in Senders, on[s] = m, SkipSend(s) \/ RecordFailure(s) \/ BrokenThread(s)
             \/ (Dies(s) /\ pc[s] \in {"claimed", "caught"})
      PROVE  Budget(m)'
  <2>1. /\ pc[s] \in {"claimed", "caught"}
        /\ \E l \in {"idle", "noted", "recorded"} : pc' = [pc EXCEPT ![s] = l]
        /\ \E n \in {m, None} : on' = [on EXCEPT ![s] = n]
        /\ UNCHANGED <<accepted, slips>>
    BY <1>5 DEF SkipSend, RecordFailure, BrokenThread, Dies, Goto, Leave, Rethrow
  <2>2. s \in Pitching(m) /\ Pitching(m)' = Pitching(m) \ {s}
    BY <1>5, <2>1 DEF Pitching
  <2>3. Cardinality(Pitching(m)') = Cardinality(Pitching(m)) - 1
    BY <2>2, PitchSpent
  <2>4. QED
    BY <2>1, <2>3, <1>a, <1>b DEF Budget
<1>6. ASSUME NEW s \in Senders, on[s] = m,
             RecordThrows(s) \/ (Dies(s) /\ pc[s] = "accepted")
      PROVE  Budget(m)'
  <2>1. accepted' = accepted /\ slips'[m] = slips[m] + 1
    BY <1>6 DEF RecordThrows, Dies, Slip
  <2>2. CASE RecordThrows(s)
    <3>1. /\ pc[s] \in {"accepted", "recorded"} /\ pc' = [pc EXCEPT ![s] = "caught"]
          /\ UNCHANGED <<on, status, lease>>
      BY <2>2 DEF RecordThrows, Goto
    <3>2. s \in Senders \ Pitching(m) /\ Pitching(m)' = Pitching(m) \cup {s}
      BY <1>6, <3>1 DEF Pitching
    <3>3. Cardinality(Pitching(m)') = Cardinality(Pitching(m)) + 1
      BY <3>2, PitchGained
    <3>4. \A t \in Senders : Holding(t, m) => Holding(t, m)'
      BY <1>6, <3>1 DEF Holding
    <3>5. Open(m)' <= Open(m)
      BY <3>1, <3>4 DEF Open
    <3>6. QED
      BY <2>1, <3>3, <3>5, <1>a, <1>b DEF Budget
  <2>3. CASE Dies(s) /\ pc[s] = "accepted"
    <3>1. pc' = [pc EXCEPT ![s] = "idle"] /\ on' = [on EXCEPT ![s] = None]
      BY <2>3 DEF Dies, Rethrow, Leave, Goto
    <3>2. Pitching(m)' = Pitching(m)
      BY <1>6, <2>3, <3>1 DEF Pitching
    <3>3. QED
      BY <2>1, <3>2, <1>a, <1>b DEF Budget
  <2>4. QED
    BY <1>6, <2>2, <2>3
<1>7. ASSUME NEW s \in Senders, on[s] = m, RecordSent(s) PROVE Budget(m)'
  <2>1. /\ pc[s] = "accepted" /\ pc' = [pc EXCEPT ![s] = "recorded"]
        /\ status'[m] = "sent"
        /\ UNCHANGED <<on, accepted, slips>>
    BY <1>7 DEF RecordSent, Goto, Patch
  <2>2. Pitching(m)' = Pitching(m)
    BY <1>7, <2>1 DEF Pitching
  <2>3. Open(m)' = 0
    BY <2>1 DEF Open
  <2>4. QED
    BY <2>1, <2>2, <2>3, <1>a DEF Budget
<1>8. ASSUME NEW s \in Senders, on[s] = m,
             \/ AuditSent(s) \/ RetryLater(s) \/ Announce(s)
             \/ (Dies(s) /\ pc[s] \in {"recorded", "noted"})
      PROVE  Budget(m)'
  <2>1. /\ pc[s] \in {"recorded", "noted"}
        /\ pc' = [pc EXCEPT ![s] = "idle"] /\ on' = [on EXCEPT ![s] = None]
        /\ UNCHANGED <<accepted, slips, status, lease>>
    BY <1>8 DEF AuditSent, RetryLater, Announce, Dies, Goto, Leave, Rethrow
  <2>2. Pitching(m)' = Pitching(m)
    BY <1>8, <2>1 DEF Pitching
  <2>3. \A t \in Senders : Holding(t, m)' <=> Holding(t, m)
    BY <1>8, <2>1 DEF Holding
  <2>4. Open(m)' = Open(m)
    BY <2>1, <2>3 DEF Open
  <2>5. QED
    BY <2>1, <2>2, <2>4, <1>a DEF Budget
<1>9. CASE Lapse(m)
  <2>1. /\ lease[m] = "live" /\ lease'[m] = "expired"
        /\ UNCHANGED <<status, local, accepted>>
    BY <1>9 DEF Lapse
  <2>2. Pitching(m)' = Pitching(m)
    BY <2>1 DEF Pitching
  <2>3. CASE \E s \in Senders : Holding(s, m)
    <3>1. slips'[m] = slips[m] + 1
      BY <1>9, <2>3 DEF Lapse, Slip
    <3>2. QED
      BY <2>1, <2>2, <3>1, <1>a, <1>b DEF Budget
  <2>4. CASE \A s \in Senders : ~Holding(s, m)
    <3>1. slips' = slips
      BY <1>9, <2>4 DEF Lapse
    <3>2. Open(m)' = Open(m)
      BY <2>1, <2>4 DEF Open, Holding
    <3>3. QED
      BY <2>1, <2>2, <3>1, <3>2, <1>a DEF Budget
  <2>5. QED
    BY <2>3, <2>4
<1>10. ASSUME NEW n \in Messages,
              \/ Enqueue(n) \/ BecomesDue(n) \/ BecomesLate(n) \/ Redrive(n) \/ TellGivenUp(n)
              \/ n # m /\ (Queue(n) \/ Lapse(n))
       PROVE  Budget(m)'
  <2>1. UNCHANGED <<accepted[m], slips[m], status[m], lease[m], on, pc>>
    BY <1>10 DEF Enqueue, BecomesDue, BecomesLate, Redrive, TellGivenUp, Queue, Lapse, Slip
  <2>2. QED
    BY <2>1, BudgetElsewhere
<1>11. ASSUME NEW s \in Senders, NEW n \in Messages, n # m, Deliver(s, n) PROVE Budget(m)'
  <2>1. /\ UNCHANGED <<accepted[m], slips[m], status[m], lease[m]>>
        /\ \A t \in Senders : t = s \/ UNCHANGED <<on[t], pc[t]>>
        /\ on[s] = None
        /\ on'[s] = n \/ UNCHANGED <<on[s], pc[s]>>
    BY <1>11 DEF Deliver, Goto
  <2>2. QED
    BY <1>11, <2>1, BudgetElsewhere
<1>12. ASSUME NEW s \in Senders, on[s] # m,
              Handle(s) \/ BrokenThread(s) \/ SkipSend(s) \/ RecordThrows(s) \/ Dies(s)
       PROVE  Budget(m)'
  <2>1. /\ UNCHANGED <<accepted[m], slips[m], status[m], lease[m]>>
        /\ \A t \in Senders : t = s \/ UNCHANGED <<on[t], pc[t]>>
        /\ on'[s] \in {on[s], None}
    <3>1. CASE Accept(s) \/ Refuse(s) \/ RecordThrows(s)
      BY <1>12, <3>1 DEF Accept, Refuse, RecordThrows, Goto, Slip
    <3>2. CASE RecordSent(s) \/ RecordFailure(s) \/ SkipSend(s)
      BY <1>12, <3>2 DEF RecordSent, RecordFailure, SkipSend, Goto, Leave, Patch
    <3>3. CASE AuditSent(s) \/ RetryLater(s) \/ Announce(s) \/ BrokenThread(s) \/ Dies(s)
      BY <1>12, <3>3 DEF AuditSent, RetryLater, Announce, BrokenThread, Dies,
                         Goto, Leave, Rethrow, Slip
    <3>4. QED
      BY <1>12, <3>1, <3>2, <3>3 DEF Handle
  <2>2. QED
    BY <1>12, <2>1, BudgetElsewhere
<1>13. CASE FindGivenUp \/ UNCHANGED vars
  <2>1. UNCHANGED <<accepted, slips, status, lease, on, pc>>
    BY <1>13 DEF FindGivenUp, vars
  <2>2. QED
    BY <2>1, BudgetElsewhere
<1>14. ASSUME NEW s \in Senders, on[s] = m,
              Handle(s) \/ BrokenThread(s) \/ SkipSend(s) \/ RecordThrows(s) \/ Dies(s)
       PROVE  Budget(m)'
  <2>1. Dies(s) => pc[s] \in {"claimed", "caught", "accepted", "recorded", "noted"}
    BY DEF Dies, PCs
  <2>2. QED
    BY <1>14, <2>1, <1>3, <1>4, <1>5, <1>6, <1>7, <1>8 DEF Handle
<1>15. QED
  BY <1>1, <1>2, <1>9, <1>10, <1>11, <1>12, <1>13, <1>14 DEF Next

\* However many deliveries race, die or are repeated, each further send of a message has a
\* cause of its own: an accepted send whose bookkeeping failed, or an outlived lease.
THEOREM DuplicatesHaveCauses == Spec => []DuplicatesExplained
<1> DEFINE Inv == Shape /\ \A m \in Messages : Budget(m)
<1>1. Init => Inv
  <2> SUFFICES ASSUME Init PROVE \A m \in Messages : Budget(m)
    BY ShapeInit
  <2> SUFFICES ASSUME NEW m \in Messages PROVE Budget(m)
    OBVIOUS
  <2>1. Pitching(m) = {}
    BY DEF Init, Pitching
  <2>2. Cardinality(Pitching(m)) = 0
    BY <2>1, FS_EmptySet
  <2>3. accepted[m] = 0 /\ slips[m] = 0 /\ Open(m) = 0
    BY DEF Init, Open
  <2>4. QED
    BY <2>2, <2>3 DEF Budget
<1>2. Inv /\ [Next]_vars => Inv'
  <2> SUFFICES ASSUME Inv, [Next]_vars, NEW m \in Messages PROVE Budget(m)'
    BY ShapeStep
  <2>1. QED
    BY BudgetStep
<1>3. Inv => DuplicatesExplained
  <2> SUFFICES ASSUME Inv, NEW m \in Messages PROVE accepted[m] <= 1 + slips[m]
    BY DEF DuplicatesExplained
  <2>1. accepted[m] \in Nat /\ slips[m] \in Nat
    BY DEF Shape, TypeOK
  <2>2. QED
    BY <2>1, PitchingFinite, OpenBound DEF Budget
<1>4. QED
  BY <1>1, <1>2, <1>3, PTL DEF Spec

\* A delivery that writes nothing and holds nothing new keeps the others' exclusion.
LEMMA ExclusiveKept ==
  ASSUME Exclusive, UNCHANGED <<status, lease>>,
         \A t \in Senders, m \in Messages :
           slips'[m] = 0 /\ Holding(t, m)' => slips[m] = 0 /\ Holding(t, m)
  PROVE  Exclusive'
BY DEF Exclusive

LEMMA ExclusiveStep == Shape /\ Exclusive /\ [Next]_vars => Exclusive'
<1> SUFFICES ASSUME Shape, Exclusive, [Next]_vars PROVE Exclusive'
  OBVIOUS
<1> USE ConstantsOK DEF Shape, TypeOK, Exclusive, Holding, row, local, history,
        Goto, Leave, Rethrow, Slip, Patch
<1>1. ASSUME NEW m \in Messages,
             Queue(m) \/ Enqueue(m) \/ BecomesDue(m) \/ BecomesLate(m) \/ Redrive(m)
             \/ TellGivenUp(m)
      PROVE  Exclusive'
  BY <1>1 DEF Queue, Enqueue, BecomesDue, BecomesLate, Redrive, TellGivenUp
<1>2. ASSUME NEW m \in Messages, Lapse(m) PROVE Exclusive'
  BY <1>2 DEF Lapse
<1>3. ASSUME NEW s \in Senders, NEW m \in Messages, Deliver(s, m) PROVE Exclusive'
  <2>1. CASE Claimable(m)
    <3>1. \A t \in Senders : slips[m] = 0 => ~Holding(t, m)
      BY <2>1 DEF Claimable
    <3>2. QED
      BY <1>3, <2>1, <3>1 DEF Deliver, Claimable
  <2>2. CASE ~Claimable(m)
    BY <1>3, <2>2 DEF Deliver
  <2>3. QED
    BY <2>1, <2>2
<1>4. ASSUME NEW s \in Senders,
             Accept(s) \/ Refuse(s) \/ AuditSent(s) \/ RetryLater(s) \/ BrokenThread(s)
      PROVE  Exclusive'
  <2>1. /\ UNCHANGED <<status, lease, slips>>
        /\ \A t \in Senders, m \in Messages : Holding(t, m)' => Holding(t, m)
    <3>1. CASE Accept(s) \/ Refuse(s)
      BY <3>1 DEF Accept, Refuse
    <3>2. CASE AuditSent(s)
      BY <3>2 DEF AuditSent
    <3>3. CASE RetryLater(s)
      BY <3>3 DEF RetryLater
    <3>4. CASE BrokenThread(s)
      BY <3>4 DEF BrokenThread
    <3>5. QED
      BY <1>4, <3>1, <3>2, <3>3, <3>4
  <2>2. QED
    BY <2>1, ExclusiveKept
<1>5. ASSUME NEW s \in Senders, SkipSend(s) \/ RecordSent(s) \/ RecordFailure(s)
      PROVE  Exclusive'
  <2>1. /\ on[s] \in Messages /\ Holding(s, on[s])
        /\ \A m \in Messages : m # on[s] => UNCHANGED <<status[m], lease[m]>>
        /\ \A t \in Senders : t # s => UNCHANGED <<on[t], pc[t]>>
        /\ \A m \in Messages : ~Holding(s, m)'
        /\ slips' = slips
    <3>1. CASE SkipSend(s)
      BY <1>5, <3>1 DEF SkipSend
    <3>2. CASE RecordSent(s)
      BY <1>5, <3>2 DEF RecordSent
    <3>3. CASE RecordFailure(s)
      BY <1>5, <3>3 DEF RecordFailure
    <3>4. QED
      BY <1>5, <3>1, <3>2, <3>3
  <2>2. \A t \in Senders, m \in Messages :
          Holding(t, m)' => t # s /\ Holding(t, m) /\ UNCHANGED <<on[t], pc[t]>>
    BY <2>1
  <2>3. \A t \in Senders, m \in Messages :
          slips[m] = 0 /\ Holding(t, m)' => m # on[s]
    BY <2>1, <2>2
  <2>4. QED
    BY <2>1, <2>2, <2>3
<1>6. ASSUME NEW s \in Senders, RecordThrows(s) \/ Announce(s) \/ Dies(s) PROVE Exclusive'
  <2>1. /\ UNCHANGED <<status, lease>>
        /\ \A t \in Senders, m \in Messages :
             slips'[m] = 0 /\ Holding(t, m)' => slips[m] = 0 /\ Holding(t, m)
    <3>1. CASE RecordThrows(s)
      BY <1>6, <3>1 DEF RecordThrows
    <3>2. CASE Announce(s)
      BY <1>6, <3>2 DEF Announce
    <3>3. CASE Dies(s)
      BY <1>6, <3>3 DEF Dies
    <3>4. QED
      BY <1>6, <3>1, <3>2, <3>3
  <2>2. QED
    BY <2>1, ExclusiveKept
<1>7. CASE FindGivenUp \/ UNCHANGED vars
  BY <1>7 DEF FindGivenUp, vars
<1>8. QED
  BY <1>1, <1>2, <1>3, <1>4, <1>5, <1>6, <1>7 DEF Next, Handle

\* Until something slips, nobody writes over a message that is sent or given up on.
THEOREM SettledIsFinal == Spec => SettledStays
<1> DEFINE Inv == Shape /\ Exclusive
<1>1. Init => Inv
  BY ShapeInit DEF Init, Exclusive, Holding
<1>2. Inv /\ [Next]_vars => Inv'
  BY ShapeStep, ExclusiveStep
<1>3. Inv /\ [Next]_vars
        => [\A m \in Messages : status[m] \in {"sent", "failed"} /\ slips[m] = 0
              => status'[m] = status[m]]_vars
  <2> SUFFICES ASSUME Inv, Next, NEW m \in Messages,
                      status[m] \in {"sent", "failed"}, slips[m] = 0
               PROVE  status'[m] = status[m]
    OBVIOUS
  <2>1. \A s \in Senders : ~Holding(s, m)
    BY DEF Exclusive
  <2>2. ASSUME NEW n \in Messages, Queue(n) PROVE status'[m] = status[m]
    BY <2>2 DEF Queue, Shape, TypeOK
  <2>3. ASSUME NEW n \in Messages,
               Enqueue(n) \/ Lapse(n) \/ BecomesDue(n) \/ BecomesLate(n) \/ Redrive(n)
               \/ TellGivenUp(n) \/ FindGivenUp
        PROVE  status'[m] = status[m]
    BY <2>3 DEF Enqueue, Lapse, BecomesDue, BecomesLate, Redrive, TellGivenUp, FindGivenUp, row
  <2>4. ASSUME NEW s \in Senders, NEW n \in Messages, Deliver(s, n)
        PROVE  status'[m] = status[m]
    BY <2>4 DEF Deliver
  <2>5. ASSUME NEW s \in Senders, SkipSend(s) \/ RecordSent(s) \/ RecordFailure(s)
        PROVE  status'[m] = status[m]
    BY <2>5, <2>1 DEF SkipSend, RecordSent, RecordFailure, Patch, Holding, Shape, TypeOK
  <2>6. ASSUME NEW s \in Senders,
               \/ Accept(s) \/ Refuse(s) \/ AuditSent(s) \/ RetryLater(s) \/ Announce(s)
               \/ BrokenThread(s) \/ RecordThrows(s) \/ Dies(s)
        PROVE  status'[m] = status[m]
    BY <2>6 DEF Accept, Refuse, AuditSent, RetryLater, Announce, BrokenThread,
                RecordThrows, Dies, row
  <2>7. QED
    BY <2>2, <2>3, <2>4, <2>5, <2>6 DEF Next, Handle
<1>4. QED
  BY <1>1, <1>2, <1>3, PTL DEF Spec, SettledStays

-----------------------------------------------------------------------------
(* Announcing failures *)

\* The delivery that wrote the message off is about to announce it.
Telling(s, m) == on[s] = m /\ pc[s] = "noted" /\ Exhausted(s)

\* The failed messages that were not announced and that nobody is about to announce.
Mute ==
  {m \in Messages : status[m] = "failed" /\ m \notin spoken /\ \A s \in Senders : ~Telling(s, m)}

SilencePaid == IsFiniteSet(Mute) /\ Cardinality(Mute) <= faults

\* Whoever fails a message announces it before it does anything else.
LEMMA MuteStays ==
  ASSUME spoken \subseteq spoken',
         \A m \in Messages : status'[m] = "failed" =>
           status[m] = "failed" \/ \E s \in Senders : Telling(s, m)',
         \A s \in Senders, m \in Messages : Telling(s, m) => Telling(s, m)' \/ m \in spoken'
  PROVE  Mute' \subseteq Mute
BY DEF Mute

\* Only a death in between silences a message, and only the one it was about.
LEMMA MuteStep ==
  ASSUME Shape, [Next]_vars
  PROVE  \/ Mute' \subseteq Mute /\ faults' >= faults
         \/ faults' = faults + 1 /\ \E m \in Messages : Mute' \subseteq Mute \cup {m}
<1> DEFINE Quiet == Mute' \subseteq Mute /\ faults' >= faults
<1> USE ConstantsOK DEF Shape, TypeOK, row, local, history, Goto, Leave, Rethrow, Fault, Slip,
        Patch, Telling, Exhausted
<1>1. ASSUME NEW m \in Messages,
             \/ Queue(m) \/ Enqueue(m) \/ Lapse(m) \/ BecomesDue(m) \/ BecomesLate(m)
             \/ Redrive(m) \/ TellGivenUp(m)
      PROVE  Quiet
  BY <1>1, MuteStays DEF Queue, Enqueue, Lapse, BecomesDue, BecomesLate, Redrive, TellGivenUp
<1>2. ASSUME NEW s \in Senders, NEW m \in Messages, Deliver(s, m) PROVE Quiet
  BY <1>2, MuteStays DEF Deliver
<1>3. ASSUME NEW s \in Senders, Accept(s) \/ Refuse(s) \/ AuditSent(s) PROVE Quiet
  BY <1>3, MuteStays DEF Accept, Refuse, AuditSent
<1>4. ASSUME NEW s \in Senders, RecordSent(s) \/ SkipSend(s) PROVE Quiet
  BY <1>4, MuteStays DEF RecordSent, SkipSend
<1>5. ASSUME NEW s \in Senders, RecordFailure(s) PROVE Quiet
  <2>1. on[s] \in Messages /\ pc[s] = "caught"
    BY <1>5 DEF RecordFailure
  <2>2. Exhausted(s) => Telling(s, on[s])'
    BY <1>5, <2>1 DEF RecordFailure
  <2>3. \A m \in Messages : status'[m] = "failed" =>
          status[m] = "failed" \/ \E t \in Senders : Telling(t, m)'
    BY <1>5, <2>1, <2>2 DEF RecordFailure
  <2>4. \A t \in Senders, m \in Messages : Telling(t, m) => Telling(t, m)'
    BY <1>5, <2>1 DEF RecordFailure
  <2>5. QED
    BY <1>5, <2>3, <2>4, MuteStays DEF RecordFailure
<1>6. ASSUME NEW s \in Senders, RetryLater(s) \/ BrokenThread(s) \/ RecordThrows(s) PROVE Quiet
  BY <1>6, MuteStays DEF RetryLater, BrokenThread, RecordThrows
<1>7. ASSUME NEW s \in Senders, Announce(s) PROVE Quiet
  BY <1>7, MuteStays DEF Announce
<1>8. ASSUME NEW s \in Senders, Dies(s)
      PROVE  faults' = faults + 1 /\ \E m \in Messages : Mute' \subseteq Mute \cup {m}
  <2>1. on[s] \in Messages /\ faults' = faults + 1
    BY <1>8 DEF Dies
  <2>2. \A t \in Senders, m \in Messages \ {on[s]} : Telling(t, m) => Telling(t, m)'
    BY <1>8 DEF Dies
  <2>3. status' = status /\ spoken' = spoken
    BY <1>8 DEF Dies
  <2>4. Mute' \subseteq Mute \cup {on[s]}
    BY <2>2, <2>3 DEF Mute
  <2>5. QED
    BY <2>1, <2>4
<1>9. CASE FindGivenUp \/ UNCHANGED vars
  BY <1>9, MuteStays DEF FindGivenUp, vars
<1>10. QED
  BY <1>1, <1>2, <1>3, <1>4, <1>5, <1>6, <1>7, <1>8, <1>9 DEF Next, Handle

LEMMA SilenceStep == Shape /\ SilencePaid /\ [Next]_vars => SilencePaid'
<1> SUFFICES ASSUME Shape, SilencePaid, [Next]_vars PROVE SilencePaid'
  OBVIOUS
<1>1. /\ IsFiniteSet(Mute) /\ Cardinality(Mute) \in Nat /\ Cardinality(Mute) <= faults
      /\ faults \in Nat
  BY FS_CardinalityType, ConstantsOK DEF SilencePaid, Shape, TypeOK
<1>2. ASSUME NEW S, IsFiniteSet(S), Mute' \subseteq S, Cardinality(S) <= faults'
      PROVE  SilencePaid'
  <2>1. IsFiniteSet(Mute') /\ Cardinality(Mute') <= Cardinality(S)
    BY <1>2, FS_Subset
  <2>2. Cardinality(Mute') \in Nat /\ Cardinality(S) \in Nat /\ faults' \in Nat
    BY <1>2, <2>1, FS_CardinalityType, ShapeStep DEF Shape, TypeOK
  <2>3. QED
    BY <1>2, <2>1, <2>2 DEF SilencePaid
<1>3. CASE Mute' \subseteq Mute /\ faults' >= faults
  <2>1. faults' \in Nat
    BY ShapeStep, ConstantsOK DEF Shape, TypeOK
  <2>2. Cardinality(Mute) <= faults'
    BY <1>1, <1>3, <2>1
  <2>3. QED
    BY <1>1, <1>2, <1>3, <2>2
<1>4. ASSUME NEW m \in Messages, Mute' \subseteq Mute \cup {m}, faults' = faults + 1
      PROVE  SilencePaid'
  <2>1. IsFiniteSet(Mute \cup {m}) /\ Cardinality(Mute \cup {m}) <= Cardinality(Mute) + 1
    BY <1>1, FS_AddElement
  <2>2. Cardinality(Mute \cup {m}) \in Nat
    BY <2>1, FS_CardinalityType
  <2>3. Cardinality(Mute \cup {m}) <= faults'
    BY <1>1, <1>4, <2>1, <2>2
  <2>4. QED
    BY <1>2, <1>4, <2>1, <2>3
<1>5. QED
  BY <1>3, <1>4, MuteStep

\* The messages that make FailedIsAnnounced false.
Silenced ==
  {m \in Messages : status[m] = "failed" /\ m \notin spoken /\ \A s \in Senders : on[s] # m}

\* Each message that fails unannounced has a fault of its own: no overlap of deliveries, no
\* lapsed lease and no stale snapshot silences a failure (announceSendFailure follows the
\* write in the same handler).  The run that breaks FailedIsAnnounced needs its one fault.
THEOREM SilenceHasACause == Spec => [](IsFiniteSet(Silenced) /\ Cardinality(Silenced) <= faults)
<1>1. Init => SilencePaid
  <2> SUFFICES ASSUME Init PROVE SilencePaid
    OBVIOUS
  <2>1. Mute = {} /\ faults = 0
    BY DEF Init, Mute
  <2>2. QED
    BY <2>1, FS_EmptySet DEF SilencePaid
<1>2. Shape /\ SilencePaid => IsFiniteSet(Silenced) /\ Cardinality(Silenced) <= faults
  <2> SUFFICES ASSUME Shape, SilencePaid
               PROVE  IsFiniteSet(Silenced) /\ Cardinality(Silenced) <= faults
    OBVIOUS
  <2>1. Silenced \subseteq Mute
    BY DEF Silenced, Mute, Telling
  <2>2. IsFiniteSet(Silenced) /\ Cardinality(Silenced) <= Cardinality(Mute)
    BY <2>1, FS_Subset DEF SilencePaid
  <2>3. Cardinality(Silenced) \in Nat /\ Cardinality(Mute) \in Nat /\ faults \in Nat
    BY <2>2, FS_CardinalityType, ConstantsOK DEF SilencePaid, Shape, TypeOK
  <2>4. QED
    BY <2>2, <2>3 DEF SilencePaid
<1>3. QED
  BY ShapeInit, ShapeStep, SilenceStep, <1>1, <1>2, PTL DEF Spec
=============================================================================
