------------------------ MODULE AgentApprovals_proofs ------------------------
(***************************************************************************)
(* Proofs about the approval gate of the agent kernel, for any number of   *)
(* runs, approvals, handlers, turns and faults.                            *)
(***************************************************************************)
EXTENDS AgentApprovals, FiniteSetTheorems, TLAPS

\* The state is typed, and each handler's local variables fit where it is.
Shape ==
  /\ TypeOK
  /\ \A d \in Drivers :
       /\ Live(d) => on[d] \in Runs
       /\ pc[d] \in {"fetched", "loaded", "claimed"} => d \in Resumers
       /\ d \in Resumers /\ pc[d] # "idle" => job[d] \in Approvals
       /\ pc[d] = "claimed" => on[d] = RunOf[job[d]]
       /\ pc[d] = "tools" => turns[d] < MaxTurns
       /\ pc[d] = "settling" => outcome[d] # "none"
       /\ pc[d] # "settling" => asks[d] = None
       /\ asks[d] # None <=> outcome[d] = "awaiting_approval"

\* Who is where.  A run with a driver inside is running, or was closed under it by the
\* stuck sweep; the driver is alone.
Occupancy ==
  /\ OneDriver
  /\ \A r \in Runs : status[r] = "awaiting_approval" =>
       pending[r] \in Approvals /\ RunOf[pending[r]] = r /\ executed[pending[r]] = 0

\* A loaded approval carries the verdict it was loaded with.
Loaded ==
  \A d \in Drivers : pc[d] \in {"loaded", "claimed"} =>
    /\ card[job[d]] \in Decided \cup {"deleted"}
    /\ verdict[d] = "approved" => card[job[d]] = "approved"

\* An approval about to be parked on is new to everybody: not executed, not pending
\* on any run, loaded by no delivery.  Before its row exists nobody holds it at all.
Untouched(a) ==
  /\ executed[a] = 0
  /\ \A r \in Runs : pending[r] # a
  /\ \A e \in Drivers : pc[e] \in {"loaded", "claimed"} => job[e] # a

Fresh ==
  /\ \A d \in Drivers : asks[d] # None =>
       Untouched(asks[d]) /\ RunOf[asks[d]] = on[d] /\ card[asks[d]] # "none"
  /\ \A a \in Approvals : card[a] = "none" => Untouched(a)

SafeInv == Shape /\ Occupancy /\ Loaded /\ Fresh /\ ReleasedBeforeExecuted

\* With one delivery at a time, what a delivery read is still so when it acts on it.
SingleConsumer == \A d, e \in Resumers : d = e

SingleInv ==
  /\ OnceOnly
  /\ \A d \in Drivers :
       /\ pc[d] \in {"fetched", "loaded"} => status[RunOf[job[d]]] = "awaiting_approval"
       /\ pc[d] = "loaded" => pending[RunOf[job[d]]] = job[d]
       /\ pc[d] = "claimed" => executed[job[d]] = 0

LEMMA ShapeStep == Shape /\ [Next]_vars => Shape'
<1> SUFFICES ASSUME Shape, [Next]_vars PROVE Shape'
  OBVIOUS
<1> USE ConstantsOK DEF Shape, TypeOK, Drivers, Live, RunStates, Terminal, Decided, PCs,
        cards, local, Goto, Settling, Stepped, Leave, Rethrow, Fault
<1>1. ASSUME NEW r \in Runs, SkipRun(r) PROVE Shape'
  BY <1>1 DEF SkipRun
<1>2. ASSUME NEW d \in Drivers, NEW r \in Runs, OpenRun(d, r) PROVE Shape'
  BY <1>2 DEF OpenRun
<1>3. ASSUME NEW d \in Drivers, NEW a \in Approvals, Fetch(d, a) PROVE Shape'
  BY <1>3 DEF Fetch
<1>4. ASSUME NEW d \in Drivers, Answer(d) PROVE Shape'
  BY <1>4 DEF Answer, TurnsLeft
<1>5. ASSUME NEW d \in Drivers, CallTools(d) PROVE Shape'
  BY <1>5 DEF CallTools, TurnsLeft
<1>6. ASSUME NEW d \in Drivers, OutOfTurns(d) PROVE Shape'
  BY <1>6 DEF OutOfTurns, TurnsLeft
<1>7. ASSUME NEW d \in Drivers, ToolsDone(d) PROVE Shape'
  BY <1>7 DEF ToolsDone
<1>8. ASSUME NEW d \in Drivers, NEW a \in Approvals, ParkForApproval(d, a) PROVE Shape'
  BY <1>8 DEF ParkForApproval
<1>9. ASSUME NEW d \in Drivers, Settle(d) PROVE Shape'
  BY <1>9 DEF Settle, Finishable, PendingAfter
<1>10. ASSUME NEW d \in Drivers, LoopThrows(d) PROVE Shape'
  BY <1>10 DEF LoopThrows
<1>11. ASSUME NEW d \in Drivers, Load(d) PROVE Shape'
  BY <1>11 DEF Load, Resumable
<1>12. ASSUME NEW d \in Drivers, LoadRefused(d) PROVE Shape'
  BY <1>12 DEF LoadRefused, Resumable
<1>13. ASSUME NEW d \in Drivers, Reopen(d) PROVE Shape'
  BY <1>13 DEF Reopen, Claimable
<1>14. ASSUME NEW d \in Drivers, ReopenLost(d) PROVE Shape'
  BY <1>14 DEF ReopenLost, Claimable
<1>15. ASSUME NEW d \in Drivers, CarryOut(d) PROVE Shape'
  BY <1>15 DEF CarryOut
<1>16. ASSUME NEW d \in Drivers, TellRejected(d) PROVE Shape'
  BY <1>16 DEF TellRejected
<1>17. ASSUME NEW d \in Drivers, Dies(d) PROVE Shape'
  BY <1>17 DEF Dies
<1>18. ASSUME NEW d \in Drivers, Expire(d) PROVE Shape'
  BY <1>18 DEF Expire
<1>19. ASSUME NEW a \in Approvals, Person(a) PROVE Shape'
  BY <1>19 DEF Person, Decide, Undecided, FastPath, DeleteRejected
<1>20. ASSUME Sweeps PROVE Shape'
  BY <1>20 DEF Sweeps, Redrive, GiveUp, FindStuck, Stranded, FailStuck, Finishable
<1>21. ASSUME Time PROVE Shape'
  BY <1>21 DEF Time, BecomesDue, BecomesLate, StillParked, GoQuiet
<1>22. CASE UNCHANGED vars
  BY <1>22 DEF vars
<1>23. QED
  BY <1>1, <1>2, <1>3, <1>4, <1>5, <1>6, <1>7, <1>8, <1>9, <1>10, <1>11,
       <1>12, <1>13, <1>14, <1>15, <1>16, <1>17, <1>18, <1>19, <1>20, <1>21,
       <1>22
       DEF Next, Loop, Resume

\* Every variable keeps its type (the agent_runs and approvals columns, the handlers' locals).
THEOREM TypeCorrect == Spec => []TypeOK
<1>1. Init => Shape
  BY ConstantsOK DEF Init, Shape, TypeOK, Drivers, Live, RunStates, Terminal, Decided, PCs
<1>2. Shape => TypeOK
  BY DEF Shape
<1>3. QED
  BY <1>1, ShapeStep, <1>2, PTL DEF Spec

LEMMA SafeStep == SafeInv /\ [Next]_vars => SafeInv'
<1> SUFFICES ASSUME SafeInv, [Next]_vars PROVE SafeInv'
  OBVIOUS
<1>0. Shape'
  BY ShapeStep DEF SafeInv
<1> DEFINE Safe == Occupancy /\ Loaded /\ Fresh /\ ReleasedBeforeExecuted
<1> SUFFICES Safe'
  BY <1>0 DEF SafeInv
<1> USE ConstantsOK DEF SafeInv, Shape, TypeOK, Drivers, Live, RunStates, Terminal, Decided, PCs,
        cards, local, Goto, Settling, Stepped, Leave, Rethrow, Fault,
        Occupancy, OneDriver, Loaded, Fresh, Untouched, ReleasedBeforeExecuted
<1>1. ASSUME NEW r \in Runs, SkipRun(r) PROVE Safe'
  BY <1>1 DEF SkipRun
<1>2. ASSUME NEW d \in Drivers, NEW r \in Runs, OpenRun(d, r) PROVE Safe'
  BY <1>2 DEF OpenRun
<1>3. ASSUME NEW d \in Drivers, NEW a \in Approvals, Fetch(d, a) PROVE Safe'
  BY <1>3 DEF Fetch
<1>4. ASSUME NEW d \in Drivers, Answer(d) PROVE Safe'
  BY <1>4 DEF Answer, TurnsLeft
<1>5. ASSUME NEW d \in Drivers, CallTools(d) PROVE Safe'
  BY <1>5 DEF CallTools, TurnsLeft
<1>6. ASSUME NEW d \in Drivers, OutOfTurns(d) PROVE Safe'
  BY <1>6 DEF OutOfTurns, TurnsLeft
<1>7. ASSUME NEW d \in Drivers, ToolsDone(d) PROVE Safe'
  BY <1>7 DEF ToolsDone
<1>8. ASSUME NEW d \in Drivers, NEW a \in Approvals, ParkForApproval(d, a) PROVE Safe'
  BY <1>8 DEF ParkForApproval
<1>9. ASSUME NEW d \in Drivers, Settle(d) PROVE Safe'
  BY <1>9 DEF Settle, Finishable, PendingAfter
<1>10. ASSUME NEW d \in Drivers, LoopThrows(d) PROVE Safe'
  BY <1>10 DEF LoopThrows
<1>11. ASSUME NEW d \in Drivers, Load(d) PROVE Safe'
  BY <1>11 DEF Load, Resumable
<1>12. ASSUME NEW d \in Drivers, LoadRefused(d) PROVE Safe'
  BY <1>12 DEF LoadRefused, Resumable
<1>13. ASSUME NEW d \in Drivers, Reopen(d) PROVE Safe'
  BY <1>13 DEF Reopen, Claimable
<1>14. ASSUME NEW d \in Drivers, ReopenLost(d) PROVE Safe'
  BY <1>14 DEF ReopenLost, Claimable
<1>15. ASSUME NEW d \in Drivers, CarryOut(d) PROVE Safe'
  BY <1>15 DEF CarryOut
<1>16. ASSUME NEW d \in Drivers, TellRejected(d) PROVE Safe'
  BY <1>16 DEF TellRejected
<1>17. ASSUME NEW d \in Drivers, Dies(d) PROVE Safe'
  BY <1>17 DEF Dies
<1>18. ASSUME NEW d \in Drivers, Expire(d) PROVE Safe'
  BY <1>18 DEF Expire
<1>19. ASSUME NEW a \in Approvals, Person(a) PROVE Safe'
  BY <1>19 DEF Person, Decide, Undecided, FastPath, DeleteRejected
<1>20. ASSUME Sweeps PROVE Safe'
  BY <1>20 DEF Sweeps, Redrive, GiveUp, FindStuck, Stranded, FailStuck, Finishable
<1>21. ASSUME Time PROVE Safe'
  BY <1>21 DEF Time, BecomesDue, BecomesLate, StillParked, GoQuiet
<1>22. CASE UNCHANGED vars
  BY <1>22 DEF vars
<1>23. QED
  BY <1>1, <1>2, <1>3, <1>4, <1>5, <1>6, <1>7, <1>8, <1>9, <1>10, <1>11,
       <1>12, <1>13, <1>14, <1>15, <1>16, <1>17, <1>18, <1>19, <1>20, <1>21,
       <1>22
       DEF Next, Loop, Resume

LEMMA SafeInvariant == Spec => []SafeInv
<1>1. Init => Shape
  BY ConstantsOK DEF Init, Shape, TypeOK, Drivers, Live, RunStates, Terminal, Decided, PCs
<1>2. Init => Occupancy /\ Loaded /\ Fresh /\ ReleasedBeforeExecuted
  BY ConstantsOK DEF Init, Occupancy, OneDriver, Loaded, Fresh, Untouched,
     ReleasedBeforeExecuted, Live, Drivers
<1>3. Init => SafeInv
  BY <1>1, <1>2 DEF SafeInv
<1>4. QED
  BY <1>3, SafeStep, PTL DEF Spec

\* However many deliveries of a resume overlap (a rolling deploy, an expired job), a run has
\* at most one driver: reopen's conditional claim is its mutex (run-recorder.ts reopen, finish).
THEOREM OneDriverAtATime == Spec => []OneDriver
<1>1. SafeInv => OneDriver
  BY DEF SafeInv, Occupancy
<1>2. QED
  BY <1>1, SafeInvariant, PTL

\* ... a gated tool runs only if its own card was approved, and the card stays approved
\* afterwards (resume-agent.ts loadParked, queries.ts decideApproval).
THEOREM ReleasedFirst == Spec => []ReleasedBeforeExecuted
<1>1. SafeInv => ReleasedBeforeExecuted
  BY DEF SafeInv
<1>2. QED
  BY <1>1, SafeInvariant, PTL

\* ... and a run still parked on a decided call has not carried it out, so the sweep that
\* re-drives it repeats nothing (resume-sweep.ts findUndeliveredResumes).
THEOREM ParkedIsUndone == Spec => []ParkedNotExecuted
<1>1. SafeInv => ParkedNotExecuted
  BY ConstantsOK DEF SafeInv, Shape, TypeOK, Occupancy, Loaded, Fresh, Untouched, OneDriver,
     ParkedNotExecuted, StillParked
<1>2. QED
  BY <1>1, SafeInvariant, PTL

\* A closed run stays as it was closed (run-recorder.ts finish, resume-sweep.ts).
THEOREM ClosedStaysClosed == Spec => TerminalStays
<1>1. ASSUME SafeInv, [Next]_vars
      PROVE  [\A r \in Runs : status[r] \in Terminal => status'[r] = status[r]]_vars
  <2> SUFFICES ASSUME Next, NEW r \in Runs, status[r] \in Terminal
               PROVE  status'[r] = status[r]
    BY <1>1
  <2> USE <1>1 DEF Terminal, SafeInv, Shape, TypeOK
  <2>1. ASSUME NEW q \in Runs, SkipRun(q) PROVE status'[r] = status[r]
    BY <2>1 DEF SkipRun
  <2>2. ASSUME NEW d \in Drivers, NEW q \in Runs, OpenRun(d, q) PROVE status'[r] = status[r]
    BY <2>2 DEF OpenRun
  <2>3. ASSUME NEW d \in Drivers, Settle(d) PROVE status'[r] = status[r]
    BY <2>3 DEF Settle, Finishable, PendingAfter
  <2>4. ASSUME NEW d \in Drivers, Reopen(d) PROVE status'[r] = status[r]
    BY <2>4 DEF Reopen, Claimable
  <2>5. ASSUME Sweeps PROVE status'[r] = status[r]
    BY <2>5 DEF Sweeps, Redrive, GiveUp, FindStuck, FailStuck, Finishable
  <2>6. CASE UNCHANGED status
    BY <2>6
  <2>7. QED
    BY <2>1, <2>2, <2>3, <2>4, <2>5, <2>6
       DEF Next, Loop, Resume, Fetch, Answer, CallTools, OutOfTurns, ToolsDone, ParkForApproval,
           LoopThrows, Load, LoadRefused, ReopenLost, CarryOut, TellRejected, Dies, Expire,
           Person, Decide, FastPath, DeleteRejected, Time, BecomesDue, BecomesLate, GoQuiet
<1>2. QED
  BY <1>1, SafeInvariant, PTL DEF Spec, TerminalStays

-----------------------------------------------------------------------------
(* However many deliveries overlap: how often a released call may be repeated *)

\* The deliveries of an approval that can still carry it out.
Contenders(a) ==
  {d \in Resumers : job[d] = a /\ \/ pc[d] \in {"loaded", "claimed"}
                                  \/ pc[d] = "fetched" /\ pending[RunOf[a]] = a}

ParkedOn(a) == status[RunOf[a]] = "awaiting_approval" /\ pending[RunOf[a]] = a

\* Once a run has left its park on a call nobody contends for the call anew, and each
\* delivery that does carries it out at most once.
RepeatBound ==
  \A a \in Approvals :
    ParkedOn(a) \/ executed[a] + Cardinality(Contenders(a)) <= Cardinality(Resumers)

LEMMA ContendersFinite ==
  ASSUME IsFiniteSet(Resumers), NEW a
  PROVE  /\ IsFiniteSet(Contenders(a))
         /\ Cardinality(Contenders(a)) \in Nat /\ Cardinality(Resumers) \in Nat
         /\ Cardinality(Contenders(a)) <= Cardinality(Resumers)
<1>1. Contenders(a) \subseteq Resumers
  BY DEF Contenders
<1>2. IsFiniteSet(Contenders(a)) /\ Cardinality(Contenders(a)) <= Cardinality(Resumers)
  BY <1>1, FS_Subset
<1>3. QED
  BY <1>2, FS_CardinalityType

LEMMA ContendersFinitePrimed ==
  ASSUME IsFiniteSet(Resumers), NEW a
  PROVE  /\ IsFiniteSet(Contenders(a)')
         /\ Cardinality(Contenders(a)') \in Nat
         /\ Cardinality(Contenders(a)') <= Cardinality(Resumers)
<1>1. Contenders(a)' \subseteq Resumers
  BY DEF Contenders
<1>2. IsFiniteSet(Contenders(a)') /\ Cardinality(Contenders(a)') <= Cardinality(Resumers)
  BY <1>1, FS_Subset
<1>3. QED
  BY <1>2, FS_CardinalityType

\* A step that does not carry out `a` lets nobody contend for it who did not, unless `a` has
\* not been carried out at all.
Idles(a) ==
  /\ executed'[a] = executed[a]
  /\ executed[a] = 0 \/ Contenders(a)' \subseteq Contenders(a)

LEMMA IdlesOrCarriesOut ==
  ASSUME SafeInv, [Next]_vars, NEW a \in Approvals
  PROVE  Idles(a) \/ \E d \in Drivers : CarryOut(d) /\ job[d] = a
<1> USE ConstantsOK DEF SafeInv, Shape, TypeOK, Drivers, Live, Decided, Occupancy, Fresh, Untouched,
        Idles, Contenders, cards, local, Goto, Settling, Stepped, Leave, Rethrow, Fault
<1>1. ASSUME NEW r \in Runs, SkipRun(r) PROVE Idles(a)
  BY <1>1 DEF SkipRun
<1>2. ASSUME NEW d \in Drivers, NEW r \in Runs, OpenRun(d, r) PROVE Idles(a)
  BY <1>2 DEF OpenRun
<1>3. ASSUME NEW d \in Drivers, NEW b \in Approvals, Fetch(d, b) PROVE Idles(a)
  BY <1>3 DEF Fetch
<1>4. ASSUME NEW d \in Drivers, Answer(d) \/ CallTools(d) \/ OutOfTurns(d) \/ ToolsDone(d)
      PROVE  Idles(a)
  BY <1>4 DEF Answer, CallTools, OutOfTurns, ToolsDone
<1>5. ASSUME NEW d \in Drivers, NEW b \in Approvals, ParkForApproval(d, b) PROVE Idles(a)
  BY <1>5 DEF ParkForApproval
<1>6. ASSUME NEW d \in Drivers, Settle(d) PROVE Idles(a)
  BY <1>6 DEF Settle, PendingAfter
<1>7. ASSUME NEW d \in Drivers, LoopThrows(d) PROVE Idles(a)
  BY <1>7 DEF LoopThrows
<1>8. ASSUME NEW d \in Drivers, Load(d) PROVE Idles(a)
  BY <1>8 DEF Load, Resumable
<1>9. ASSUME NEW d \in Drivers, LoadRefused(d) \/ ReopenLost(d) PROVE Idles(a)
  BY <1>9 DEF LoadRefused, ReopenLost
<1>10. ASSUME NEW d \in Drivers, Reopen(d) PROVE Idles(a)
  BY <1>10 DEF Reopen
<1>11. ASSUME NEW d \in Drivers, CarryOut(d), job[d] # a PROVE Idles(a)
  BY <1>11 DEF CarryOut
<1>12. ASSUME NEW d \in Drivers, TellRejected(d) PROVE Idles(a)
  BY <1>12 DEF TellRejected
<1>13. ASSUME NEW d \in Drivers, Dies(d) \/ Expire(d) PROVE Idles(a)
  BY <1>13 DEF Dies, Expire
<1>14. ASSUME NEW b \in Approvals, Person(b) PROVE Idles(a)
  BY <1>14 DEF Person, Decide, FastPath, DeleteRejected
<1>15. ASSUME Sweeps PROVE Idles(a)
  BY <1>15 DEF Sweeps, Redrive, GiveUp, FindStuck, FailStuck
<1>16. ASSUME Time PROVE Idles(a)
  BY <1>16 DEF Time, BecomesDue, BecomesLate, GoQuiet
<1>17. CASE UNCHANGED vars
  BY <1>17 DEF vars
<1>18. QED
  <2> HIDE DEF SafeInv, Idles
  <2>1. QED
    BY <1>1, <1>2, <1>3, <1>4, <1>5, <1>6, <1>7, <1>8, <1>9, <1>10, <1>11, <1>12, <1>13,
       <1>14, <1>15, <1>16, <1>17 DEF Next, Loop, Resume

LEMMA RepeatStep ==
  ASSUME IsFiniteSet(Resumers), SafeInv, RepeatBound, [Next]_vars
  PROVE  RepeatBound'
<1> SUFFICES ASSUME NEW a \in Approvals
             PROVE  executed'[a] + Cardinality(Contenders(a)') <= Cardinality(Resumers)
                    \/ ParkedOn(a)'
  BY DEF RepeatBound
<1>1. executed[a] \in Nat
  BY DEF SafeInv, Shape, TypeOK
<1>2. CASE Idles(a) /\ executed[a] = 0
  BY <1>2, ContendersFinitePrimed DEF Idles
<1>3. ASSUME executed[a] # 0
      PROVE  executed[a] + Cardinality(Contenders(a)) <= Cardinality(Resumers)
  <2>1. ~ParkedOn(a)
    BY <1>3, ConstantsOK DEF SafeInv, Occupancy, ParkedOn
  <2>2. QED
    BY <2>1 DEF RepeatBound
<1>4. CASE Idles(a) /\ executed[a] # 0
  <2>1. Cardinality(Contenders(a)') <= Cardinality(Contenders(a))
    BY <1>4, ContendersFinite, FS_Subset DEF Idles
  <2>2. QED
    BY <1>1, <1>3, <1>4, <2>1, ContendersFinite, ContendersFinitePrimed DEF Idles
<1>5. ASSUME NEW d \in Drivers, CarryOut(d), job[d] = a
      PROVE  executed'[a] + Cardinality(Contenders(a)') <= Cardinality(Resumers)
  <2>1. d \in Resumers /\ pc[d] = "claimed" /\ RunOf[a] \in Runs
    BY <1>5, ConstantsOK DEF CarryOut, SafeInv, Shape
  <2>2. ~ParkedOn(a)
    BY <1>5, <2>1 DEF ParkedOn, SafeInv, Shape, Occupancy, OneDriver, Live
  <2>3. executed[a] + Cardinality(Contenders(a)) <= Cardinality(Resumers)
    BY <2>2 DEF RepeatBound
  <2>4. d \in Contenders(a) /\ Contenders(a)' = Contenders(a) \ {d}
    BY <1>5, <2>1 DEF CarryOut, Contenders, Goto, local, SafeInv, Shape, TypeOK
  <2>5. Cardinality(Contenders(a)') = Cardinality(Contenders(a)) - 1
    BY <2>4, ContendersFinite, FS_RemoveElement
  <2>6. executed'[a] <= executed[a] + 1 /\ executed'[a] \in Nat
    BY <1>1, <1>5 DEF CarryOut, SafeInv, Shape, TypeOK
  <2>7. QED
    BY <1>1, <2>3, <2>5, <2>6, ContendersFinite
<1>6. Idles(a) \/ \E d \in Drivers : CarryOut(d) /\ job[d] = a
  BY IdlesOrCarriesOut
<1>7. QED
  BY <1>2, <1>4, <1>5, <1>6

\* The damage overlapping deliveries can do is bounded by their number: where n of them can
\* be alive at once, a released call is carried out at most n times, whatever dies, expires
\* or is redelivered (resume-agent.ts loadParked reads the park before reopen claims it).
THEOREM ExecutedOncePerResumer ==
  IsFiniteSet(Resumers) =>
    (Spec => [](\A a \in Approvals : executed[a] <= Cardinality(Resumers)))
<1> SUFFICES ASSUME IsFiniteSet(Resumers)
             PROVE  Spec => [](\A a \in Approvals : executed[a] <= Cardinality(Resumers))
  OBVIOUS
<1>1. Init => RepeatBound
  <2> SUFFICES ASSUME Init, NEW a \in Approvals
               PROVE  executed[a] + Cardinality(Contenders(a)) <= Cardinality(Resumers)
    BY DEF RepeatBound
  <2>1. executed[a] = 0
    BY DEF Init
  <2>2. QED
    BY <2>1, ContendersFinite
<1>2. SafeInv /\ RepeatBound /\ [Next]_vars => RepeatBound'
  BY RepeatStep
<1>3. SafeInv /\ RepeatBound => \A a \in Approvals : executed[a] <= Cardinality(Resumers)
  <2> SUFFICES ASSUME SafeInv, RepeatBound, NEW a \in Approvals
               PROVE  executed[a] <= Cardinality(Resumers)
    OBVIOUS
  <2>1. executed[a] \in Nat
    BY DEF SafeInv, Shape, TypeOK
  <2>2. CASE ParkedOn(a)
    <3>1. executed[a] = 0
      BY <2>2, ConstantsOK DEF SafeInv, Occupancy, ParkedOn
    <3>2. QED
      BY <3>1, ContendersFinite
  <2>3. CASE ~ParkedOn(a)
    BY <2>1, <2>3, ContendersFinite DEF RepeatBound
  <2>4. QED
    BY <2>2, <2>3
<1>4. QED
  BY SafeInvariant, <1>1, <1>2, <1>3, PTL DEF Spec

-----------------------------------------------------------------------------
(* The gate, however many deliveries overlap *)

\* The steps that move a card or carry a call out; every other leaves the gate alone.
LEMMA TouchesTheGate ==
  ASSUME Next
  PROVE  \/ UNCHANGED <<card, executed>>
         \/ \E d \in Drivers, a \in Approvals : ParkForApproval(d, a)
         \/ \E d \in Drivers : CarryOut(d)
         \/ \E a \in Approvals : DeleteRejected(a) \/ \E v \in Decided : Decide(a, v)
BY DEF Next, Loop, Resume, SkipRun, OpenRun, Fetch, Answer, CallTools, OutOfTurns, ToolsDone,
       Settle, LoopThrows, Load, LoadRefused, Reopen, ReopenLost, TellRejected, Dies, Expire,
       Person, FastPath, Sweeps, Redrive, GiveUp, FindStuck, FailStuck,
       Time, BecomesDue, BecomesLate, GoQuiet, cards

\* The gate when what is repeated counts as carried out.
InOrder(a) == IF executed[a] > 0 /\ card[a] = "approved" THEN "carried_out" ELSE GateOf(a)
Ordered == INSTANCE ApprovalGate WITH gate <- [a \in Approvals |-> InOrder(a)]

LEMMA OrderedStep ==
  ASSUME SafeInv, [Next]_vars
  PROVE  [Ordered!Next]_([a \in Approvals |-> InOrder(a)])
<1> DEFINE g == [a \in Approvals |-> InOrder(a)]
<1> USE ConstantsOK DEF Decided, SafeInv, Shape, TypeOK, Drivers
<1>0. ASSUME NEW a \in Approvals, NEW from, NEW to,
             InOrder(a) = from, InOrder(a)' = to,
             \A b \in Approvals : b # a => card'[b] = card[b] /\ executed'[b] = executed[b]
      PROVE  Ordered!Move(a, from, to)
  <2>1. \A b \in Approvals : b # a => g'[b] = g[b]
    BY <1>0 DEF InOrder, GateOf
  <2>2. g' = [g EXCEPT ![a] = to]
    BY <1>0, <2>1
  <2>3. QED
    BY <1>0, <2>2 DEF Ordered!Move
<1>1. ASSUME UNCHANGED <<card, executed>> PROVE g' = g
  BY <1>1 DEF InOrder, GateOf
<1>2. ASSUME NEW d \in Drivers, NEW a \in Approvals, ParkForApproval(d, a) PROVE Ordered!Ask(a)
  <2>1. card[a] = "none" /\ executed' = executed /\ card' = [card EXCEPT ![a] = "pending"]
    BY <1>2 DEF ParkForApproval
  <2>2. executed[a] = 0
    BY <2>1 DEF ReleasedBeforeExecuted
  <2>3. InOrder(a) = "unasked" /\ InOrder(a)' = "asked"
    BY <2>1, <2>2 DEF InOrder, GateOf
  <2>4. QED
    BY <1>0, <2>1, <2>3 DEF Ordered!Ask
<1>3. ASSUME NEW a \in Approvals, NEW v \in Decided, Decide(a, v)
      PROVE  Ordered!Release(a) \/ Ordered!Refuse(a)
  <2>1. card[a] = "pending" /\ executed' = executed /\ card' = [card EXCEPT ![a] = v]
    BY <1>3 DEF Decide, Undecided
  <2>2. executed[a] = 0
    BY <2>1 DEF ReleasedBeforeExecuted
  <2>3. InOrder(a) = "asked" /\ InOrder(a)' = (IF v = "approved" THEN "released" ELSE "refused")
    BY <2>1, <2>2 DEF InOrder, GateOf
  <2>4. QED
    BY <1>0, <2>1, <2>3 DEF Ordered!Release, Ordered!Refuse
<1>4. ASSUME NEW a \in Approvals, DeleteRejected(a) PROVE g' = g
  <2>1. card[a] = "rejected" /\ executed' = executed /\ card' = [card EXCEPT ![a] = "deleted"]
    BY <1>4 DEF DeleteRejected
  <2>2. executed[a] = 0
    BY <2>1 DEF ReleasedBeforeExecuted
  <2>3. InOrder(a) = "refused" /\ InOrder(a)' = "refused"
    BY <2>1, <2>2 DEF InOrder, GateOf
  <2>4. \A b \in Approvals : b # a => InOrder(b)' = InOrder(b)
    BY <2>1 DEF InOrder, GateOf
  <2>5. QED
    BY <2>3, <2>4
<1>5. ASSUME NEW d \in Drivers, CarryOut(d)
      PROVE  (\E a \in Approvals : Ordered!CarryOut(a)) \/ g' = g
  <2>1. PICK a \in Approvals : a = job[d]
    BY <1>5 DEF CarryOut
  <2>2. card[a] = "approved" /\ card' = card
    BY <1>5, <2>1 DEF CarryOut, Loaded, cards
  <2>3. PICK ran \in {0, 1} : executed' = [executed EXCEPT ![a] = @ + ran]
    BY <1>5, <2>1 DEF CarryOut
  <2>4. CASE ran = 0
    <3>1. executed' = executed
      BY <2>3, <2>4
    <3>2. QED
      BY <1>1, <2>2, <3>1
  <2>5. CASE ran = 1 /\ executed[a] = 0
    <3>1. executed'[a] = 1
      BY <2>3, <2>5
    <3>2. InOrder(a) = "released" /\ InOrder(a)' = "carried_out"
      BY <2>2, <2>5, <3>1 DEF InOrder, GateOf
    <3>3. Ordered!CarryOut(a)
      BY <1>0, <2>2, <2>3, <3>2 DEF Ordered!CarryOut
    <3>4. QED
      BY <3>3
  <2>6. CASE ran = 1 /\ executed[a] > 0
    <3>1. executed'[a] > 0
      BY <2>3, <2>6
    <3>2. InOrder(a) = "carried_out" /\ InOrder(a)' = "carried_out"
      BY <2>2, <2>6, <3>1 DEF InOrder
    <3>3. \A b \in Approvals : b # a => InOrder(b)' = InOrder(b)
      BY <2>2, <2>3 DEF InOrder, GateOf
    <3>4. QED
      BY <3>2, <3>3
  <2>7. executed[a] = 0 \/ executed[a] > 0
    OBVIOUS
  <2>8. QED
    BY <2>3, <2>4, <2>5, <2>6, <2>7
<1>6. QED
  <2>1. CASE Next
    <3>1. \/ UNCHANGED <<card, executed>>
          \/ \E d \in Drivers, a \in Approvals : ParkForApproval(d, a)
          \/ \E d \in Drivers : CarryOut(d)
          \/ \E a \in Approvals : DeleteRejected(a) \/ \E v \in Decided : Decide(a, v)
      BY <2>1, TouchesTheGate
    <3>2. QED
      BY <1>1, <1>2, <1>3, <1>4, <1>5, <3>1 DEF Ordered!Next
  <2>2. CASE UNCHANGED vars
    BY <1>1, <2>2 DEF vars, cards
  <2>3. QED
    BY <2>1, <2>2

\* However many deliveries overlap, each gated call takes the road of the gate in its order:
\* asked about first, decided once, carried out only after it was released.  Repetition is
\* all they can add to it (see ExecutedOncePerResumer).
THEOREM ImplementsGateInOrder == Spec => Ordered!Spec
<1>1. Init => Ordered!Init
  BY DEF Init, Ordered!Init, InOrder, GateOf
<1>2. SafeInv /\ [Next]_vars => [Ordered!Next]_([a \in Approvals |-> InOrder(a)])
  BY OrderedStep
<1>3. QED
  BY <1>1, <1>2, SafeInvariant, PTL DEF Spec, Ordered!Spec

-----------------------------------------------------------------------------
(* One delivery at a time *)

LEMMA SingleStep ==
  ASSUME SingleConsumer, SafeInv, SingleInv, [Next]_vars
  PROVE  SingleInv'
<1>0. SafeInv'
  BY SafeStep
<1> USE ConstantsOK DEF SingleConsumer, SingleInv, OnceOnly, SafeInv, Shape, TypeOK, Drivers, Live,
        RunStates, Terminal, Decided, PCs, Occupancy, OneDriver,
        cards, local, Goto, Settling, Stepped, Leave, Rethrow, Fault
<1>1. ASSUME NEW r \in Runs, SkipRun(r) PROVE SingleInv'
  BY <1>1 DEF SkipRun
<1>2. ASSUME NEW d \in Drivers, NEW r \in Runs, OpenRun(d, r) PROVE SingleInv'
  BY <1>2 DEF OpenRun
<1>3. ASSUME NEW d \in Drivers, NEW a \in Approvals, Fetch(d, a) PROVE SingleInv'
  BY <1>3 DEF Fetch
<1>4. ASSUME NEW d \in Drivers, Answer(d) PROVE SingleInv'
  BY <1>4 DEF Answer, TurnsLeft
<1>5. ASSUME NEW d \in Drivers, CallTools(d) PROVE SingleInv'
  BY <1>5 DEF CallTools, TurnsLeft
<1>6. ASSUME NEW d \in Drivers, OutOfTurns(d) PROVE SingleInv'
  BY <1>6 DEF OutOfTurns, TurnsLeft
<1>7. ASSUME NEW d \in Drivers, ToolsDone(d) PROVE SingleInv'
  BY <1>7 DEF ToolsDone
<1>8. ASSUME NEW d \in Drivers, NEW a \in Approvals, ParkForApproval(d, a) PROVE SingleInv'
  BY <1>8 DEF ParkForApproval
<1>9. ASSUME NEW d \in Drivers, Settle(d) PROVE SingleInv'
  BY <1>9 DEF Settle, Finishable, PendingAfter
<1>10. ASSUME NEW d \in Drivers, LoopThrows(d) PROVE SingleInv'
  BY <1>10 DEF LoopThrows
<1>11. ASSUME NEW d \in Drivers, Load(d) PROVE SingleInv'
  BY <1>11 DEF Load, Resumable
<1>12. ASSUME NEW d \in Drivers, LoadRefused(d) PROVE SingleInv'
  BY <1>12 DEF LoadRefused, Resumable
<1>13. ASSUME NEW d \in Drivers, Reopen(d) PROVE SingleInv'
  BY <1>13 DEF Reopen, Claimable
<1>14. ASSUME NEW d \in Drivers, ReopenLost(d) PROVE SingleInv'
  BY <1>14 DEF ReopenLost, Claimable
<1>15. ASSUME NEW d \in Drivers, CarryOut(d) PROVE SingleInv'
  BY <1>15 DEF CarryOut
<1>16. ASSUME NEW d \in Drivers, TellRejected(d) PROVE SingleInv'
  BY <1>16 DEF TellRejected
<1>17. ASSUME NEW d \in Drivers, Dies(d) PROVE SingleInv'
  BY <1>17 DEF Dies
<1>18. ASSUME NEW d \in Drivers, Expire(d) PROVE SingleInv'
  BY <1>18 DEF Expire
<1>19. ASSUME NEW a \in Approvals, Person(a) PROVE SingleInv'
  BY <1>19 DEF Person, Decide, Undecided, FastPath, DeleteRejected
<1>20. ASSUME Sweeps PROVE SingleInv'
  BY <1>20 DEF Sweeps, Redrive, GiveUp, FindStuck, Stranded, FailStuck, Finishable
<1>21. ASSUME Time PROVE SingleInv'
  BY <1>21 DEF Time, BecomesDue, BecomesLate, StillParked, GoQuiet
<1>22. CASE UNCHANGED vars
  BY <1>22 DEF vars
<1>23. QED
  BY <1>1, <1>2, <1>3, <1>4, <1>5, <1>6, <1>7, <1>8, <1>9, <1>10, <1>11,
     <1>12, <1>13, <1>14, <1>15, <1>16, <1>17, <1>18, <1>19, <1>20, <1>21,
     <1>22
     DEF Next, Loop, Resume

LEMMA SingleInvariant == ASSUME SingleConsumer PROVE Spec => []SingleInv
<1>1. Init => SingleInv
  BY DEF Init, SingleInv, OnceOnly
<1>2. SafeInv /\ SingleInv /\ [Next]_vars => SingleInv'
  BY SingleStep
<1>3. QED
  BY <1>1, <1>2, SafeInvariant, PTL DEF Spec

\* With one delivery at a time (the single worker replica of docs/DEPLOYMENT.md, a job that
\* does not outlive its expiry), an approved tool runs at most once.
THEOREM ExecutedOnce == SingleConsumer => (Spec => []OnceOnly)
<1> SUFFICES ASSUME SingleConsumer PROVE Spec => []OnceOnly
  OBVIOUS
<1>1. SingleInv => OnceOnly
  BY DEF SingleInv
<1>2. QED
  BY <1>1, SingleInvariant, PTL

\* ... and the run it claims is parked on the very call it carries out.
THEOREM ClaimBinds == SingleConsumer => (Spec => ClaimedForItsPark)
<1> SUFFICES ASSUME SingleConsumer PROVE Spec => ClaimedForItsPark
  OBVIOUS
<1>1. SingleInv =>
        [\A d \in Drivers : pc[d] = "loaded" /\ pc'[d] = "claimed"
           => pending[RunOf[job[d]]] = job[d]]_vars
  BY DEF SingleInv
<1>2. QED
  BY <1>1, SingleInvariant, PTL DEF ClaimedForItsPark

LEMMA GateStep ==
  ASSUME SingleConsumer, SafeInv, SingleInv, [Next]_vars
  PROVE  [Gate!Next]_([a \in Approvals |-> GateOf(a)])
<1> DEFINE g == [a \in Approvals |-> GateOf(a)]
<1> USE ConstantsOK DEF Decided, SafeInv, Shape, TypeOK, Drivers
<1>0. ASSUME NEW a \in Approvals, NEW from, NEW to,
             GateOf(a) = from, GateOf(a)' = to,
             \A b \in Approvals : b # a => card'[b] = card[b] /\ executed'[b] = executed[b]
      PROVE  Gate!Move(a, from, to)
  <2>1. \A b \in Approvals : b # a => g'[b] = g[b]
    BY <1>0 DEF GateOf
  <2>2. g' = [g EXCEPT ![a] = to]
    BY <1>0, <2>1
  <2>3. QED
    BY <1>0, <2>2 DEF Gate!Move
<1>1. ASSUME UNCHANGED <<card, executed>> PROVE g' = g
  BY <1>1 DEF GateOf
<1>2. ASSUME NEW d \in Drivers, NEW a \in Approvals, ParkForApproval(d, a) PROVE Gate!Ask(a)
  <2>1. card[a] = "none" /\ executed' = executed /\ card' = [card EXCEPT ![a] = "pending"]
    BY <1>2 DEF ParkForApproval
  <2>2. executed[a] = 0
    BY <2>1 DEF ReleasedBeforeExecuted
  <2>3. GateOf(a) = "unasked" /\ GateOf(a)' = "asked"
    BY <2>1, <2>2 DEF GateOf
  <2>4. QED
    BY <1>0, <2>1, <2>3 DEF Gate!Ask
<1>3. ASSUME NEW a \in Approvals, NEW v \in Decided, Decide(a, v)
      PROVE  Gate!Release(a) \/ Gate!Refuse(a)
  <2>1. card[a] = "pending" /\ executed' = executed /\ card' = [card EXCEPT ![a] = v]
    BY <1>3 DEF Decide, Undecided
  <2>2. executed[a] = 0
    BY <2>1 DEF ReleasedBeforeExecuted
  <2>3. GateOf(a) = "asked" /\ GateOf(a)' = (IF v = "approved" THEN "released" ELSE "refused")
    BY <2>1, <2>2 DEF GateOf
  <2>4. QED
    BY <1>0, <2>1, <2>3 DEF Gate!Release, Gate!Refuse
<1>4. ASSUME NEW a \in Approvals, DeleteRejected(a) PROVE g' = g
  <2>1. card[a] = "rejected" /\ executed' = executed /\ card' = [card EXCEPT ![a] = "deleted"]
    BY <1>4 DEF DeleteRejected
  <2>2. executed[a] = 0
    BY <2>1 DEF ReleasedBeforeExecuted
  <2>3. GateOf(a) = "refused" /\ GateOf(a)' = "refused"
    BY <2>1, <2>2 DEF GateOf
  <2>4. \A b \in Approvals : b # a => GateOf(b)' = GateOf(b)
    BY <2>1 DEF GateOf
  <2>5. QED
    BY <2>3, <2>4
<1>5. ASSUME NEW d \in Drivers, CarryOut(d)
      PROVE  (\E a \in Approvals : Gate!CarryOut(a)) \/ g' = g
  <2>1. PICK a \in Approvals : a = job[d]
    BY <1>5 DEF CarryOut
  <2>2. card[a] = "approved" /\ executed[a] = 0 /\ card' = card
    BY <1>5, <2>1 DEF CarryOut, SingleInv, Loaded, cards
  <2>3. PICK ran \in {0, 1} : executed' = [executed EXCEPT ![a] = @ + ran]
    BY <1>5, <2>1 DEF CarryOut
  <2>4. CASE ran = 0
    <3>1. executed' = executed
      BY <2>3, <2>4
    <3>2. QED
      BY <1>1, <2>2, <3>1
  <2>5. CASE ran = 1
    <3>1. executed'[a] = 1
      BY <2>2, <2>3, <2>5
    <3>2. GateOf(a) = "released" /\ GateOf(a)' = "carried_out"
      BY <2>2, <3>1 DEF GateOf
    <3>3. Gate!CarryOut(a)
      BY <1>0, <2>2, <2>3, <3>2 DEF Gate!CarryOut
    <3>4. QED
      BY <3>3
  <2>6. QED
    BY <2>3, <2>4, <2>5
<1>6. QED
  <2>1. CASE Next
    <3>1. \/ UNCHANGED <<card, executed>>
          \/ \E d \in Drivers, a \in Approvals : ParkForApproval(d, a)
          \/ \E d \in Drivers : CarryOut(d)
          \/ \E a \in Approvals : DeleteRejected(a) \/ \E v \in Decided : Decide(a, v)
      BY <2>1, TouchesTheGate
    <3>2. QED
      BY <1>1, <1>2, <1>3, <1>4, <1>5, <3>1 DEF Gate!Next
  <2>2. CASE UNCHANGED vars
    BY <1>1, <2>2 DEF vars, cards
  <2>3. QED
    BY <2>1, <2>2

\* With one delivery at a time, runs, deliveries and sweeps implement the gate: every call
\* is asked about, decided once, and carried out at most once and only if released.
THEOREM ImplementsGate == SingleConsumer => (Spec => GateSpec)
<1> SUFFICES ASSUME SingleConsumer PROVE Spec => GateSpec
  OBVIOUS
<1>1. Init => Gate!Init
  BY DEF Init, Gate!Init, GateOf
<1>2. SafeInv /\ SingleInv /\ [Next]_vars => [Gate!Next]_([a \in Approvals |-> GateOf(a)])
  BY GateStep
<1>3. QED
  BY <1>1, <1>2, SafeInvariant, SingleInvariant, PTL DEF Spec, GateSpec, Gate!Spec
=============================================================================
