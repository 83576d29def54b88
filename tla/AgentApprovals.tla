--------------------------- MODULE AgentApprovals ---------------------------
(***************************************************************************)
(* The agent kernel and the resume contract around it: runs of the         *)
(* LLM <-> tool loop that park on a gated tool call, the human decision,   *)
(* the agent.resume deliveries that carry it out, and the two sweeps that  *)
(* re-drive lost deliveries and close runs whose driver died.              *)
(*                                                                         *)
(* The approvals and agent_runs rows are shared; every action below is one *)
(* statement (or one await) of a handler, so handlers interleave wherever  *)
(* the code awaits.                                                        *)
(***************************************************************************)
EXTENDS Naturals, FiniteSets

CONSTANTS
  Runs,          \* agent_runs rows that may be opened
  Approvals,     \* approvals rows, one per gated tool_use
  RunOf,         \* the run whose tool_use an approval is about (approvals.run_id)
  Runners,       \* agent.run handler invocations that may be alive at once
  Resumers,      \* agent.resume handler invocations that may be alive at once
  Unregistered,  \* approvals whose tool is no longer registered on the agent
  MaxTurns,      \* AgentDefinition.maxTurns
  MaxFaults,     \* bound: throws, process deaths and job expiries in a behaviour
  None           \* no run, no approval

ASSUME ConstantsOK ==
  /\ RunOf \in [Approvals -> Runs]
  /\ Runners \cap Resumers = {}
  /\ Unregistered \subseteq Approvals
  /\ MaxTurns \in Nat \ {0}
  /\ MaxFaults \in Nat
  /\ None \notin Runs \cup Approvals

VARIABLES
  status,     \* agent_runs.status; "none" before the row exists
  pending,    \* agent_runs.metadata.pending.awaitingToolUseId, as the approval it is bound to
  quiet,      \* running runs with no step and no claim in the last RUN_STUCK_AFTER_MS
  card,       \* approvals.status; "none" before the row exists, "deleted" after
  age,        \* how old a decision is, against the two edges of the sweep's window
  announced,  \* approvals.metadata.resumeGiveUpNotifiedAt is set
  executed,   \* how often the approved tool ran (a history variable)
  web,        \* decisions committed by a request that has not yet enqueued the resume
  queued,     \* agent.resume jobs waiting, by their singleton key resume:<approvalId>
  suspects,   \* runs the stuck sweep has read as stranded and not yet written
  pc,         \* where each handler invocation is
  on,         \* the run a handler has opened or claimed
  job,        \* the approval an agent.resume delivery carries
  verdict,    \* the decision loadParked read
  outcome,    \* the status settle is about to write
  asks,       \* the approval a parking driver inserted
  turns,      \* turns used in this entry of runLoop
  faults      \* faults so far, for the bound

cards   == <<card, age, announced, web>>
local   == <<on, job, verdict, outcome, asks, turns>>
vars    == <<status, pending, quiet, executed, queued, suspects, pc, faults, cards, local>>

Drivers   == Runners \cup Resumers
Decided   == {"approved", "rejected"}
Terminal  == {"completed", "failed", "skipped"}
RunStates == {"none", "running", "awaiting_approval"} \cup Terminal
PCs       == {"idle", "fetched", "loaded", "claimed", "llm", "tools", "settling"}

\* The handler is inside the run: it opened or claimed it and will write its outcome.
Live(d) == pc[d] \in {"claimed", "llm", "tools", "settling"}

-----------------------------------------------------------------------------
Init ==
  /\ status = [r \in Runs |-> "none"]
  /\ pending = [r \in Runs |-> None]
  /\ quiet = {} /\ suspects = {} /\ announced = {} /\ web = {} /\ queued = {}
  /\ card = [a \in Approvals |-> "none"]
  /\ age = [a \in Approvals |-> "fresh"]
  /\ executed = [a \in Approvals |-> 0]
  /\ pc = [d \in Drivers |-> "idle"]
  /\ on = [d \in Drivers |-> None]
  /\ job = [d \in Drivers |-> None]
  /\ verdict = [d \in Drivers |-> "none"]
  /\ outcome = [d \in Drivers |-> "none"]
  /\ asks = [d \in Drivers |-> None]
  /\ turns = [d \in Drivers |-> 0]
  /\ faults = 0

Goto(d, l) == pc' = [pc EXCEPT ![d] = l]

\* The handler is over, by return or by death; its local variables are gone.
Leave(d) ==
  /\ Goto(d, "idle")
  /\ on' = [on EXCEPT ![d] = None]
  /\ job' = [job EXCEPT ![d] = None]
  /\ verdict' = [verdict EXCEPT ![d] = "none"]
  /\ outcome' = [outcome EXCEPT ![d] = "none"]
  /\ asks' = [asks EXCEPT ![d] = None]
  /\ turns' = [turns EXCEPT ![d] = 0]

\* A step row is written: the run is visibly working.
Stepped(d) == quiet' = quiet \ {on[d]}

Fault == faults < MaxFaults /\ faults' = faults + 1

-----------------------------------------------------------------------------
(* agent.run: handleAgentRun and RunRecorder.open *)

SkipRun(r) ==
  /\ status[r] = "none"
  /\ status' = [status EXCEPT ![r] = "skipped"]
  /\ UNCHANGED <<pending, quiet, executed, queued, suspects, pc, faults, cards, local>>

OpenRun(d, r) ==
  /\ d \in Runners /\ pc[d] = "idle"
  /\ status[r] = "none"
  /\ status' = [status EXCEPT ![r] = "running"]
  /\ on' = [on EXCEPT ![d] = r]
  /\ Goto(d, "llm")
  /\ UNCHANGED <<pending, quiet, executed, queued, suspects, faults, cards,
                 job, verdict, outcome, asks, turns>>

-----------------------------------------------------------------------------
(* runLoop, shared by first runs and resumed ones *)

Settling(d, o) ==
  /\ outcome' = [outcome EXCEPT ![d] = o]
  /\ Goto(d, "settling")

TurnsLeftOffByOne(d) == turns[d] <= MaxTurns      \* mutant
TurnsLeft(d) == turns[d] < MaxTurns

\* The model answers with text or refuses: completed or failed.
Answer(d) ==
  /\ pc[d] = "llm" /\ TurnsLeft(d)
  /\ \E o \in {"completed", "failed"} : Settling(d, o)
  /\ Stepped(d)
  /\ UNCHANGED <<status, pending, executed, queued, suspects, faults, cards,
                 on, job, verdict, asks, turns>>

\* The model asks for tools.
CallTools(d) ==
  /\ pc[d] = "llm" /\ TurnsLeft(d)
  /\ Goto(d, "tools")
  /\ Stepped(d)
  /\ UNCHANGED <<status, pending, executed, queued, suspects, faults, cards, local>>

OutOfTurns(d) ==
  /\ pc[d] = "llm" /\ ~TurnsLeft(d)
  /\ Settling(d, "failed")
  /\ UNCHANGED <<status, pending, quiet, executed, queued, suspects, faults, cards,
                 on, job, verdict, asks, turns>>

\* handleToolUses got through the batch with nothing to gate.
ToolsDone(d) ==
  /\ pc[d] = "tools"
  /\ turns' = [turns EXCEPT ![d] = @ + 1]
  /\ Goto(d, "llm")
  /\ Stepped(d)
  /\ UNCHANGED <<status, pending, executed, queued, suspects, faults, cards,
                 on, job, verdict, outcome, asks>>

\* parkForApproval: the approval is visible, and decidable, from here on, while
\* the run is still running.
ParkForApproval(d, a) ==
  /\ pc[d] = "tools"
  /\ RunOf[a] = on[d] /\ card[a] = "none"
  /\ card' = [card EXCEPT ![a] = "pending"]
  /\ asks' = [asks EXCEPT ![d] = a]
  /\ Settling(d, "awaiting_approval")
  /\ Stepped(d)
  /\ UNCHANGED <<status, pending, executed, queued, suspects, faults, age, announced, web,
                 on, job, verdict, turns>>

\* Anything thrown inside the loop, the database included, settles it as failed.
LoopThrows(d) ==
  /\ Fault
  /\ pc[d] \in {"llm", "tools"}
  /\ Settling(d, "failed")
  /\ UNCHANGED <<status, pending, quiet, executed, queued, suspects, cards,
                 on, job, verdict, asks, turns>>

\* RunRecorder.finish writes only over `running`.
FinishableAlways(r) == status[r] # "none"         \* mutant
Finishable(r) == status[r] = "running"

\* finish sets metadata.pending when it parks the run, and removes it otherwise.
PendingKept(d) ==                                 \* mutant
  IF pending[on[d]] = None THEN asks[d] ELSE pending[on[d]]
PendingAfter(d) == asks[d]

\* settle: the outcome is written, or dropped if the run was closed meanwhile.
Settle(d) ==
  /\ pc[d] = "settling"
  /\ IF Finishable(on[d])
     THEN /\ status' = [status EXCEPT ![on[d]] = outcome[d]]
          /\ pending' = [pending EXCEPT ![on[d]] = PendingAfter(d)]
          /\ quiet' = quiet \ {on[d]}
     ELSE UNCHANGED <<status, pending, quiet>>
  /\ Leave(d)
  /\ UNCHANGED <<executed, queued, suspects, faults, cards>>

-----------------------------------------------------------------------------
(* The decision: /approvals, decideApproval, the delete buttons *)

UndecidedUnchecked(a) == card[a] \in {"pending"} \cup Decided     \* mutant
Undecided(a) == card[a] = "pending"

Decide(a, v) ==
  /\ Undecided(a)
  /\ card' = [card EXCEPT ![a] = v]
  /\ age' = [age EXCEPT ![a] = "fresh"]
  /\ web' = web \cup {a}
  /\ UNCHANGED <<status, pending, quiet, executed, queued, suspects, pc, faults, announced, local>>

\* queueResume, the fast path: the job lands (or is deduped), or nothing does.
FastPath(a) ==
  /\ a \in web
  /\ web' = web \ {a}
  /\ queued' \in {queued, queued \cup {a}}
  /\ UNCHANGED <<status, pending, quiet, executed, suspects, pc, faults, card, age, announced, local>>

DeleteRejected(a) ==
  /\ card[a] = "rejected"
  /\ card' = [card EXCEPT ![a] = "deleted"]
  /\ UNCHANGED <<status, pending, quiet, executed, queued, suspects, pc, faults,
                 age, announced, web, local>>

-----------------------------------------------------------------------------
(* agent.resume: handleAgentResume and resumeAgent *)

\* The delivery throws: pg-boss retries the job, or has no retries left.
Rethrow(d) ==
  /\ Leave(d)
  /\ queued' \in {queued, queued \cup {job[d]}}

\* A delivery for a run that is not parked is a no-op.
Fetch(d, a) ==
  /\ d \in Resumers /\ pc[d] = "idle"
  /\ a \in queued
  /\ queued' = queued \ {a}
  /\ IF status[RunOf[a]] = "awaiting_approval"
     THEN Goto(d, "fetched") /\ job' = [job EXCEPT ![d] = a]
     ELSE UNCHANGED <<pc, job>>
  /\ UNCHANGED <<status, pending, quiet, executed, suspects, faults, cards,
                 on, verdict, outcome, asks, turns>>

\* loadParked accepts an approval only if it is decided and names the very
\* tool_use the run is waiting on.
ResumableAnywhere(a) == card[a] \in Decided /\ pending[RunOf[a]] # None   \* mutant
Resumable(a) == card[a] \in Decided /\ pending[RunOf[a]] = a

Load(d) ==
  /\ pc[d] = "fetched"
  /\ Resumable(job[d])
  /\ ~(card[job[d]] = "approved" /\ job[d] \in Unregistered)
  /\ verdict' = [verdict EXCEPT ![d] = card[job[d]]]
  /\ Goto(d, "loaded")
  /\ UNCHANGED <<status, pending, quiet, executed, queued, suspects, faults, cards,
                 on, job, outcome, asks, turns>>

LoadRefused(d) ==
  /\ pc[d] = "fetched"
  /\ \/ ~Resumable(job[d])
     \/ card[job[d]] = "approved" /\ job[d] \in Unregistered
  /\ Rethrow(d)
  /\ UNCHANGED <<status, pending, quiet, executed, suspects, faults, cards>>

\* RunRecorder.reopen claims the run in one conditional UPDATE.
ClaimableRunning(r) == status[r] \in {"awaiting_approval", "running"}     \* mutant
Claimable(r) == status[r] = "awaiting_approval"

Reopen(d) ==
  /\ pc[d] = "loaded"
  /\ Claimable(RunOf[job[d]])
  /\ status' = [status EXCEPT ![RunOf[job[d]]] = "running"]
  /\ on' = [on EXCEPT ![d] = RunOf[job[d]]]
  /\ quiet' = quiet \ {RunOf[job[d]]}
  /\ Goto(d, "claimed")
  /\ UNCHANGED <<pending, executed, queued, suspects, faults, cards,
                 job, verdict, outcome, asks, turns>>

ReopenLost(d) ==
  /\ pc[d] = "loaded"
  /\ ~Claimable(RunOf[job[d]])
  /\ Rethrow(d)
  /\ UNCHANGED <<status, pending, quiet, executed, suspects, faults, cards>>

\* executeApprovedTool: the tool runs, unless its stored input no longer parses.
CarryOut(d) ==
  /\ pc[d] = "claimed" /\ verdict[d] = "approved"
  /\ \E ran \in {0, 1} : executed' = [executed EXCEPT ![job[d]] = @ + ran]
  /\ Goto(d, "llm")
  /\ Stepped(d)
  /\ UNCHANGED <<status, pending, queued, suspects, faults, cards, local>>

\* A rejected call becomes a note for the model.
TellRejected(d) ==
  /\ pc[d] = "claimed" /\ verdict[d] # "approved"
  /\ Goto(d, "llm")
  /\ Stepped(d)
  /\ UNCHANGED <<status, pending, executed, queued, suspects, faults, cards, local>>

\* The worker is killed, or an error leaves the handler (settle is outside the reach of
\* the loop's catch, so its own failed write is one): nothing more is written.
\* pg-boss retries a resume; a retried agent.run opens a run of its own (OpenRun).
Dies(d) ==
  /\ Fault
  /\ pc[d] # "idle"
  /\ IF d \in Resumers THEN Rethrow(d) ELSE Leave(d) /\ UNCHANGED queued
  /\ UNCHANGED <<status, pending, quiet, executed, suspects, cards>>

\* The job expires and is delivered again while its handler is still at work.
Expire(d) ==
  /\ Fault
  /\ d \in Resumers /\ pc[d] # "idle"
  /\ queued' = queued \cup {job[d]}
  /\ UNCHANGED <<status, pending, quiet, executed, suspects, pc, cards, local>>

-----------------------------------------------------------------------------
(* Time.  The sweeps look at the age of a decision only while its run is parked on
   it, so that is when the model lets it grow. *)

\* The join both sweep queries share: decided, and its run still parked on it.
StillParked(a) ==
  /\ card[a] \in Decided
  /\ status[RunOf[a]] = "awaiting_approval"
  /\ pending[RunOf[a]] = a

\* RESUME_UNDELIVERED_AFTER_MS have passed since the decision ...
BecomesDue(a) ==
  /\ StillParked(a) /\ age[a] = "fresh"
  /\ age' = [age EXCEPT ![a] = "due"]
  /\ UNCHANGED <<status, pending, quiet, executed, queued, suspects, pc, faults,
                 card, announced, web, local>>

\* ... and RESUME_GIVE_UP_AFTER_MS.
BecomesLate(a) ==
  /\ StillParked(a) /\ age[a] = "due"
  /\ age' = [age EXCEPT ![a] = "late"]
  /\ UNCHANGED <<status, pending, quiet, executed, queued, suspects, pc, faults,
                 card, announced, web, local>>

\* RUN_STUCK_AFTER_MS have passed since the last step and the last claim.
GoQuiet(r) ==
  /\ status[r] = "running" /\ r \notin quiet
  /\ quiet' = quiet \cup {r}
  /\ UNCHANGED <<status, pending, executed, queued, suspects, pc, faults, cards, local>>

-----------------------------------------------------------------------------
(* approvals.resume-sweep and agent-runs.stuck-sweep *)

\* findUndeliveredResumes
UndeliveredApproved(a) == StillParked(a) /\ age[a] = "due" /\ card[a] = "approved"  \* mutant
Undelivered(a) == StillParked(a) /\ age[a] = "due"

Redrive(a) ==
  /\ Undelivered(a)
  /\ a \notin queued
  /\ queued' = queued \cup {a}
  /\ UNCHANGED <<status, pending, quiet, executed, suspects, pc, faults, cards, local>>

\* findGivenUpResumes
GivenUpApproved(a) ==                             \* mutant
  StillParked(a) /\ age[a] = "late" /\ a \notin announced /\ card[a] = "approved"
GivenUp(a) == StillParked(a) /\ age[a] = "late" /\ a \notin announced

GiveUp(a) ==
  /\ GivenUp(a)
  /\ announced' = announced \cup {a}
  /\ UNCHANGED <<status, pending, quiet, executed, queued, suspects, pc, faults,
                 card, age, web, local>>

\* findStuckRuns: the evidence is read here ...
StrandedResumes == {r \in quiet : status[r] = "running" /\ pending[r] # None}  \* mutant
Stranded == {r \in quiet : status[r] = "running"}

FindStuck ==
  /\ suspects = {}
  /\ suspects' = Stranded
  /\ suspects' # {}
  /\ UNCHANGED <<status, pending, quiet, executed, queued, pc, faults, cards, local>>

\* ... and acted on here, where only the status is asked again.
FailStuck(r) ==
  /\ r \in suspects
  /\ suspects' = suspects \ {r}
  /\ IF Finishable(r)
     THEN status' = [status EXCEPT ![r] = "failed"] /\ quiet' = quiet \ {r}
     ELSE UNCHANGED <<status, quiet>>
  /\ UNCHANGED <<pending, executed, queued, pc, faults, cards, local>>

-----------------------------------------------------------------------------
Loop(d) ==
  \/ Answer(d) \/ CallTools(d) \/ OutOfTurns(d) \/ ToolsDone(d)
  \/ \E a \in Approvals : ParkForApproval(d, a)
  \/ Settle(d)

Resume(d) ==
  \/ Load(d) \/ LoadRefused(d) \/ Reopen(d) \/ ReopenLost(d)
  \/ CarryOut(d) \/ TellRejected(d)

Person(a) ==
  \/ \E v \in Decided : Decide(a, v)
  \/ FastPath(a)
  \/ DeleteRejected(a)

Sweeps ==
  \/ \E a \in Approvals : Redrive(a) \/ GiveUp(a)
  \/ FindStuck
  \/ \E r \in Runs : FailStuck(r)

Time ==
  \/ \E a \in Approvals : BecomesDue(a) \/ BecomesLate(a)
  \/ \E r \in Runs : GoQuiet(r)

Next ==
  \/ \E r \in Runs : SkipRun(r)
  \/ \E d \in Drivers, r \in Runs : OpenRun(d, r)
  \/ \E d \in Drivers, a \in Approvals : Fetch(d, a)
  \/ \E d \in Drivers : Loop(d) \/ Resume(d) \/ LoopThrows(d) \/ Dies(d) \/ Expire(d)
  \/ \E a \in Approvals : Person(a)
  \/ Sweeps
  \/ Time

Spec == Init /\ [][Next]_vars
-----------------------------------------------------------------------------
(* Safety *)

TypeOK ==
  /\ status \in [Runs -> RunStates]
  /\ pending \in [Runs -> Approvals \cup {None}]
  /\ quiet \subseteq Runs /\ suspects \subseteq Runs
  /\ card \in [Approvals -> {"none", "pending", "deleted"} \cup Decided]
  /\ age \in [Approvals -> {"fresh", "due", "late"}]
  /\ executed \in [Approvals -> Nat]
  /\ announced \subseteq Approvals /\ web \subseteq Approvals /\ queued \subseteq Approvals
  /\ pc \in [Drivers -> PCs]
  /\ on \in [Drivers -> Runs \cup {None}]
  /\ job \in [Drivers -> Approvals \cup {None}]
  /\ verdict \in [Drivers -> {"none"} \cup Decided]
  /\ outcome \in [Drivers -> {"none", "completed", "failed", "awaiting_approval"}]
  /\ asks \in [Drivers -> Approvals \cup {None}]
  /\ turns \in [Drivers -> 0..MaxTurns]
  /\ faults \in 0..MaxFaults

\* However deliveries overlap, die or are repeated, a run has one driver at most,
\* so its steps are numbered by one recorder (agent_steps_run_seq never collides)
\* and nobody is inside a run that is parked or completed (run-recorder.ts, reopen
\* and finish).
OneDriver ==
  /\ \A d, e \in Drivers : Live(d) /\ Live(e) /\ on[d] = on[e] => d = e
  /\ \A d \in Drivers : Live(d) => status[on[d]] \in {"running", "failed"}

\* No gated tool runs unless a person released that very call, whatever is deleted,
\* re-decided or redelivered around it (decide-approval.ts, resume-agent.ts loadParked).
ReleasedBeforeExecuted ==
  \A a \in Approvals : executed[a] > 0 => card[a] = "approved"

\* What the sweep tells the owner when it gives up ("the action it authorised has not
\* happened", resume-sweep.ts givenUpBody), and what makes re-enqueueing harmless:
\* a run that is parked on a call has not carried it out.
ParkedNotExecuted ==
  \A a \in Approvals : StillParked(a) => executed[a] = 0

\* Execution is once-only (AGENT_FRAMEWORK.md, the resume contract).
OnceOnly == \A a \in Approvals : executed[a] <= 1

\* A run that was closed stays as it was closed: a delivery that comes back to life
\* never writes over the failure the owner was told of (run-recorder.ts finish).
TerminalStays ==
  [][\A r \in Runs : status[r] \in Terminal => status'[r] = status[r]]_vars

\* A claim is made for the approval the run is parked on, never for an earlier one,
\* so no later call loses its park to a spent decision (resume-agent.ts loadParked).
ClaimedForItsPark ==
  [][\A d \in Drivers : pc[d] = "loaded" /\ pc'[d] = "claimed"
        => pending[RunOf[job[d]]] = job[d]]_vars

\* The stuck sweep fails no run that has just recorded a step or been claimed
\* (resume-sweep.ts findStuckRuns: "a run that is visibly working ... is never eligible").
OnlyQuietRunsFailed ==
  [][\A r \in Runs : status[r] = "running" /\ status'[r] = "failed" /\ pc' = pc
        => r \in quiet]_vars

\* The states of the gate, as the rows and the history show them; a call that ran twice, or
\* without an approved card, is in none of them.
GateOf(a) ==
  CASE executed[a] = 0 /\ card[a] = "none" -> "unasked"
    [] executed[a] = 0 /\ card[a] = "pending" -> "asked"
    [] executed[a] = 0 /\ card[a] = "approved" -> "released"
    [] executed[a] = 0 /\ card[a] \in {"rejected", "deleted"} -> "refused"
    [] executed[a] = 1 /\ card[a] = "approved" -> "carried_out"
    [] OTHER -> "broken"

Gate == INSTANCE ApprovalGate WITH gate <- [a \in Approvals |-> GateOf(a)]

\* The kernel implements the gate: asked, decided once, executed once and only if released.
GateSpec == Gate!Spec

-----------------------------------------------------------------------------
(* Liveness *)

\* The worker runs what is queued, and its cron ticks. pg-boss fetches in order of
\* creation, so no job is passed over for ever. Nothing is assumed of people, of the
\* fast path, or of time running into the 24-hour edge.
ResumeTick(a) == BecomesDue(a) \/ Redrive(a) \/ GiveUp(a)

FairSpec ==
  /\ Spec
  /\ \A d \in Drivers : WF_vars(Loop(d) \/ Resume(d))
  /\ \A d \in Resumers, a \in Approvals : SF_vars(Fetch(d, a))
  /\ \A a \in Approvals : WF_vars(ResumeTick(a))
  /\ WF_vars(FindStuck)
  /\ \A r \in Runs : WF_vars(GoQuiet(r)) /\ WF_vars(FailStuck(r))

Deliverable(a) == ~(card[a] = "approved" /\ a \in Unregistered)

\* A decision that can be carried out reaches its run within the window, although the
\* fast path may be lost and deliveries may die (AGENT_FRAMEWORK.md: delivery is at
\* least once). A rejected card deleted in between is the exception; see ParkedIsAnswered.
DecisionDelivered ==
  \A a \in Approvals :
    StillParked(a) /\ Deliverable(a)
      ~> ~StillParked(a) \/ age[a] = "late"

\* A decision that outlives the window is announced, unless its run moves on after all.
GiveUpAnnounced ==
  \A a \in Approvals :
    StillParked(a) /\ age[a] = "late" ~> ~StillParked(a) \/ a \in announced

\* No run stays running for ever: its driver settles it, or the stuck sweep closes it.
RunsSettle ==
  \A r \in Runs : status[r] = "running" ~> status[r] # "running"

\* A decided call does not leave its run parked without anybody being told
\* (decide-approval.ts: the sweep "re-enqueues any decided approval whose run is still parked").
ParkedIsAnswered ==
  \A a \in Approvals :
    StillParked(a) ~> \/ ~(status[RunOf[a]] = "awaiting_approval" /\ pending[RunOf[a]] = a)
                      \/ a \in announced
=============================================================================
