-------------------------- MODULE OutboundMessages --------------------------
(***************************************************************************)
(* Outbound messages: the queued row, the outbound.message deliveries that *)
(* claim it under a lease and hand it to a mail server or an SMS gateway,  *)
(* the bookkeeping after the send, and the sweep that re-drives lost       *)
(* deliveries and announces what it gives up on.                           *)
(*                                                                         *)
(* A delivery holds a copy of the row's metadata from its claim to its     *)
(* last write, and writes that copy back; every action is one statement of *)
(* sendQueuedMessage or of the sweep.  Texts and emails take the same      *)
(* road; the model allows every message what either may meet.              *)
(***************************************************************************)
EXTENDS Naturals, FiniteSets

CONSTANTS
  Messages,     \* messages rows that may be written
  Senders,      \* outbound.message handler invocations that may be alive at once
  MaxAttempts,  \* MAX_SEND_ATTEMPTS
  MaxFaults,    \* bound: throws, process deaths and skipped texts in a behaviour
  None          \* no message

ASSUME ConstantsOK ==
  /\ IsFiniteSet(Senders)
  /\ MaxAttempts \in Nat \ {0}
  /\ MaxFaults \in Nat
  /\ None \notin Messages

VARIABLES
  status,    \* messages.status; "none" before the row exists
  lease,     \* metadata.claimedAt: absent, live, or older than CLAIM_TTL_MINUTES
  attempts,  \* metadata.attempts
  marks,     \* the announcement markers in metadata
  age,       \* how old the row is, against the two edges of the sweep's window
  raised,    \* rows whose message.queued event has not been turned into a job yet
  jobs,      \* outbound.message jobs waiting, by their singleton key outbound:<id>
  found,     \* what the sweep has read as given up and not yet announced
  pc,        \* where each delivery is
  on,        \* the message it has claimed
  snap,      \* the metadata its claim returned
  accepted,  \* how often the provider took the message (a history variable)
  slips,     \* sends whose bookkeeping failed, leases outlived by their holder
             \* (a history variable)
  spoken,    \* failures whose announcement was tried (a history variable)
  faults     \* faults so far, for the bound

row     == <<status, lease, attempts, marks>>
local   == <<pc, on, snap>>
history == <<accepted, slips, spoken>>
vars    == <<row, age, raised, jobs, found, local, history, faults>>

Markers == {"failure", "giveup"}
PCs     == {"idle", "claimed", "accepted", "recorded", "caught", "noted"}
NoSnap  == [attempts |-> 0, marks |-> {}]

\* The delivery has claimed the message and not yet written what came of it.
Holding(s, m) == on[s] = m /\ pc[s] \in {"claimed", "accepted", "caught"}

-----------------------------------------------------------------------------
Init ==
  /\ status = [m \in Messages |-> "none"]
  /\ lease = [m \in Messages |-> "free"]
  /\ attempts = [m \in Messages |-> 0]
  /\ marks = [m \in Messages |-> {}]
  /\ age = [m \in Messages |-> "fresh"]
  /\ raised = {} /\ jobs = {} /\ found = {} /\ spoken = {}
  /\ pc = [s \in Senders |-> "idle"]
  /\ on = [s \in Senders |-> None]
  /\ snap = [s \in Senders |-> NoSnap]
  /\ accepted = [m \in Messages |-> 0]
  /\ slips = [m \in Messages |-> 0]
  /\ faults = 0

Goto(s, l) == pc' = [pc EXCEPT ![s] = l]

Leave(s) ==
  /\ Goto(s, "idle")
  /\ on' = [on EXCEPT ![s] = None]
  /\ snap' = [snap EXCEPT ![s] = NoSnap]

\* The delivery throws: pg-boss retries the job, or has no retries left.
Rethrow(s) ==
  /\ Leave(s)
  /\ jobs' \in {jobs, jobs \cup {on[s]}}

Fault == faults < MaxFaults /\ faults' = faults + 1

Slip(m) == slips' = [slips EXCEPT ![m] = @ + 1]

\* patchMessage writes the status and the whole metadata column, the claim removed,
\* over whatever the row holds by now.
Patch(m, st, n, ms) ==
  /\ status' = [status EXCEPT ![m] = st]
  /\ lease' = [lease EXCEPT ![m] = "free"]
  /\ attempts' = [attempts EXCEPT ![m] = n]
  /\ marks' = [marks EXCEPT ![m] = ms]

-----------------------------------------------------------------------------
(* The row, and the job that follows it *)

\* replyToConversation commits the row ...
Queue(m) ==
  /\ status[m] = "none"
  /\ status' = [status EXCEPT ![m] = "queued"]
  /\ raised' = raised \cup {m}
  /\ UNCHANGED <<lease, attempts, marks, age, jobs, found, local, history, faults>>

\* ... and emits message.queued, which becomes a job or is lost.
Enqueue(m) ==
  /\ m \in raised
  /\ raised' = raised \ {m}
  /\ jobs' \in {jobs, jobs \cup {m}}
  /\ UNCHANGED <<row, age, found, local, history, faults>>

-----------------------------------------------------------------------------
(* outbound.message: sendQueuedMessage, sendQueuedSms *)

ClaimableAnyStatus(m) == status[m] # "none" /\ lease[m] # "live"       \* mutant
Claimable(m) == status[m] = "queued" /\ lease[m] # "live"

\* One UPDATE takes the lease and returns the row; a message that cannot be claimed
\* ends the job quietly.
Deliver(s, m) ==
  /\ pc[s] = "idle"
  /\ m \in jobs
  /\ jobs' = jobs \ {m}
  /\ IF Claimable(m)
     THEN /\ lease' = [lease EXCEPT ![m] = "live"]
          /\ on' = [on EXCEPT ![s] = m]
          /\ snap' = [snap EXCEPT ![s] = [attempts |-> attempts[m], marks |-> marks[m]]]
          /\ Goto(s, "claimed")
     ELSE UNCHANGED <<lease, local>>
  /\ UNCHANGED <<status, attempts, marks, age, raised, found, history, faults>>

\* The conversation cannot be read: this is outside the try, so the lease stays.
BrokenThread(s) ==
  /\ Fault
  /\ pc[s] = "claimed"
  /\ Rethrow(s)
  /\ UNCHANGED <<row, age, raised, found, history>>

\* The provider takes the message ...
Accept(s) ==
  /\ pc[s] = "claimed"
  /\ accepted' = [accepted EXCEPT ![on[s]] = @ + 1]
  /\ Goto(s, "accepted")
  /\ UNCHANGED <<row, age, raised, jobs, found, on, snap, slips, spoken, faults>>

\* ... or refuses it ...
Refuse(s) ==
  /\ pc[s] = "claimed"
  /\ Goto(s, "caught")
  /\ UNCHANGED <<row, age, raised, jobs, found, on, snap, history, faults>>

\* ... or, for a text with no gateway configured, reports that nothing was delivered.
SkipSend(s) ==
  /\ Fault
  /\ pc[s] = "claimed"
  /\ Patch(on[s], "queued", snap[s].attempts, snap[s].marks)
  /\ Goto(s, "recorded")
  /\ UNCHANGED <<age, raised, jobs, found, on, snap, history>>

RecordSent(s) ==
  /\ pc[s] = "accepted"
  /\ Patch(on[s], "sent", snap[s].attempts, snap[s].marks)
  /\ Goto(s, "recorded")
  /\ UNCHANGED <<age, raised, jobs, found, on, snap, history, faults>>

\* recordAudit: message.sent, or message.send_skipped.
AuditSent(s) ==
  /\ pc[s] = "recorded"
  /\ Leave(s)
  /\ UNCHANGED <<row, age, raised, jobs, found, history, faults>>

\* The write or the audit after the send throws, inside the same try as the send.
RecordThrows(s) ==
  /\ Fault
  /\ pc[s] \in {"accepted", "recorded"}
  /\ Goto(s, "caught")
  /\ Slip(on[s])
  /\ UNCHANGED <<row, age, raised, jobs, found, on, snap, accepted, spoken>>

ExhaustedOneLate(s) == snap[s].attempts + 1 > MaxAttempts             \* mutant
Exhausted(s) == snap[s].attempts + 1 >= MaxAttempts

\* The catch block counts the attempt and releases the claim.
RecordFailure(s) ==
  /\ pc[s] = "caught"
  /\ Patch(on[s], IF Exhausted(s) THEN "failed" ELSE "queued",
           snap[s].attempts + 1, snap[s].marks)
  /\ Goto(s, "noted")
  /\ UNCHANGED <<age, raised, jobs, found, on, snap, history, faults>>

RetryLater(s) ==
  /\ pc[s] = "noted" /\ ~Exhausted(s)
  /\ Rethrow(s)
  /\ UNCHANGED <<row, age, raised, found, history, faults>>

\* announceSendFailure is best effort: the marker is set, or a failure is logged.
Announce(s) ==
  /\ pc[s] = "noted" /\ Exhausted(s)
  /\ spoken' = spoken \cup {on[s]}
  /\ \/ "failure" \in snap[s].marks /\ UNCHANGED <<marks, faults>>
     \/ /\ "failure" \notin snap[s].marks
        /\ \/ marks' = [marks EXCEPT ![on[s]] = @ \cup {"failure"}] /\ UNCHANGED faults
           \/ Fault /\ UNCHANGED marks
  /\ Leave(s)
  /\ UNCHANGED <<status, lease, attempts, age, raised, jobs, found, accepted, slips>>

\* The worker is killed, or an error leaves the handler from inside its catch block
\* (the audit insert there is not guarded): nothing more is written.
Dies(s) ==
  /\ Fault
  /\ pc[s] # "idle"
  /\ IF pc[s] = "accepted" THEN Slip(on[s]) ELSE UNCHANGED slips
  /\ Rethrow(s)
  /\ UNCHANGED <<row, age, raised, found, accepted, spoken>>

-----------------------------------------------------------------------------
(* Time.  The sweep looks at the age of a row only while it is queued, so that is when
   the model lets it grow. *)

\* CLAIM_TTL_MINUTES have passed since the claim, the send perhaps still in flight.
Lapse(m) ==
  /\ lease[m] = "live"
  /\ lease' = [lease EXCEPT ![m] = "expired"]
  /\ IF \E s \in Senders : Holding(s, m) THEN Slip(m) ELSE UNCHANGED slips
  /\ UNCHANGED <<status, attempts, marks, age, raised, jobs, found, local,
                 accepted, spoken, faults>>

\* OUTBOUND_UNDELIVERED_AFTER_MS have passed since the row was written ...
BecomesDue(m) ==
  /\ status[m] = "queued" /\ age[m] = "fresh"
  /\ age' = [age EXCEPT ![m] = "due"]
  /\ UNCHANGED <<row, raised, jobs, found, local, history, faults>>

\* ... and OUTBOUND_GIVE_UP_AFTER_MS.
BecomesLate(m) ==
  /\ status[m] = "queued" /\ age[m] = "due"
  /\ age' = [age EXCEPT ![m] = "late"]
  /\ UNCHANGED <<row, raised, jobs, found, local, history, faults>>

-----------------------------------------------------------------------------
(* outbound.sweep *)

UndeliveredUntouched(m) ==                                            \* mutant
  status[m] = "queued" /\ age[m] = "due" /\ lease[m] = "free"
Undelivered(m) == status[m] = "queued" /\ age[m] = "due" /\ lease[m] # "live"

Redrive(m) ==
  /\ Undelivered(m)
  /\ m \notin jobs
  /\ jobs' = jobs \cup {m}
  /\ UNCHANGED <<row, age, raised, found, local, history, faults>>

GivenUpUntried(m) ==                                                  \* mutant
  /\ status[m] = "queued" /\ age[m] = "late" /\ lease[m] # "live"
  /\ "giveup" \notin marks[m] /\ attempts[m] = 0
GivenUp(m) ==
  /\ status[m] = "queued" /\ age[m] = "late" /\ lease[m] # "live"
  /\ "giveup" \notin marks[m]

\* findGivenUpMessages reads the rows ...
FindGivenUp ==
  /\ found = {}
  /\ found' = {m \in Messages : GivenUp(m)}
  /\ found' # {}
  /\ UNCHANGED <<row, age, raised, jobs, local, history, faults>>

\* ... and each is announced and marked, whatever has happened to it since.
TellGivenUp(m) ==
  /\ m \in found
  /\ found' = found \ {m}
  /\ marks' = [marks EXCEPT ![m] = @ \cup {"giveup"}]
  /\ UNCHANGED <<status, lease, attempts, age, raised, jobs, local, history, faults>>

-----------------------------------------------------------------------------
\* What the handler does next of itself.
Handle(s) ==
  \/ Accept(s) \/ Refuse(s) \/ RecordSent(s) \/ AuditSent(s)
  \/ RecordFailure(s) \/ RetryLater(s) \/ Announce(s)

Next ==
  \/ \E m \in Messages :
       \/ Queue(m) \/ Enqueue(m) \/ Lapse(m) \/ BecomesDue(m) \/ BecomesLate(m)
       \/ Redrive(m) \/ TellGivenUp(m)
  \/ \E s \in Senders, m \in Messages : Deliver(s, m)
  \/ \E s \in Senders :
       Handle(s) \/ BrokenThread(s) \/ SkipSend(s) \/ RecordThrows(s) \/ Dies(s)
  \/ FindGivenUp

Spec == Init /\ [][Next]_vars
-----------------------------------------------------------------------------
(* Safety *)

TypeOK ==
  /\ status \in [Messages -> {"none", "queued", "sent", "failed"}]
  /\ lease \in [Messages -> {"free", "live", "expired"}]
  /\ attempts \in [Messages -> 0..MaxAttempts]
  /\ marks \in [Messages -> SUBSET Markers]
  /\ age \in [Messages -> {"fresh", "due", "late"}]
  /\ raised \subseteq Messages /\ jobs \subseteq Messages
  /\ found \subseteq Messages /\ spoken \subseteq Messages
  /\ pc \in [Senders -> PCs]
  /\ on \in [Senders -> Messages \cup {None}]
  /\ snap \in [Senders -> [attempts : 0..MaxAttempts, marks : SUBSET Markers]]
  /\ accepted \in [Messages -> Nat]
  /\ slips \in [Messages -> Nat]
  /\ faults \in 0..MaxFaults

\* Every time a client receives a message again, there was a cause of its own: a send
\* that was taken and whose bookkeeping failed, or a lease its holder outlived.  Duplicate
\* jobs, retries, racing deliveries and crashes elsewhere never send twice
\* (send-queued-message.ts, claim).
DuplicatesExplained == \A m \in Messages : accepted[m] <= 1 + slips[m]

\* Short of such a cause a message that is sent or failed stays so: no late writer
\* takes it back (patchMessage is unconditional, so only the lease prevents it).
SettledStays ==
  [][\A m \in Messages : status[m] \in {"sent", "failed"} /\ slips[m] = 0
        => status'[m] = status[m]]_vars

\* A send that exhausts its attempts is announced, or the failure to announce it is
\* logged (ARCHITECTURE.md, "A send that exhausts its attempts is announced too").
FailedIsAnnounced ==
  \A m \in Messages :
    status[m] = "failed" => m \in spoken \/ \E s \in Senders : on[s] = m

\* A give-up is announced only about a message that is still queued and that nobody is
\* sending (outbound-sweep.ts, findGivenUpMessages: "the difference between an alert and
\* a false alarm").
NoFalseAlarm ==
  [][\A m \in Messages : m \in found /\ m \notin found'
        => status[m] = "queued" /\ lease[m] # "live"]_vars

-----------------------------------------------------------------------------
(* Liveness *)

\* The worker runs what is queued, its cron ticks and leases age.  Nothing is assumed of
\* the enqueue, of the provider, or of time running into the 24-hour edge.
FairSpec ==
  /\ Spec
  /\ \A s \in Senders : WF_vars(Handle(s))
  /\ \A s \in Senders, m \in Messages : SF_vars(Deliver(s, m))
  /\ \A m \in Messages : /\ WF_vars(Lapse(m))
                         /\ WF_vars(BecomesDue(m))
                         /\ WF_vars(Redrive(m))
                         /\ WF_vars(TellGivenUp(m))
  /\ WF_vars(FindGivenUp)

\* A queued message leaves the queue, sent or failed for good, within the window, although
\* its enqueue may be lost and workers may die holding its lease.
Delivered ==
  \A m \in Messages :
    status[m] = "queued" ~> status[m] \in {"sent", "failed"} \/ age[m] = "late"

\* What is still queued past the window is announced, unless it is sent after all.
LateAnnounced ==
  \A m \in Messages :
    status[m] = "queued" /\ age[m] = "late"
      ~> status[m] # "queued" \/ "giveup" \in marks[m]
=============================================================================
