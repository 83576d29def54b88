------------------------------- MODULE Cases -------------------------------
(***************************************************************************)
(* One support conversation and the cases opened on it.  The client        *)
(* answers by email or in the portal; staff and the triage agent answer,   *)
(* close and hide cases.  Four transactions write the same two kinds of    *)
(* row, tickets and conversations, and only the two reply paths lock the   *)
(* ticket they read.                                                       *)
(*                                                                         *)
(* A step is one statement that another transaction can see or wait for.   *)
(***************************************************************************)
EXTENDS Naturals

CONSTANTS
  Tickets,     \* cases the conversation may have
  Mails,       \* emails of the client on this thread
  Deliveries,  \* calls of ingestInboundEmail
  Replies,     \* the client's answers in the portal, each a call of replyAsClient
  Staff,       \* requests of staff and of the triage agent
  Thread,      \* the conversation's row, as a thing to lock
  None

Processes == Deliveries \cup Replies \cup Staff
Rows      == Tickets \cup {Thread}

ConstantsOK ==
  /\ Deliveries \cap (Replies \cup Staff) = {} /\ Replies \cap (Staff \cup Mails) = {}
  /\ Thread \notin Tickets /\ None \notin Processes \cup Tickets

VARIABLES
  byMail,  \* conversations.participantEmail is set
  case,    \* tickets.status: "open" is any of open, triaged and in_progress, "closed" also
           \* resolved, "none" before the row exists
  shown,   \* tickets.clientVisible
  link,    \* conversations.ticketId
  came,    \* committed messages of the client
  lock,    \* who holds each row
  at,      \* where each process is
  on,      \* the case it works on, as it read it
  memo,    \* the email it files, or the status it writes and what it knew then
  heard,   \* what staff who last wrote the linked case's status knew (a history variable)
  missed   \* messages that met a close neither side had read about (a history variable)

tickets == <<case, shown>>
thread  == <<link, came>>
local   == <<at, on, memo>>
history == <<heard, missed>>
vars    == <<byMail, tickets, thread, lock, local, history>>

Statuses == {"open", "waiting", "closed"}

Init ==
  /\ byMail \in BOOLEAN
  /\ \E t \in Tickets :
       /\ link = t
       /\ case = [u \in Tickets |-> IF u = t THEN "open" ELSE "none"]
  /\ shown \in {[t \in Tickets |-> TRUE], [t \in Tickets |-> FALSE]}
  /\ came = {} /\ heard = {} /\ missed = {}
  /\ lock = [x \in Rows |-> None]
  /\ at = [p \in Processes |-> "idle"]
  /\ on = [p \in Processes |-> None] /\ memo = [p \in Processes |-> None]

Goto(p, place, t, m) ==
  /\ at' = [at EXCEPT ![p] = place]
  /\ on' = [on EXCEPT ![p] = t]
  /\ memo' = [memo EXCEPT ![p] = m]

Leave(p) == Goto(p, "idle", None, None)

\* FOR UPDATE, or an UPDATE, waits until nobody else holds the row; a commit lets go of all.
Free(x) == lock[x] = None
Unlocked(p) == [x \in Rows |-> IF lock[x] = p THEN None ELSE lock[x]]

-----------------------------------------------------------------------------
(* replyAsClient and replyToConversation *)

\* The conversation, and the case it links to, is read before the transaction.
ReadThread(p) ==
  /\ at[p] = "idle" /\ p \notin came
  /\ Goto(p, "locking", link, None)
  /\ UNCHANGED <<byMail, tickets, thread, lock, history>>

\* First the ticket and then the conversation, on both paths.
ClientThreadFirst(p) ==                                                 \* mutant
  IF p \in Replies THEN <<Thread, on[p]>> ELSE <<on[p], Thread>>
LockOrder(p) == <<on[p], Thread>>

\* What is delivered in the portal alone is refused on a case the client is not shown.
Refused(p) == ~shown[on[p]] /\ (p \in Replies \/ ~byMail)

LockCase(p) ==
  /\ at[p] = "locking" /\ Free(LockOrder(p)[1])
  /\ IF Refused(p)
     THEN Leave(p) /\ UNCHANGED lock
     ELSE /\ lock' = [lock EXCEPT ![LockOrder(p)[1]] = p]
          /\ Goto(p, "posting", on[p], None)
  /\ UNCHANGED <<byMail, tickets, thread, history>>

WaitingOnly(t) == case[t] = "waiting"                                   \* mutant
Reopens(t) == case[t] \in {"waiting", "closed"}

Post(r) ==
  /\ at[r] = "posting" /\ Free(LockOrder(r)[2])
  /\ came' = came \cup {r}
  /\ case' = IF Reopens(on[r]) THEN [case EXCEPT ![on[r]] = "open"] ELSE case
  /\ missed' = IF on[r] # link THEN missed \cup {r} ELSE missed
  /\ lock' = Unlocked(r)
  /\ Leave(r)
  /\ UNCHANGED <<byMail, shown, link, heard>>

\* An answer in the portal leaves the case waiting for the client; one by email does not.
Answer(s) ==
  /\ at[s] = "posting" /\ Free(LockOrder(s)[2])
  /\ case' = IF ~byMail /\ case[on[s]] = "open" THEN [case EXCEPT ![on[s]] = "waiting"] ELSE case
  /\ lock' = Unlocked(s)
  /\ Leave(s)
  /\ UNCHANGED <<byMail, shown, thread, history>>

-----------------------------------------------------------------------------
(* ingestInboundEmail *)

\* A stored message is a duplicate.  The candidate thread is read before anything is locked.
ReceiveMail(d, m) ==
  /\ byMail /\ at[d] = "idle" /\ m \notin came
  /\ Goto(d, "filing", link, m)
  /\ UNCHANGED <<byMail, tickets, thread, lock, history>>

\* The message goes in under its unique id, the conversation is updated, and the linked case
\* is read, without a lock.  Of two deliveries of one email the later one rolls back.
StoreMail(d) ==
  /\ at[d] = "filing" /\ Free(Thread)
  /\ IF memo[d] \in came
     THEN Leave(d) /\ UNCHANGED lock
     ELSE /\ lock' = [lock EXCEPT ![Thread] = d]
          /\ Goto(d, IF case[on[d]] = "closed" THEN "opening" ELSE "attaching", on[d], memo[d])
  /\ UNCHANGED <<byMail, tickets, thread, history>>

\* The mail joins the case that was read as live ...
Attach(d) ==
  /\ at[d] = "attaching"
  /\ came' = came \cup {memo[d]}
  /\ missed' = IF case[on[d]] = "closed" \/ on[d] # link THEN missed \cup {memo[d]} ELSE missed
  /\ lock' = Unlocked(d)
  /\ Leave(d)
  /\ UNCHANGED <<byMail, tickets, link, heard>>

\* ... or createTicketInTx opens a new one, which the client sees, and links it.
OpenCase(d, t) ==
  /\ at[d] = "opening" /\ case[t] = "none"
  /\ came' = came \cup {memo[d]}
  /\ case' = [case EXCEPT ![t] = "open"]
  /\ shown' = [shown EXCEPT ![t] = TRUE]
  /\ link' = t
  /\ lock' = Unlocked(d)
  /\ Leave(d)
  /\ UNCHANGED <<byMail, history>>

-----------------------------------------------------------------------------
(* updateTicket and setTicketClientVisibility *)

\* The ticket is read without a lock; an update that names no status writes back this one.
ReadCase(s, t, to) ==
  /\ at[s] = "idle" /\ case[t] # "none"
  /\ Goto(s, "updating", t, [to |-> to, knew |-> came])
  /\ UNCHANGED <<byMail, tickets, thread, lock, history>>

WriteCase(s) ==
  /\ at[s] = "updating" /\ Free(on[s])
  /\ case' = [case EXCEPT ![on[s]] = memo[s].to]
  /\ heard' = IF on[s] = link THEN memo[s].knew ELSE heard
  /\ missed' = IF on[s] = link /\ memo[s].to = "closed"
               THEN missed \cup (came \ memo[s].knew)
               ELSE missed
  /\ Leave(s)
  /\ UNCHANGED <<byMail, shown, thread, lock>>

SetVisibility(t) ==
  /\ case[t] # "none" /\ Free(t)
  /\ shown' = [shown EXCEPT ![t] = ~@]
  /\ UNCHANGED <<byMail, case, thread, lock, local, history>>

-----------------------------------------------------------------------------
\* A transaction fails or its process dies: it rolls back and lets go of its rows.
Dies(p) ==
  /\ at[p] # "idle"
  /\ lock' = Unlocked(p)
  /\ Leave(p)
  /\ UNCHANGED <<byMail, tickets, thread, history>>

Ingest(d) ==
  \/ \E m \in Mails : ReceiveMail(d, m)
  \/ StoreMail(d) \/ Attach(d)
  \/ \E t \in Tickets : OpenCase(d, t)

Work(s) ==
  \/ Answer(s) \/ WriteCase(s)
  \/ \E t \in Tickets, to \in Statuses : ReadCase(s, t, to)

Next ==
  \/ \E p \in Replies \cup Staff : ReadThread(p) \/ LockCase(p)
  \/ \E r \in Replies : Post(r)
  \/ \E s \in Staff : Work(s)
  \/ \E d \in Deliveries : Ingest(d)
  \/ \E t \in Tickets : SetVisibility(t)
  \/ \E p \in Processes : Dies(p)

Spec == Init /\ [][Next]_vars

-----------------------------------------------------------------------------
Update == [to : Statuses, knew : SUBSET (Mails \cup Replies)]

TypeOK ==
  /\ byMail \in BOOLEAN
  /\ case \in [Tickets -> Statuses \cup {"none"}] /\ shown \in [Tickets -> BOOLEAN]
  /\ link \in Tickets
  /\ came \subseteq Mails \cup Replies /\ heard \subseteq Mails \cup Replies
  /\ lock \in [Rows -> Processes \cup {None}]
  /\ at \in [Processes -> {"idle", "locking", "posting", "filing", "attaching", "opening",
                           "updating"}]
  /\ on \in [Processes -> Tickets \cup {None}]
  /\ memo \in [Processes -> Mails \cup Update \cup {None}]
  /\ missed \subseteq Mails \cup Replies

\* A client who writes is not left on a closed case: whatever road a message took, the linked
\* case is live, or was closed by somebody who had read the message.  What breaks this, for
\* that message alone, is that it met a close and neither had read about the other, on rows
\* that were not locked; what comes before and after it is heard (reply-as-client.ts: "A reply
\* nobody is told about is the failure this whole function exists to prevent").
ClientHeard == case[link] = "closed" => came \subseteq heard \cup missed

\* The row a process waits for, None when it waits for nothing.
Wanted(p) ==
  CASE at[p] = "locking"  -> LockOrder(p)[1]
    [] at[p] = "posting"  -> LockOrder(p)[2]
    [] at[p] = "filing"   -> Thread
    [] at[p] = "updating" -> on[p]
    [] OTHER -> None

WaitsFor(p, q) == Wanted(p) # None /\ lock[Wanted(p)] = q

\* The transactions of one case (staff answers, client answers, emails, updates) never wait
\* for each other in a circle, of any length (reply-as-client.ts: "cannot deadlock (`40P01`)").
NoLockCycle ==
  \A S \in SUBSET Processes : (\A p \in S : \E q \in S : WaitsFor(p, q)) => S = {}

\* A reply that was allowed goes out on a case the client is still shown when it commits
\* (reply-as-client.ts: "so it holds against a concurrent hide").
ShownWhenPosted ==
  \A p \in Replies \cup Staff :
    at[p] = "posting" /\ (p \in Replies \/ ~byMail) => shown[on[p]]
=============================================================================
