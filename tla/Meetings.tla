------------------------------ MODULE Meetings ------------------------------
(***************************************************************************)
(* The calls guests book in one host's diary.  The video provider is       *)
(* outside the database: every operation talks to it first and writes the  *)
(* row afterwards.  A booking is known by the request that makes it.       *)
(*                                                                         *)
(* Time is a count of slots; slot t starts when the clock reaches t.       *)
(***************************************************************************)
EXTENDS Naturals

CONSTANTS
  Calls,      \* bookings, each the request that makes it
  Requests,   \* requests of a guest or of staff that change one of them
  Sweeps,     \* reminder sweeps that may be alive at once
  LastSlot,   \* the slots are 1..LastSlot
  Horizon,    \* the clock stops here
  Buffer,     \* slots kept free around a call
  Notice,     \* how many slots ahead a reminder goes out
  None

ConstantsOK ==
  /\ Calls \cap Requests = {} /\ Calls \cap Sweeps = {} /\ Requests \cap Sweeps = {}
  /\ {LastSlot, Horizon, Buffer, Notice} \subseteq Nat
  /\ None \notin Calls \cup {"live", "cancelled", "over"}

VARIABLES
  now,        \* the clock
  status,     \* meetings.status, None before the row exists; "live" is scheduled or
              \* rescheduled, "over" is completed or a no-show
  startsAt,   \* meetings.startsAt
  hosted,     \* the time the provider holds the call at, None without one
  stamped,    \* metadata.reminded24hAt; the other two stamps are claimed alike
  reminders,  \* reminders sent since the call was last put at a time
  at,         \* where each request and sweep is
  held,       \* the call and the time it works on
  crossed,    \* calls on which a process died, or two requests were at work at once (history)
  outrun      \* other calls whose last move lost its time to another call (history)

diary == <<status, startsAt>>
history == <<crossed, outrun>>
vars  == <<now, diary, hosted, stamped, reminders, at, held, history>>

Slots    == 1..LastSlot
Actors   == Calls \cup Requests \cup Sweeps
NoWork   == [call |-> None, time |-> None]

Init ==
  /\ now = 0
  /\ status = [c \in Calls |-> None] /\ startsAt = [c \in Calls |-> None]
  /\ hosted = [c \in Calls |-> None]
  /\ stamped = [c \in Calls |-> FALSE] /\ reminders = [c \in Calls |-> 0]
  /\ at = [p \in Actors |-> "idle"] /\ held = [p \in Actors |-> NoWork]
  /\ outrun = {} /\ crossed = {}

Goto(p, place, call, time) ==
  /\ at' = [at EXCEPT ![p] = place]
  /\ held' = [held EXCEPT ![p] = [call |-> call, time |-> time]]

Leave(p) == Goto(p, "idle", None, None)

\* A request starts on a call: two at once is what nothing in the code excludes.
AtWork(c) == \E r \in Requests : held[r].call = c
Start(r, place, c, s) ==
  /\ Goto(r, place, c, s)
  /\ crossed' = IF AtWork(c) THEN crossed \cup {c} ELSE crossed
  /\ outrun' = outrun \ crossed'

Tick ==
  /\ now < Horizon /\ now' = now + 1
  /\ UNCHANGED <<diary, hosted, stamped, reminders, at, held, history>>

-----------------------------------------------------------------------------
(* Slots *)

Near(s, t) == s <= t + Buffer /\ t <= s + Buffer

\* isSlotAvailable for a call that is booked, or for one that moves and does not block itself.
Available(s, c) ==
  /\ now < s
  /\ \A d \in Calls \ {c} : status[d] = "live" => ~Near(s, startsAt[d])

\* meetings_host_live_slot, the unique index, knows equal starts only.
NeverTaken(s, c) == FALSE                                               \* mutant
Taken(s, c) == \E d \in Calls \ {c} : status[d] = "live" /\ startsAt[d] = s

-----------------------------------------------------------------------------
(* bookMeeting *)

\* The slot is looked up and the provider asked, outside any transaction.
BeginBooking(c, s) ==
  /\ at[c] = "idle" /\ status[c] = None /\ hosted[c] = None
  /\ Available(s, c)
  /\ hosted' = [hosted EXCEPT ![c] = s]
  /\ Goto(c, "booking", c, s)
  /\ UNCHANGED <<now, diary, stamped, reminders, history>>

KeepsHosted(c) == hosted                                                \* mutant
GivesBack(c) == [hosted EXCEPT ![c] = None]

\* Whoever comes second to a slot takes its provider meeting away again.
CommitBooking(c) ==
  /\ at[c] = "booking"
  /\ IF Taken(held[c].time, c)
     THEN /\ hosted' = GivesBack(c)
          /\ UNCHANGED diary
     ELSE /\ status' = [status EXCEPT ![c] = "live"]
          /\ startsAt' = [startsAt EXCEPT ![c] = held[c].time]
          /\ UNCHANGED hosted
  /\ Leave(c)
  /\ UNCHANGED <<now, stamped, reminders, history>>

-----------------------------------------------------------------------------
(* rescheduleMeeting, cancelMeeting, markMeetingOutcome: a row read first, written by id *)

ReadToMove(r, c, s) ==
  /\ at[r] = "idle" /\ status[c] = "live" /\ Available(s, c)
  /\ Start(r, "moving_call", c, s)
  /\ UNCHANGED <<now, diary, hosted, stamped, reminders>>

\* The provider refuses a call it no longer has.
MoveHosted(r) ==
  /\ at[r] = "moving_call"
  /\ IF hosted[held[r].call] = None
     THEN Leave(r) /\ UNCHANGED hosted
     ELSE /\ hosted' = [hosted EXCEPT ![held[r].call] = held[r].time]
          /\ Goto(r, "moving_row", held[r].call, held[r].time)
  /\ UNCHANGED <<now, diary, stamped, reminders, history>>

\* A time lost to another call leaves the row as it was, and the provider moved.
MoveRow(r) ==
  /\ at[r] = "moving_row"
  /\ LET c == held[r].call
         s == held[r].time
     IN IF Taken(s, c)
        THEN /\ outrun' = outrun \cup ({c} \ crossed)
             /\ UNCHANGED <<diary, stamped, reminders>>
        ELSE /\ status' = [status EXCEPT ![c] = "live"]
             /\ startsAt' = [startsAt EXCEPT ![c] = s]
             /\ stamped' = [stamped EXCEPT ![c] = FALSE]
             /\ reminders' = [reminders EXCEPT ![c] = 0]
             /\ outrun' = outrun \ {c}
  /\ Leave(r)
  /\ UNCHANGED <<now, hosted, crossed>>

\* Deleting at the provider is best effort.
ReadToCancel(r, c) ==
  /\ at[r] = "idle" /\ status[c] = "live"
  /\ hosted' \in {hosted, [hosted EXCEPT ![c] = None]}
  /\ Start(r, "cancelling", c, None)
  /\ UNCHANGED <<now, diary, stamped, reminders>>

CancelRow(r) ==
  /\ at[r] = "cancelling"
  /\ status' = [status EXCEPT ![held[r].call] = "cancelled"]
  /\ Leave(r)
  /\ UNCHANGED <<now, startsAt, hosted, stamped, reminders, history>>

ReadToMark(r, c) ==
  /\ at[r] = "idle" /\ status[c] \notin {None, "cancelled"}
  /\ Start(r, "marking", c, None)
  /\ UNCHANGED <<now, diary, hosted, stamped, reminders>>

MarkRow(r) ==
  /\ at[r] = "marking"
  /\ status' = [status EXCEPT ![held[r].call] = "over"]
  /\ Leave(r)
  /\ UNCHANGED <<now, startsAt, hosted, stamped, reminders, history>>

-----------------------------------------------------------------------------
(* sendMeetingReminders: candidates are listed, and claimed one by one later *)

DueForReminder(c) ==
  /\ status[c] = "live" /\ ~stamped[c]
  /\ now < startsAt[c] /\ startsAt[c] <= now + Notice

ListReminder(w, c) ==
  /\ at[w] = "idle" /\ DueForReminder(c)
  /\ Goto(w, "reminding", c, None)
  /\ UNCHANGED <<now, diary, hosted, stamped, reminders, history>>

Unclaimed(c) == ~stamped[c]

\* claimStamp asks for the stamp alone, in the transaction that queues the mail.
Remind(w) ==
  /\ at[w] = "reminding"
  /\ LET c == held[w].call
     IN /\ stamped' = [stamped EXCEPT ![c] = TRUE]
        /\ reminders' = IF Unclaimed(c) THEN [reminders EXCEPT ![c] = @ + 1] ELSE reminders
  /\ Leave(w)
  /\ UNCHANGED <<now, diary, hosted, history>>

\* A request fails or its process dies: what it asked of the provider stays there.
Dies(p) ==
  /\ at[p] # "idle"
  /\ Leave(p)
  /\ crossed' = IF p \in Sweeps THEN crossed ELSE crossed \cup {held[p].call}
  /\ outrun' = outrun \ crossed'
  /\ UNCHANGED <<now, diary, hosted, stamped, reminders>>

Next ==
  \/ \E c \in Calls : CommitBooking(c) \/ \E s \in Slots : BeginBooking(c, s)
  \/ \E r \in Requests :
       \/ MoveHosted(r) \/ MoveRow(r) \/ CancelRow(r) \/ MarkRow(r)
       \/ \E c \in Calls :
            \/ ReadToCancel(r, c) \/ ReadToMark(r, c)
            \/ \E s \in Slots : ReadToMove(r, c, s)
  \/ \E w \in Sweeps : Remind(w) \/ \E c \in Calls : ListReminder(w, c)
  \/ \E p \in Actors : Dies(p)
  \/ Tick

Spec == Init /\ [][Next]_vars

-----------------------------------------------------------------------------
TypeOK ==
  /\ now \in 0..Horizon
  /\ status \in [Calls -> {None, "live", "cancelled", "over"}]
  /\ startsAt \in [Calls -> Slots \cup {None}]
  /\ hosted \in [Calls -> Slots \cup {None}]
  /\ stamped \in [Calls -> BOOLEAN] /\ reminders \in [Calls -> Nat]
  /\ at \in [Actors -> {"idle", "booking", "moving_call", "moving_row", "cancelling",
                        "marking", "reminding"}]
  /\ held \in [Actors -> [call : Calls \cup {None}, time : Slots \cup {None}]]
  /\ outrun \in SUBSET Calls /\ crossed \in SUBSET Calls

\* Two guests never hold one slot, though each looked while it was free, one by booking, the
\* other by moving, and though a late move brings a cancelled call back (db meetings.ts: "the
\* database, not a read-then-insert, decides who got the slot").
OneCallPerSlot ==
  \A c, d \in Calls :
    c # d /\ status[c] = "live" /\ status[d] = "live" => startsAt[c] # startsAt[d]

\* Overlapping sweeps remind a guest once for each time the call was put at (reminders.ts:
\* "two ticks of the cron overlapping cannot both send").
RemindedOnce == \A c \in Calls : reminders[c] <= 1

\* Row and provider say the same of a call nobody is working on: it is held at the time the
\* row says, and a call that never got its row is not held (book.ts: "the provider meeting we
\* made for them is deleted").  A move that loses its time to another call leaves the provider
\* at that time, exactly until a later move goes through.  Otherwise only a process that died,
\* or two requests on one call at once, set them apart.
ProviderAgrees ==
  \A c \in Calls \ crossed :
    at[c] = "idle" /\ ~AtWork(c) =>
      /\ status[c] = "live" => (hosted[c] = startsAt[c] <=> c \notin outrun)
      /\ status[c] = None => hosted[c] = None
=============================================================================
