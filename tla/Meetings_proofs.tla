-------------------------- MODULE Meetings_proofs --------------------------
(***************************************************************************)
(* Proofs about one host's diary, for any number of bookings, requests,    *)
(* sweeps, slots and clock.                                                *)
(***************************************************************************)
EXTENDS Meetings, TLAPS

\* Each kind of process is where its own code goes, and knows the call it works on there.
Places ==
  /\ \A c \in Calls :
       /\ at[c] \in {"idle", "booking"}
       /\ at[c] = "booking" => held[c].call = c /\ held[c].time \in Slots
  /\ \A r \in Requests :
       /\ at[r] \in {"idle", "moving_call", "moving_row", "cancelling", "marking"}
       /\ at[r] = "idle" => held[r].call = None
       /\ at[r] # "idle" => held[r].call \in Calls
       /\ at[r] \in {"moving_call", "moving_row"} => held[r].time \in Slots
  /\ \A w \in Sweeps :
       /\ at[w] \in {"idle", "reminding"}
       /\ at[w] = "reminding" => held[w].call \in Calls

\* A call without a stamp was not reminded since it was last put at a time.
StampCounts == \A c \in Calls : reminders[c] <= IF stamped[c] THEN 1 ELSE 0

\* Nobody works on a call whose row does not exist yet, no move of it was lost, and a booking
\* is for such a call.
RowFirst ==
  \A c \in Calls :
    /\ status[c] = None => ~AtWork(c) /\ c \notin outrun
    /\ at[c] = "booking" => status[c] = None

\* On a call nothing went wrong with, one request is at work at a time.
OneAtWork ==
  \A c \in Calls \ crossed : \A q, r \in Requests :
    held[q].call = c /\ held[r].call = c => q = r

\* Where row and provider differ while a request is at work, the last move was lost, or the
\* request holds the time the provider has, and is about to write it.
Meanwhile ==
  \A c \in Calls \ crossed :
    /\ at[c] = "booking" => hosted[c] = held[c].time
    /\ \A r \in Requests : held[r].call = c =>
         /\ at[r] \in {"moving_call", "marking"} /\ status[c] = "live" =>
              (hosted[c] = startsAt[c] <=> c \notin outrun)
         /\ at[r] = "moving_row" => hosted[c] = held[r].time

Safe == TypeOK /\ Places /\ OneCallPerSlot /\ StampCounts
Agree == RowFirst /\ OneAtWork /\ Meanwhile /\ ProviderAgrees
IInv == Safe /\ Agree

LEMMA MeetingsInit == ConstantsOK /\ Init => IInv
<1> SUFFICES ASSUME ConstantsOK, Init PROVE IInv
  OBVIOUS
<1> USE DEF ConstantsOK, Init, Actors, NoWork, Slots
<1>1. Safe
  BY DEF Safe, TypeOK, Places, OneCallPerSlot, StampCounts
<1>2. Agree
  BY DEF Agree, RowFirst, OneAtWork, Meanwhile, ProviderAgrees, AtWork
<1>3. QED
  BY <1>1, <1>2 DEF IInv

\* A process that goes on, or leaves, moves no other.
LEMMA OneMoves ==
  ASSUME TypeOK, NEW p \in Actors, NEW call \in Calls \cup {None}, NEW time \in Slots \cup {None},
         NEW place \in {"idle", "booking", "moving_call", "moving_row", "cancelling",
                        "marking", "reminding"},
         Goto(p, place, call, time)
  PROVE  /\ at' \in [Actors -> {"idle", "booking", "moving_call", "moving_row", "cancelling",
                               "marking", "reminding"}]
         /\ held' \in [Actors -> [call : Calls \cup {None}, time : Slots \cup {None}]]
         /\ at'[p] = place /\ held'[p].call = call /\ held'[p].time = time
         /\ \A q \in Actors \ {p} : at'[q] = at[q] /\ held'[q] = held[q]
BY DEF TypeOK, Goto

\* The second to a slot gives it up; the first is the only one there.
LEMMA SafeCommit ==
  ASSUME ConstantsOK, Safe, NEW c \in Calls, CommitBooking(c)
  PROVE  Safe'
<1> USE DEF Safe
<1>1. held[c].time \in Slots /\ at[c] = "booking" /\ c \in Actors
  BY DEF CommitBooking, Places, Actors
<1>2. /\ at'[c] = "idle" /\ \A q \in Actors \ {c} : at'[q] = at[q] /\ held'[q] = held[q]
      /\ at' \in [Actors -> {"idle", "booking", "moving_call", "moving_row", "cancelling",
                            "marking", "reminding"}]
      /\ held' \in [Actors -> [call : Calls \cup {None}, time : Slots \cup {None}]]
  BY <1>1, OneMoves DEF CommitBooking, Leave
<1>3. UNCHANGED <<now, stamped, reminders, history>>
  BY DEF CommitBooking
<1>4. \/ UNCHANGED diary /\ hosted' = [hosted EXCEPT ![c] = None]
      \/ /\ status' = [status EXCEPT ![c] = "live"] /\ UNCHANGED hosted
         /\ startsAt' = [startsAt EXCEPT ![c] = held[c].time] /\ ~Taken(held[c].time, c)
  BY DEF CommitBooking, GivesBack
<1>5. TypeOK'
  BY <1>1, <1>2, <1>3, <1>4 DEF TypeOK, diary, history
<1>6. Places'
  BY <1>2 DEF Places, ConstantsOK, Actors
<1>7. OneCallPerSlot' /\ StampCounts'
  BY <1>3, <1>4 DEF OneCallPerSlot, StampCounts, Taken, TypeOK, diary
<1>8. QED
  BY <1>5, <1>6, <1>7

\* The provider is moved first; the row follows.
LEMMA SafeMoveHosted ==
  ASSUME ConstantsOK, Safe, NEW r \in Requests, MoveHosted(r)
  PROVE  Safe'
<1> USE DEF Safe
<1>1. held[r].time \in Slots /\ held[r].call \in Calls /\ r \in Actors
  BY DEF MoveHosted, Places, Actors
<1>2. /\ \/ at'[r] = "idle" /\ held'[r].call = None /\ UNCHANGED hosted
         \/ /\ at'[r] = "moving_row" /\ held'[r].call = held[r].call
            /\ held'[r].time = held[r].time
            /\ hosted' = [hosted EXCEPT ![held[r].call] = held[r].time]
      /\ \A q \in Actors \ {r} : at'[q] = at[q] /\ held'[q] = held[q]
      /\ at' \in [Actors -> {"idle", "booking", "moving_call", "moving_row", "cancelling",
                            "marking", "reminding"}]
      /\ held' \in [Actors -> [call : Calls \cup {None}, time : Slots \cup {None}]]
  <2>1. CASE hosted[held[r].call] = None
    BY <1>1, <2>1, OneMoves DEF MoveHosted, Leave
  <2>2. CASE hosted[held[r].call] # None
    BY <1>1, <2>2, OneMoves DEF MoveHosted
  <2>3. QED
    BY <2>1, <2>2
<1>3. UNCHANGED <<now, diary, stamped, reminders, history>>
  BY DEF MoveHosted
<1>4. TypeOK'
  BY <1>1, <1>2, <1>3 DEF TypeOK, diary, history
<1>5. Places'
  BY <1>1, <1>2 DEF Places, ConstantsOK, Actors
<1>6. OneCallPerSlot' /\ StampCounts'
  BY <1>3 DEF OneCallPerSlot, StampCounts, diary
<1>7. QED
  BY <1>4, <1>5, <1>6

\* A call is put at a time the index found free, with its reminders to come.
LEMMA SafeMoveRow ==
  ASSUME ConstantsOK, Safe, NEW r \in Requests, MoveRow(r)
  PROVE  Safe'
<1> USE DEF Safe
<1> DEFINE c == held[r].call
           s == held[r].time
<1>1. s \in Slots /\ c \in Calls /\ r \in Actors
  BY DEF MoveRow, Places, Actors
<1>2. /\ at'[r] = "idle" /\ held'[r].call = None
      /\ \A q \in Actors \ {r} : at'[q] = at[q] /\ held'[q] = held[q]
      /\ at' \in [Actors -> {"idle", "booking", "moving_call", "moving_row", "cancelling",
                            "marking", "reminding"}]
      /\ held' \in [Actors -> [call : Calls \cup {None}, time : Slots \cup {None}]]
  BY <1>1, OneMoves DEF MoveRow, Leave
<1>3. UNCHANGED <<now, hosted, crossed>> /\ outrun' \in {outrun \ {c}, outrun \cup ({c} \ crossed)}
  BY DEF MoveRow
<1>4. \/ UNCHANGED <<diary, stamped, reminders>>
      \/ /\ status' = [status EXCEPT ![c] = "live"] /\ ~Taken(s, c)
         /\ startsAt' = [startsAt EXCEPT ![c] = s]
         /\ stamped' = [stamped EXCEPT ![c] = FALSE]
         /\ reminders' = [reminders EXCEPT ![c] = 0]
  BY DEF MoveRow
<1> HIDE DEF c, s
<1>5. TypeOK'
  <2>1. /\ status' \in [Calls -> {None, "live", "cancelled", "over"}]
        /\ startsAt' \in [Calls -> Slots \cup {None}]
    BY <1>1, <1>4 DEF TypeOK, diary
  <2>2. stamped' \in [Calls -> BOOLEAN] /\ reminders' \in [Calls -> Nat]
    <3>1. CASE UNCHANGED <<diary, stamped, reminders>>
      BY <3>1 DEF TypeOK
    <3>2. CASE /\ stamped' = [stamped EXCEPT ![c] = FALSE]
               /\ reminders' = [reminders EXCEPT ![c] = 0]
      <4>1. stamped' \in [Calls -> BOOLEAN]
        BY <3>2 DEF TypeOK
      <4>2. reminders' \in [Calls -> Nat]
        BY <3>2 DEF TypeOK
      <4>3. QED
        BY <4>1, <4>2
    <3>3. QED
      BY <1>4, <3>1, <3>2
  <2>3. /\ crossed' \in SUBSET Calls /\ outrun' \in SUBSET Calls
        /\ now' \in 0..Horizon /\ hosted' \in [Calls -> Slots \cup {None}]
    BY <1>1, <1>3 DEF TypeOK
  <2>4. QED
    BY <1>2, <2>1, <2>2, <2>3 DEF TypeOK
<1>6. Places'
  BY <1>2 DEF Places, ConstantsOK, Actors
<1>7. OneCallPerSlot'
  BY <1>1, <1>4 DEF OneCallPerSlot, Taken, TypeOK, diary
<1>8. StampCounts'
  BY <1>1, <1>4 DEF StampCounts, TypeOK
<1>9. QED
  BY <1>5, <1>6, <1>7, <1>8

LEMMA SafeStep == ConstantsOK /\ Safe /\ [Next]_vars => Safe'
<1> SUFFICES ASSUME ConstantsOK, Safe, [Next]_vars PROVE Safe'
  OBVIOUS
<1> USE DEF ConstantsOK, Safe, TypeOK, Places, OneCallPerSlot, StampCounts, Actors, diary,
        history, Goto, Leave, Start
<1>1. ASSUME NEW c \in Calls, NEW s \in Slots, BeginBooking(c, s) PROVE Safe'
  <2> USE <1>1 DEF BeginBooking
  <2>1. TypeOK'
    OBVIOUS
  <2>2. Places'
    OBVIOUS
  <2>3. OneCallPerSlot' /\ StampCounts'
    OBVIOUS
  <2>4. QED
    BY <2>1, <2>2, <2>3
<1>2. ASSUME NEW c \in Calls, CommitBooking(c) PROVE Safe'
  BY <1>2, SafeCommit
<1>3. ASSUME NEW r \in Requests, NEW c \in Calls, NEW s \in Slots, ReadToMove(r, c, s) PROVE Safe'
  <2> USE <1>3 DEF ReadToMove
  <2>1. TypeOK'
    OBVIOUS
  <2>2. Places'
    OBVIOUS
  <2>3. OneCallPerSlot' /\ StampCounts'
    OBVIOUS
  <2>4. QED
    BY <2>1, <2>2, <2>3
<1>4. ASSUME NEW r \in Requests, MoveHosted(r) PROVE Safe'
  BY <1>4, SafeMoveHosted
<1>5. ASSUME NEW r \in Requests, MoveRow(r) PROVE Safe'
  BY <1>5, SafeMoveRow
<1>6. ASSUME NEW r \in Requests, NEW c \in Calls, ReadToCancel(r, c) PROVE Safe'
  <2> USE <1>6 DEF ReadToCancel
  <2>1. TypeOK'
    OBVIOUS
  <2>2. Places'
    OBVIOUS
  <2>3. OneCallPerSlot' /\ StampCounts'
    OBVIOUS
  <2>4. QED
    BY <2>1, <2>2, <2>3
<1>7. ASSUME NEW r \in Requests, CancelRow(r) PROVE Safe'
  BY <1>7 DEF CancelRow
<1>8. ASSUME NEW r \in Requests, NEW c \in Calls, ReadToMark(r, c) PROVE Safe'
  BY <1>8 DEF ReadToMark
<1>9. ASSUME NEW r \in Requests, MarkRow(r) PROVE Safe'
  BY <1>9 DEF MarkRow
<1>10. ASSUME NEW w \in Sweeps, NEW c \in Calls, ListReminder(w, c) PROVE Safe'
  BY <1>10 DEF ListReminder
<1>11. ASSUME NEW w \in Sweeps, Remind(w) PROVE Safe'
  BY <1>11 DEF Remind, Unclaimed
<1>12. ASSUME NEW p \in Actors, Dies(p) PROVE Safe'
  BY <1>12 DEF Dies
<1>13. ASSUME Tick PROVE Safe'
  BY <1>13 DEF Tick
<1>14. ASSUME UNCHANGED vars PROVE Safe'
  BY <1>14 DEF vars
<1>15. QED
  <2> HIDE DEF Safe, ConstantsOK
  <2>1. QED
    BY <1>1, <1>2, <1>3, <1>4, <1>5, <1>6, <1>7, <1>8, <1>9, <1>10, <1>11, <1>12, <1>13, <1>14
       DEF Next

\* Moving the provider is licensed by the request that goes on to write the row.
LEMMA AgreeMoveHosted ==
  ASSUME ConstantsOK, Safe, Agree, NEW r \in Requests, MoveHosted(r)
  PROVE  Agree'
<1> USE DEF Safe, Agree
<1> DEFINE c == held[r].call
<1>1. held[r].time \in Slots /\ c \in Calls /\ r \in Actors /\ c # None /\ at[r] = "moving_call"
  BY DEF MoveHosted, Places, Actors, ConstantsOK
<1>2. UNCHANGED <<status, startsAt, crossed, outrun>>
  BY DEF MoveHosted, diary, history
<1>3. \A q \in Actors \ {r} : at'[q] = at[q] /\ held'[q] = held[q]
  <2>1. CASE hosted[c] = None
    BY <1>1, <2>1, OneMoves DEF MoveHosted, Leave
  <2>2. CASE hosted[c] # None
    BY <1>1, <2>2, OneMoves DEF MoveHosted
  <2>3. QED
    BY <2>1, <2>2
<1>4. held'[r].call \in {c, None}
  BY <1>1, OneMoves DEF MoveHosted, Leave
<1>5. \A d \in Calls : AtWork(d)' => AtWork(d)
  BY <1>1, <1>3, <1>4 DEF AtWork, ConstantsOK, Actors
<1>6. \A d \in Calls \ {c} : hosted'[d] = hosted[d] /\ AtWork(d)' = AtWork(d)
  BY <1>1, <1>3, <1>4 DEF MoveHosted, AtWork, ConstantsOK, Actors, TypeOK
<1>7. \A d \in Calls : at'[d] = at[d] /\ held'[d] = held[d]
  BY <1>1, <1>3 DEF Actors, ConstantsOK
<1>8. status[c] # None /\ at[c] # "booking"
  BY <1>1 DEF RowFirst, AtWork
<1>9. RowFirst'
  BY <1>2, <1>5, <1>7 DEF RowFirst
<1>10. OneAtWork'
  BY <1>1, <1>2, <1>3, <1>4 DEF OneAtWork, Actors, ConstantsOK
<1>11. CASE hosted[c] = None
  <2>1. at'[r] = "idle" /\ held'[r].call = None /\ hosted' = hosted
    BY <1>1, <1>11, OneMoves DEF MoveHosted, Leave
  <2>2. Meanwhile'
    BY <1>1, <1>2, <1>3, <1>7, <2>1 DEF Meanwhile, Actors, ConstantsOK
  <2>3. c \notin crossed /\ status[c] = "live" => (hosted[c] = startsAt[c] <=> c \notin outrun)
    BY <1>1 DEF Meanwhile
  <2>4. ProviderAgrees'
    BY <1>2, <1>6, <1>7, <1>8, <2>1, <2>3 DEF ProviderAgrees
  <2>5. QED
    BY <1>9, <1>10, <2>2, <2>4
<1>12. CASE hosted[c] # None
  <2>1. /\ at'[r] = "moving_row" /\ held'[r].call = c /\ held'[r].time = held[r].time
        /\ hosted' = [hosted EXCEPT ![c] = held[r].time]
    BY <1>1, <1>12, OneMoves DEF MoveHosted
  <2>2. hosted'[c] = held'[r].time
    BY <1>1, <2>1 DEF TypeOK
  <2>3. c \notin crossed => \A q \in Requests \ {r} : held'[q].call # c
    BY <1>1, <1>3 DEF OneAtWork, Actors
  <2>4. Meanwhile'
    <3>1. at'[c] # "booking"
      BY <1>1, <1>7, <1>8
    <3>2. ASSUME c \notin crossed, NEW q \in Requests, held'[q].call = c PROVE q = r
      BY <2>3, <3>2
    <3>3. ASSUME NEW d \in Calls \ {c}, NEW q \in Requests, held'[q].call = d
          PROVE  at'[q] = at[q] /\ held'[q] = held[q]
      BY <1>3, <2>1, <3>3 DEF Actors
    <3>4. \A d \in Calls \ {c} : hosted'[d] = hosted[d]
      BY <1>6
    <3> HIDE DEF c
    <3>5. QED
      BY <1>2, <1>7, <2>1, <2>2, <3>1, <3>2, <3>3, <3>4 DEF Meanwhile
  <2>5. ASSUME NEW d \in Calls \ crossed, at[d] = "idle", ~AtWork(d)'
        PROVE  /\ status[d] = "live" => (hosted'[d] = startsAt[d] <=> d \notin outrun)
               /\ status[d] = None => hosted'[d] = None
    <3>1. d # c
      BY <2>1, <2>5 DEF AtWork
    <3>2. hosted'[d] = hosted[d] /\ ~AtWork(d)
      BY <1>6, <2>5, <3>1
    <3>3. QED
      BY <2>5, <3>2 DEF ProviderAgrees
  <2>6. ProviderAgrees'
    BY <1>2, <1>7, <2>5 DEF ProviderAgrees
  <2>7. QED
    BY <1>9, <1>10, <2>4, <2>6
<1>13. QED
  BY <1>11, <1>12

\* A move that goes through makes row and provider one again; one that loses its time leaves
\* the provider at a time that another call has, so not at the row's.
LEMMA AgreeMoveRow ==
  ASSUME ConstantsOK, Safe, Agree, NEW r \in Requests, MoveRow(r)
  PROVE  Agree'
<1> USE DEF Safe, Agree
<1> DEFINE c == held[r].call
           s == held[r].time
<1>1. s \in Slots /\ c \in Calls /\ r \in Actors /\ c # None /\ at[r] = "moving_row"
  BY DEF MoveRow, Places, Actors, ConstantsOK
<1>2. /\ at'[r] = "idle" /\ held'[r].call = None
      /\ \A q \in Actors \ {r} : at'[q] = at[q] /\ held'[q] = held[q]
  BY <1>1, OneMoves DEF MoveRow, Leave
<1>3. UNCHANGED <<hosted, crossed>> /\ \A d \in Calls \ {c} : d \in outrun' <=> d \in outrun
  BY DEF MoveRow
<1>4. \A d \in Calls \ {c} : status'[d] = status[d] /\ startsAt'[d] = startsAt[d]
  BY <1>1 DEF MoveRow, diary, TypeOK
<1>5. \A d \in Calls : at'[d] = at[d] /\ held'[d] = held[d]
  BY <1>1, <1>2 DEF Actors, ConstantsOK
<1>6. status[c] # None /\ at[c] # "booking"
  BY <1>1 DEF RowFirst, AtWork
<1>7. c \notin crossed => hosted[c] = s
  BY <1>1 DEF Meanwhile
<1>8. /\ status'[c] # None
      /\ c \notin crossed /\ status'[c] = "live" => (hosted[c] = startsAt'[c] <=> c \notin outrun')
  <2>1. CASE Taken(s, c)
    <3>1. UNCHANGED diary /\ outrun' = outrun \cup ({c} \ crossed)
      BY <2>1 DEF MoveRow
    <3>2. status[c] = "live" => startsAt[c] # s
      BY <1>1, <2>1 DEF Taken, OneCallPerSlot
    <3>3. QED
      BY <1>6, <1>7, <3>1, <3>2 DEF diary
  <2>2. CASE ~Taken(s, c)
    <3>1. /\ status' = [status EXCEPT ![c] = "live"] /\ startsAt' = [startsAt EXCEPT ![c] = s]
          /\ outrun' = outrun \ {c}
      BY <2>2 DEF MoveRow
    <3>2. QED
      BY <1>1, <1>7, <3>1 DEF TypeOK, ConstantsOK
  <2>3. QED
    BY <2>1, <2>2
<1>9. \A d \in Calls : AtWork(d)' => AtWork(d)
  BY <1>1, <1>2 DEF AtWork, ConstantsOK, Actors
<1>10. \A d \in Calls \ {c} : AtWork(d)' <=> AtWork(d)
  BY <1>1, <1>2 DEF AtWork, ConstantsOK, Actors
<1>11. RowFirst'
  BY <1>3, <1>4, <1>5, <1>6, <1>8, <1>9 DEF RowFirst
<1>12. OneAtWork'
  BY <1>1, <1>2, <1>3 DEF OneAtWork, Actors, ConstantsOK
<1>13. c \notin crossed => \A q \in Requests : held'[q].call # c
  BY <1>1, <1>2 DEF OneAtWork, Actors
<1>14. \A q \in Requests : held'[q].call \in Calls => at'[q] = at[q] /\ held'[q] = held[q]
  BY <1>2 DEF Actors, ConstantsOK
<1> HIDE DEF c, s
<1>15. Meanwhile'
  BY <1>1, <1>3, <1>4, <1>5, <1>6, <1>13, <1>14 DEF Meanwhile
<1>16. ProviderAgrees'
  BY <1>1, <1>3, <1>4, <1>5, <1>8, <1>10 DEF ProviderAgrees
<1>17. QED
  BY <1>11, <1>12, <1>15, <1>16

LEMMA AgreeStep == ConstantsOK /\ Safe /\ Agree /\ [Next]_vars => Agree'
<1> SUFFICES ASSUME ConstantsOK, Safe, Agree, [Next]_vars PROVE Agree'
  OBVIOUS
<1> USE DEF ConstantsOK, Safe, TypeOK, Places, Agree, RowFirst, OneAtWork, Meanwhile,
        ProviderAgrees, AtWork, Actors, diary, history, Goto, Leave, Start
<1>1. ASSUME NEW c \in Calls, NEW s \in Slots, BeginBooking(c, s) PROVE Agree'
  BY <1>1 DEF BeginBooking
<1>2. ASSUME NEW c \in Calls, CommitBooking(c) PROVE Agree'
  BY <1>2 DEF CommitBooking, GivesBack
<1>3. ASSUME NEW r \in Requests, NEW c \in Calls, NEW s \in Slots, ReadToMove(r, c, s) PROVE Agree'
  BY <1>3 DEF ReadToMove
<1>4. ASSUME NEW r \in Requests, MoveHosted(r) PROVE Agree'
  BY <1>4, AgreeMoveHosted
<1>5. ASSUME NEW r \in Requests, MoveRow(r) PROVE Agree'
  BY <1>5, AgreeMoveRow
<1>6. ASSUME NEW r \in Requests, NEW c \in Calls, ReadToCancel(r, c) PROVE Agree'
  BY <1>6 DEF ReadToCancel
<1>7. ASSUME NEW r \in Requests, CancelRow(r) PROVE Agree'
  BY <1>7 DEF CancelRow
<1>8. ASSUME NEW r \in Requests, NEW c \in Calls, ReadToMark(r, c) PROVE Agree'
  BY <1>8 DEF ReadToMark
<1>9. ASSUME NEW r \in Requests, MarkRow(r) PROVE Agree'
  BY <1>9 DEF MarkRow
<1>10. ASSUME NEW w \in Sweeps, NEW c \in Calls, ListReminder(w, c) PROVE Agree'
  BY <1>10 DEF ListReminder
<1>11. ASSUME NEW w \in Sweeps, Remind(w) PROVE Agree'
  BY <1>11 DEF Remind
<1>12. ASSUME NEW p \in Actors, Dies(p) PROVE Agree'
  BY <1>12 DEF Dies
<1>13. ASSUME Tick PROVE Agree'
  BY <1>13 DEF Tick
<1>14. ASSUME UNCHANGED vars PROVE Agree'
  BY <1>14 DEF vars
<1>15. QED
  <2> HIDE DEF Safe, Agree, ConstantsOK
  <2>1. QED
    BY <1>1, <1>2, <1>3, <1>4, <1>5, <1>6, <1>7, <1>8, <1>9, <1>10, <1>11, <1>12, <1>13, <1>14
       DEF Next

LEMMA Invariant == ConstantsOK => (Spec => []IInv)
<1> SUFFICES ASSUME ConstantsOK PROVE Spec => []IInv
  OBVIOUS
<1>1. Init => IInv
  BY MeetingsInit
<1>2. IInv /\ [Next]_vars => IInv'
  BY SafeStep, AgreeStep DEF IInv
<1>3. QED
  BY <1>1, <1>2, PTL DEF Spec

-----------------------------------------------------------------------------
\* Every variable of the diary keeps its type.
THEOREM DiaryTyped == ConstantsOK => (Spec => []TypeOK)
<1> SUFFICES ASSUME ConstantsOK PROVE Spec => []TypeOK
  OBVIOUS
<1>1. IInv => TypeOK
  BY DEF IInv, Safe
<1>2. QED
  BY Invariant, <1>1, PTL

\* However many guests book, move and cancel at once, no two hold one slot.
THEOREM NoDoubleBooking == ConstantsOK => (Spec => []OneCallPerSlot)
<1> SUFFICES ASSUME ConstantsOK PROVE Spec => []OneCallPerSlot
  OBVIOUS
<1>1. IInv => OneCallPerSlot
  BY DEF IInv, Safe
<1>2. QED
  BY Invariant, <1>1, PTL

\* However many sweeps overlap, a guest is reminded once for each time the call was put at.
THEOREM RemindedOncePerTime == ConstantsOK => (Spec => []RemindedOnce)
<1> SUFFICES ASSUME ConstantsOK PROVE Spec => []RemindedOnce
  OBVIOUS
<1>1. IInv => RemindedOnce
  <2> SUFFICES ASSUME IInv, NEW c \in Calls PROVE reminders[c] <= 1
    BY DEF RemindedOnce
  <2>1. reminders[c] \in Nat /\ reminders[c] <= (IF stamped[c] THEN 1 ELSE 0)
    BY DEF IInv, Safe, TypeOK, StampCounts
  <2>2. QED
    BY <2>1
<1>2. QED
  BY Invariant, <1>1, PTL

\* Short of a process that died or two requests on one call at once, row and provider agree
\* on every call nobody is working on, but where its last move lost its time to another call.
THEOREM RowAndProviderAgree == ConstantsOK => (Spec => []ProviderAgrees)
<1> SUFFICES ASSUME ConstantsOK PROVE Spec => []ProviderAgrees
  OBVIOUS
<1>1. IInv => ProviderAgrees
  BY DEF IInv, Agree
<1>2. QED
  BY Invariant, <1>1, PTL
=============================================================================
