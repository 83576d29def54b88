---------------------------- MODULE Cases_proofs ----------------------------
(***************************************************************************)
(* Proofs about one support conversation, for any number of emails,        *)
(* deliveries, portal replies, staff requests and cases.                   *)
(***************************************************************************)
EXTENDS Cases, TLAPS

\* Each kind of process is where its own code goes, and has read what it needs there.
Places ==
  /\ \A d \in Deliveries :
       /\ at[d] \in {"idle", "filing", "attaching", "opening"}
       /\ at[d] # "idle" => on[d] \in Tickets /\ memo[d] \in Mails
  /\ \A r \in Replies :
       /\ at[r] \in {"idle", "locking", "posting"}
       /\ at[r] # "idle" => on[r] \in Tickets
  /\ \A s \in Staff :
       /\ at[s] \in {"idle", "locking", "posting", "updating"}
       /\ at[s] # "idle" => on[s] \in Tickets
       /\ at[s] = "updating" => memo[s] \in Update

\* A reply under way holds its ticket, an email that was stored holds the thread, and nobody
\* holds anything else.
Holding(p, x) ==
  \/ at[p] = "posting" /\ x = on[p]
  \/ at[p] \in {"attaching", "opening"} /\ x = Thread

LocksHeld == \A p \in Processes, x \in Rows : lock[x] = p <=> Holding(p, x)

IInv == TypeOK /\ Places /\ LocksHeld /\ ShownWhenPosted /\ ClientHeard

LEMMA CasesInit == ConstantsOK /\ Init => IInv
<1> SUFFICES ASSUME ConstantsOK, Init PROVE IInv
  OBVIOUS
<1> USE DEF ConstantsOK, Init, Processes
<1>1. TypeOK
  BY DEF TypeOK, Statuses
<1>2. Places /\ ShownWhenPosted /\ ClientHeard
  BY DEF Places, ShownWhenPosted, ClientHeard
<1>3. LocksHeld
  BY DEF LocksHeld, Holding
<1>4. QED
  BY <1>1, <1>2, <1>3 DEF IInv

LEMMA CasesStep == ConstantsOK /\ IInv /\ [Next]_vars => IInv'
<1> SUFFICES ASSUME ConstantsOK, IInv, [Next]_vars PROVE IInv'
  OBVIOUS
<1> USE DEF ConstantsOK, IInv, TypeOK, Places, LocksHeld, Holding, ShownWhenPosted, ClientHeard,
        Statuses, Update, Processes, Rows, tickets, thread, local, history, Goto, Leave, Free,
        LockOrder, Unlocked
<1>1. ASSUME NEW p \in Replies \cup Staff, ReadThread(p) PROVE IInv'
  BY <1>1 DEF ReadThread
<1>2. ASSUME NEW p \in Replies \cup Staff, LockCase(p) PROVE IInv'
  <2>1. CASE Refused(p)
    BY <1>2, <2>1 DEF LockCase
  <2>2. CASE ~Refused(p)
    <3> USE <1>2, <2>2 DEF LockCase
    <3>1. TypeOK'
      OBVIOUS
    <3>2. Places'
      OBVIOUS
    <3>3. LocksHeld'
      OBVIOUS
    <3>4. ShownWhenPosted' /\ ClientHeard'
      BY DEF Refused
    <3>5. QED
      BY <3>1, <3>2, <3>3, <3>4
  <2>3. QED
    BY <2>1, <2>2
<1>3. ASSUME NEW r \in Replies, Post(r) PROVE IInv'
  <2> USE <1>3 DEF Post
  <2>1. TypeOK'
    OBVIOUS
  <2>2. Places' /\ LocksHeld'
    OBVIOUS
  <2>3. ShownWhenPosted'
    OBVIOUS
  <2>4. ClientHeard'
    BY DEF Reopens
  <2>5. QED
    BY <2>1, <2>2, <2>3, <2>4
<1>4. ASSUME NEW s \in Staff, Answer(s) PROVE IInv'
  <2> USE <1>4 DEF Answer
  <2>1. TypeOK'
    OBVIOUS
  <2>2. Places' /\ LocksHeld'
    OBVIOUS
  <2>3. ShownWhenPosted' /\ ClientHeard'
    OBVIOUS
  <2>4. QED
    BY <2>1, <2>2, <2>3
<1>5. ASSUME NEW d \in Deliveries, NEW m \in Mails, ReceiveMail(d, m) PROVE IInv'
  BY <1>5 DEF ReceiveMail
<1>6. ASSUME NEW d \in Deliveries, StoreMail(d) PROVE IInv'
  <2>1. CASE memo[d] \in came
    BY <1>6, <2>1 DEF StoreMail
  <2>2. CASE memo[d] \notin came
    <3>1. PICK place \in {"opening", "attaching"} : Goto(d, place, on[d], memo[d])
      BY <1>6, <2>2 DEF StoreMail
    <3>2. lock' = [lock EXCEPT ![Thread] = d] /\ lock[Thread] = None
      BY <1>6, <2>2 DEF StoreMail
    <3>3. UNCHANGED <<byMail, tickets, thread, history>>
      BY <1>6 DEF StoreMail
    <3>4. at[d] = "filing"
      BY <1>6 DEF StoreMail
    <3>5. TypeOK'
      BY <3>1, <3>2, <3>3
    <3>6. Places'
      BY <3>1, <3>3, <3>4
    <3>7. LocksHeld'
      BY <3>1, <3>2, <3>4
    <3>8. ShownWhenPosted' /\ ClientHeard'
      BY <3>1, <3>3, <3>4
    <3>9. QED
      BY <3>5, <3>6, <3>7, <3>8
  <2>3. QED
    BY <2>1, <2>2
<1>7. ASSUME NEW d \in Deliveries, Attach(d) PROVE IInv'
  <2> USE <1>7 DEF Attach
  <2>1. TypeOK'
    OBVIOUS
  <2>2. Places' /\ LocksHeld' /\ ShownWhenPosted'
    OBVIOUS
  <2>3. ClientHeard'
    OBVIOUS
  <2>4. QED
    BY <2>1, <2>2, <2>3
<1>8. ASSUME NEW d \in Deliveries, NEW t \in Tickets, OpenCase(d, t) PROVE IInv'
  <2> USE <1>8 DEF OpenCase
  <2>1. TypeOK'
    OBVIOUS
  <2>2. Places' /\ LocksHeld'
    OBVIOUS
  <2>3. ShownWhenPosted' /\ ClientHeard'
    OBVIOUS
  <2>4. QED
    BY <2>1, <2>2, <2>3
<1>9. ASSUME NEW s \in Staff, NEW t \in Tickets, NEW to \in Statuses, ReadCase(s, t, to)
      PROVE  IInv'
  <2> DEFINE m == [to |-> to, knew |-> came]
  <2>1. m \in Update
    OBVIOUS
  <2>2. Goto(s, "updating", t, m) /\ at[s] = "idle"
    BY <1>9 DEF ReadCase
  <2>3. UNCHANGED <<byMail, tickets, thread, lock, history>>
    BY <1>9 DEF ReadCase
  <2> HIDE DEF m
  <2>4. TypeOK'
    BY <2>1, <2>2, <2>3
  <2>5. Places'
    BY <2>1, <2>2, <2>3
  <2>6. LocksHeld' /\ ShownWhenPosted' /\ ClientHeard'
    BY <2>2, <2>3
  <2>7. QED
    BY <2>4, <2>5, <2>6
<1>10. ASSUME NEW s \in Staff, WriteCase(s) PROVE IInv'
  <2> USE <1>10 DEF WriteCase
  <2>1. TypeOK'
    OBVIOUS
  <2>2. Places' /\ LocksHeld' /\ ShownWhenPosted'
    OBVIOUS
  <2>3. ClientHeard'
    <3>1. CASE on[s] = link
      <4>1. case'[link'] = memo[s].to /\ heard' = memo[s].knew
        BY <3>1
      <4>2. memo[s].to = "closed" => came' \subseteq memo[s].knew \cup missed'
        BY <3>1
      <4>3. QED
        BY <4>1, <4>2
    <3>2. CASE on[s] # link
      <4>1. case'[link'] = case[link] /\ UNCHANGED <<came, heard, missed>>
        BY <3>2
      <4>2. QED
        BY <4>1
    <3>3. QED
      BY <3>1, <3>2
  <2>4. QED
    BY <2>1, <2>2, <2>3
<1>11. ASSUME NEW t \in Tickets, SetVisibility(t) PROVE IInv'
  BY <1>11 DEF SetVisibility
<1>12. ASSUME NEW p \in Processes, Dies(p) PROVE IInv'
  BY <1>12 DEF Dies
<1>13. ASSUME UNCHANGED vars PROVE IInv'
  BY <1>13 DEF vars
<1>14. QED
  <2> HIDE DEF IInv, ConstantsOK
  <2>1. QED
    BY <1>1, <1>2, <1>3, <1>4, <1>5, <1>6, <1>7, <1>8, <1>9, <1>10, <1>11, <1>12, <1>13
       DEF Next, Ingest, Work

LEMMA Invariant == ConstantsOK => (Spec => []IInv)
<1> SUFFICES ASSUME ConstantsOK PROVE Spec => []IInv
  OBVIOUS
<1>1. Init => IInv
  BY CasesInit
<1>2. IInv /\ [Next]_vars => IInv'
  BY CasesStep
<1>3. QED
  BY <1>1, <1>2, PTL DEF Spec

\* Every variable of a conversation keeps its type.
THEOREM CasesTyped == ConstantsOK => (Spec => []TypeOK)
<1> SUFFICES ASSUME ConstantsOK PROVE Spec => []TypeOK
  OBVIOUS
<1>1. IInv => TypeOK
  BY DEF IInv
<1>2. QED
  BY Invariant, <1>1, PTL

\* A client's message never rests on a closed case that nobody closed knowing of it, short of
\* a message and a close that did not read about each other.
THEOREM NeverLeftUnheard == ConstantsOK => (Spec => []ClientHeard)
<1> SUFFICES ASSUME ConstantsOK PROVE Spec => []ClientHeard
  OBVIOUS
<1>1. IInv => ClientHeard
  BY DEF IInv
<1>2. QED
  BY Invariant, <1>1, PTL

\* What the ticket lock of the reply paths is for: nothing is delivered on a hidden case.
THEOREM HideIsABoundary == ConstantsOK => (Spec => []ShownWhenPosted)
<1> SUFFICES ASSUME ConstantsOK PROVE Spec => []ShownWhenPosted
  OBVIOUS
<1>1. IInv => ShownWhenPosted
  BY DEF IInv
<1>2. QED
  BY Invariant, <1>1, PTL

\* Whoever holds a ticket while it waits, waits for the conversation, and whoever holds the
\* conversation waits for nothing: every chain of waiting transactions ends at its third.
LEMMA ChainsEnd ==
  ASSUME ConstantsOK, IInv,
         NEW p \in Processes, NEW q \in Processes, NEW r \in Processes,
         WaitsFor(p, q), WaitsFor(q, r)
  PROVE  Wanted(r) = None
<1> USE DEF ConstantsOK, IInv, TypeOK, Places, LocksHeld, Holding, WaitsFor, LockOrder, Rows,
        Processes
<1>1. ASSUME NEW u \in Processes, Wanted(u) # None PROVE Wanted(u) \in Rows
  BY <1>1 DEF Wanted
<1>2. ASSUME NEW u \in Processes, Wanted(u) # None
      PROVE  /\ at[u] \notin {"attaching", "opening"}
             /\ at[u] = "posting" => Wanted(u) = Thread
  BY <1>2 DEF Wanted
<1>3. Holding(q, Wanted(p)) /\ Holding(r, Wanted(q))
  BY <1>1
<1>4. at[q] = "posting" /\ Wanted(q) = Thread
  BY <1>2, <1>3
<1>5. at[r] \in {"attaching", "opening"}
  BY <1>3, <1>4
<1>6. QED
  BY <1>2, <1>5

\* So the transactions of one conversation cannot wait for each other, however many they are.
THEOREM NoDeadlock == ConstantsOK => (Spec => []NoLockCycle)
<1> SUFFICES ASSUME ConstantsOK PROVE Spec => []NoLockCycle
  OBVIOUS
<1>1. IInv => NoLockCycle
  <2> SUFFICES ASSUME IInv, NEW S \in SUBSET Processes,
                      \A p \in S : \E q \in S : WaitsFor(p, q),
                      NEW p \in S
               PROVE  FALSE
    BY DEF NoLockCycle
  <2>1. PICK q \in S : WaitsFor(p, q)
    OBVIOUS
  <2>2. PICK r \in S : WaitsFor(q, r)
    OBVIOUS
  <2>3. PICK s \in S : WaitsFor(r, s)
    OBVIOUS
  <2>4. Wanted(r) = None
    BY <2>1, <2>2, ChainsEnd
  <2>5. QED
    BY <2>3, <2>4 DEF WaitsFor
<1>2. QED
  BY Invariant, <1>1, PTL
=============================================================================
