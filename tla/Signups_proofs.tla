--------------------------- MODULE Signups_proofs ---------------------------
(***************************************************************************)
(* Proofs about one paid signup, for any number of calls of completeSignup *)
(* and of imports of its subscription.                                     *)
(***************************************************************************)
EXTENDS Signups, FiniteSetTheorems, TLAPS

\* Who is where, and what it needs there exists: a caller past its creation is a client, and
\* an import past its match has one.
Places ==
  /\ \A p \in Callers :
       /\ at[p] \in {"idle", "creating", "filing", "converting", "welcoming", "gone"}
       /\ at[p] \in {"filing", "converting", "welcoming"} => p \in clients
       /\ at[p] \in {"idle", "creating"} => p \notin clients
  /\ \A i \in Imports :
       /\ at[i] \in {"idle", "importing", "attaching", "linking", "upserting", "gone"}
       /\ at[i] = "importing" => found[i] = i
       /\ at[i] \in {"attaching", "linking", "upserting"} => found[i] \in clients

\* The plan is filed once: whoever filed it owns it, and alone goes on to the welcome.
OwnsPlan ==
  /\ \A p \in Callers : at[p] \in {"converting", "welcoming"} => filed = p /\ profile = p
  /\ \A p \in Callers : at[p] = "welcoming" => lead = p

\* A welcome that was sent has nobody left on the way to another one.
WelcomedLast ==
  welcomed > 0 => filed # None /\ \A p \in Callers : at[p] \notin {"converting", "welcoming"}

IInv == TypeOK /\ Places /\ OwnsPlan /\ WelcomedLast /\ WelcomedOwnsThePlan

LEMMA SignupInit == Init => IInv
BY DEF Init, IInv, TypeOK, Places, OwnsPlan, WelcomedLast, WelcomedOwnsThePlan, Processes

LEMMA SignupStep == ConstantsOK /\ IInv /\ [Next]_vars => IInv'
<1> SUFFICES ASSUME ConstantsOK, IInv, [Next]_vars PROVE IInv'
  OBVIOUS
<1> USE DEF ConstantsOK, IInv, TypeOK, Places, OwnsPlan, WelcomedLast, WelcomedOwnsThePlan,
        Processes, records, signup, Goto
<1>1. ASSUME NEW p \in Callers, Claim(p) PROVE IInv'
  BY <1>1 DEF Claim, Claimable
<1>2. ASSUME NEW p \in Callers, CreateClient(p) PROVE IInv'
  BY <1>2 DEF CreateClient
<1>3. ASSUME NEW p \in Callers, FilePlan(p) PROVE IInv'
  BY <1>3 DEF FilePlan, Unfiled
<1>4. ASSUME NEW p \in Callers, Convert(p) PROVE IInv'
  BY <1>4 DEF Convert
<1>5. ASSUME NEW p \in Callers, Welcome(p) PROVE IInv'
  BY <1>5 DEF Welcome
<1>6. ASSUME NEW i \in Imports, LoadIndex(i) PROVE IInv'
  BY <1>6 DEF LoadIndex, MatchOrCreate, Matches
<1>7. ASSUME NEW i \in Imports, ImportClient(i) PROVE IInv'
  BY <1>7 DEF ImportClient
<1>8. ASSUME NEW i \in Imports, AttachAccount(i) PROVE IInv'
  BY <1>8 DEF AttachAccount
<1>9. ASSUME NEW i \in Imports, LinkProfile(i) PROVE IInv'
  BY <1>9 DEF LinkProfile
<1>10. ASSUME NEW i \in Imports, Upsert(i) PROVE IInv'
  BY <1>10 DEF Upsert
<1>11. ASSUME NEW p \in Processes, Dies(p) PROVE IInv'
  BY <1>11 DEF Dies
<1>12. ASSUME ClaimAges PROVE IInv'
  BY <1>12 DEF ClaimAges
<1>13. ASSUME UNCHANGED vars PROVE IInv'
  BY <1>13 DEF vars
<1>14. QED
  <2> HIDE DEF IInv, ConstantsOK
  <2>1. QED
    BY <1>1, <1>2, <1>3, <1>4, <1>5, <1>6, <1>7, <1>8, <1>9, <1>10, <1>11, <1>12, <1>13
       DEF Next, Complete, Sync

LEMMA Invariant == ConstantsOK => (Spec => []IInv)
<1> SUFFICES ASSUME ConstantsOK PROVE Spec => []IInv
  OBVIOUS
<1>1. IInv /\ [Next]_vars => IInv'
  BY SignupStep
<1>2. QED
  BY SignupInit, <1>1, PTL DEF Spec

-----------------------------------------------------------------------------
(* Counting clients *)

\* The callers that won a claim and have used it, or still may.
Winners == {p \in Callers : at[p] = "creating" \/ p \in clients}

\* Every winner is paid for: by the first claim, or by a claim that was retaken.
Paid == IsFiniteSet(Winners) /\ Cardinality(Winners) <= (IF claim = "none" THEN 0 ELSE 1) + retakes

LEMMA OneMore ==
  ASSUME NEW S, IsFiniteSet(S), NEW T, NEW e, T \subseteq S \cup {e}
  PROVE  IsFiniteSet(T) /\ Cardinality(T) <= Cardinality(S) + 1
<1>1. Cardinality(S) \in Nat
  BY FS_CardinalityType
<1>2. IsFiniteSet(S \cup {e}) /\ Cardinality(S \cup {e}) = IF e \in S THEN Cardinality(S) ELSE Cardinality(S) + 1
  BY FS_AddElement
<1>3. Cardinality(S \cup {e}) \in Nat /\ Cardinality(S \cup {e}) <= Cardinality(S) + 1
  BY <1>1, <1>2
<1>4. IsFiniteSet(T) /\ Cardinality(T) <= Cardinality(S \cup {e})
  BY <1>2, FS_Subset
<1>5. Cardinality(T) \in Nat
  BY <1>4, FS_CardinalityType
<1>6. QED
  BY <1>1, <1>3, <1>4, <1>5

LEMMA Fewer ==
  ASSUME NEW S, IsFiniteSet(S), NEW T, T \subseteq S
  PROVE  IsFiniteSet(T) /\ Cardinality(T) <= Cardinality(S)
BY FS_Subset, FS_CardinalityType

LEMMA PaidInit == Init => Paid
<1> SUFFICES ASSUME Init PROVE Paid
  OBVIOUS
<1>1. Winners = {}
  BY DEF Init, Winners, Processes
<1>2. QED
  BY <1>1, FS_EmptySet DEF Init, Paid

LEMMA PaidStep == ConstantsOK /\ IInv /\ Paid /\ [Next]_vars => Paid'
<1> SUFFICES ASSUME ConstantsOK, IInv, Paid, [Next]_vars PROVE Paid'
  OBVIOUS
<1> USE DEF ConstantsOK, Processes, records, signup, Goto
<1>1. Cardinality(Winners) \in Nat /\ retakes \in Nat /\ claim \in {"none", "fresh", "stale"}
  BY FS_CardinalityType DEF Paid, IInv, TypeOK
<1>2. ASSUME NEW p \in Callers, Claim(p), Claimable PROVE Paid'
  <2>1. Winners' \subseteq Winners \cup {p}
    BY <1>2 DEF Claim, Winners, IInv, TypeOK
  <2>2. IsFiniteSet(Winners') /\ Cardinality(Winners') <= Cardinality(Winners) + 1
    BY <2>1, OneMore DEF Paid
  <2>3. Cardinality(Winners') \in Nat
    BY <2>2, FS_CardinalityType
  <2>4. \/ claim = "none" /\ claim' = "fresh" /\ retakes' = retakes
        \/ claim = "stale" /\ claim' = "fresh" /\ retakes' = retakes + 1
    BY <1>1, <1>2 DEF Claim, Claimable
  <2>5. QED
    BY <1>1, <2>2, <2>3, <2>4 DEF Paid
<1>3. ASSUME Winners' \subseteq Winners, retakes' = retakes, claim' = "none" <=> claim = "none"
      PROVE  Paid'
  <2>1. IsFiniteSet(Winners') /\ Cardinality(Winners') <= Cardinality(Winners)
    BY <1>3, Fewer DEF Paid
  <2>2. Cardinality(Winners') \in Nat
    BY <2>1, FS_CardinalityType
  <2>3. QED
    BY <1>1, <1>3, <2>1, <2>2 DEF Paid
<1>4. ASSUME NEW p \in Callers, Claim(p), ~Claimable PROVE Paid'
  BY <1>3, <1>4 DEF Claim, Winners, IInv, TypeOK
<1>5. ASSUME NEW p \in Callers, CreateClient(p) PROVE Paid'
  BY <1>3, <1>5 DEF CreateClient, Winners, IInv, TypeOK
<1>6. ASSUME NEW p \in Callers, FilePlan(p) \/ Convert(p) \/ Welcome(p) PROVE Paid'
  BY <1>3, <1>6 DEF FilePlan, Convert, Welcome, Winners, IInv, TypeOK
<1>7. ASSUME NEW i \in Imports, Sync(i) PROVE Paid'
  BY <1>3, <1>7 DEF Sync, LoadIndex, ImportClient, AttachAccount, LinkProfile, Upsert, Winners,
     IInv, TypeOK
<1>8. ASSUME NEW p \in Processes, Dies(p) PROVE Paid'
  BY <1>3, <1>8 DEF Dies, Winners, IInv, TypeOK
<1>9. ASSUME ClaimAges PROVE Paid'
  BY <1>3, <1>9 DEF ClaimAges, Winners
<1>10. ASSUME UNCHANGED vars PROVE Paid'
  BY <1>3, <1>10 DEF vars, Winners
<1>11. QED
  BY <1>2, <1>4, <1>5, <1>6, <1>7, <1>8, <1>9, <1>10 DEF Next, Complete

-----------------------------------------------------------------------------
\* Every variable of a signup keeps its type.
THEOREM SignupTyped == ConstantsOK => (Spec => []TypeOK)
<1> SUFFICES ASSUME ConstantsOK PROVE Spec => []TypeOK
  OBVIOUS
<1>1. IInv => TypeOK
  BY DEF IInv
<1>2. QED
  BY Invariant, <1>1, PTL

\* The client a signup ends in keeps the plan and the customer, and its buyer is welcomed at
\* most once, whatever imports and retaken claims race it.
THEOREM BuyerOwnsThePlan == ConstantsOK => (Spec => []WelcomedOwnsThePlan)
<1> SUFFICES ASSUME ConstantsOK PROVE Spec => []WelcomedOwnsThePlan
  OBVIOUS
<1>1. IInv => WelcomedOwnsThePlan
  BY DEF IInv
<1>2. QED
  BY Invariant, <1>1, PTL

\* Callers make one client between them, and one more for each claim that was retaken.
THEOREM ClientsAreClaimed == ConstantsOK => (Spec => []CallersMakeOne)
<1> SUFFICES ASSUME ConstantsOK PROVE Spec => []CallersMakeOne
  OBVIOUS
<1>1. IInv /\ Paid /\ [Next]_vars => Paid'
  BY PaidStep
<1>2. IInv /\ Paid => CallersMakeOne
  <2> SUFFICES ASSUME IInv, Paid PROVE CallersMakeOne
    OBVIOUS
  <2>1. clients \cap Callers \subseteq Winners
    BY DEF Winners
  <2>2. Cardinality(clients \cap Callers) <= Cardinality(Winners)
    BY <2>1, Fewer DEF Paid
  <2>3. Cardinality(clients \cap Callers) \in Nat /\ Cardinality(Winners) \in Nat
    BY <2>1, Fewer, FS_CardinalityType DEF Paid
  <2>4. QED
    BY <2>2, <2>3 DEF Paid, CallersMakeOne, IInv, TypeOK
<1>3. QED
  BY Invariant, PaidInit, <1>1, <1>2, PTL DEF Spec
=============================================================================
