---------------------------- MODULE JobIdsProofs ----------------------------
(***************************************************************************)
(* Theorems of JobIds, for any number of requests and tries.               *)
(***************************************************************************)
EXTENDS JobIds, FiniteSetTheorems, TLAPS

\* A scanned number is either still the next one or has been inserted.
ScanIsCurrentOrTaken ==
    \A r \in Requests : requests[r].pc = "insert" =>
        requests[r].id \in ids \/ IsNextJobId(requests[r].id)

\* How many collisions the creations so far can account for.
CollisionsAreCreations ==
    \A r \in Requests :
        /\ requests[r].collisions <= Cardinality(Created)
        /\ requests[r].pc = "insert" /\ requests[r].id \in ids =>
               requests[r].collisions + 1 <= Cardinality(Created)
        /\ requests[r].pc = "gaveUp" => requests[r].collisions >= Tries

Inv == TypeOK /\ ScanIsCurrentOrTaken /\ CollisionsAreCreations

LEMMA CreatedFinite == IsFiniteSet(Created) /\ Cardinality(Created) \in Nat
<1>1. IsFiniteSet(Created)
  BY JobIdsAssumption, FS_Subset DEF Created
<1>2. QED
  BY <1>1, FS_CardinalityType

LEMMA InvInit == Init => Inv
<1> SUFFICES ASSUME Init PROVE Inv
  OBVIOUS
<1>1. TypeOK /\ ScanIsCurrentOrTaken
  BY DEF Init, TypeOK, ScanIsCurrentOrTaken
<1>2. CollisionsAreCreations
  BY CreatedFinite DEF Init, CollisionsAreCreations
<1>3. QED
  BY <1>1, <1>2 DEF Inv

LEMMA NextIsNumber == ASSUME TypeOK, NEW n, IsNextJobId(n) PROVE n \in Nat
<1>1. PICK x \in InUse \cup {0} : n = x + 1
  BY DEF IsNextJobId, Candidates
<1>2. x \in Nat
  BY JobIdsAssumption DEF TypeOK, InUse
<1>3. QED
  BY <1>1, <1>2

LEMMA NextIsUnique ==
    ASSUME TypeOK, NEW m, NEW n, IsNextJobId(m), IsNextJobId(n)
    PROVE  m = n
<1>1. InUse \subseteq Nat
  BY JobIdsAssumption DEF TypeOK, InUse
<1>2. PICK x \in InUse \cup {0} : m = x + 1
  BY DEF IsNextJobId, Candidates
<1>3. PICK y \in InUse \cup {0} : n = y + 1
  BY DEF IsNextJobId, Candidates
<1>4. (x \in InUse => x < n) /\ (y \in InUse => y < m)
  BY DEF IsNextJobId, Candidates
<1>5. x \in Nat /\ y \in Nat
  BY <1>1
<1>6. QED
  BY <1>2, <1>3, <1>4, <1>5

LEMMA ScanKeepsInv ==
    ASSUME Inv, NEW r \in Requests, NEW n \in Candidates, Scan(r, n)
    PROVE  Inv'
<1> USE DEF Inv, TypeOK
<1>1. IsNextJobId(n) /\ n \in Nat /\ n \notin ids
  <2>1. n \in Nat
    BY NextIsNumber DEF Scan
  <2>2. QED
    BY <2>1 DEF Scan, IsNextJobId, Candidates, InUse
<1>2. /\ requests'[r].pc = "insert" /\ requests'[r].id = n
      /\ requests'[r].collisions = requests[r].collisions
      /\ \A q \in Requests : q # r => requests'[q] = requests[q]
      /\ requests[r].pc = "scan" /\ ids' = ids
  BY DEF Scan
<1>3. TypeOK'
  BY <1>1 DEF Scan
<1>4. Created' = Created
  BY <1>2 DEF Created
<1>5. ScanIsCurrentOrTaken'
  BY <1>1, <1>2 DEF ScanIsCurrentOrTaken, IsNextJobId, Candidates, InUse
<1>6. CollisionsAreCreations'
  BY <1>1, <1>2, <1>4 DEF CollisionsAreCreations
<1>7. QED
  BY <1>3, <1>5, <1>6

LEMMA InsertIsNext ==
    ASSUME Inv, NEW r \in Requests, Insert(r)
    PROVE  IsNextJobId(requests[r].id) /\ ids' = ids \cup {requests[r].id}
BY DEF Inv, ScanIsCurrentOrTaken, Insert

LEMMA InsertKeepsInv ==
    ASSUME Inv, NEW r \in Requests, Insert(r)
    PROVE  Inv'
<1> DEFINE n == requests[r].id
<1> USE DEF Inv, TypeOK
<1>1. /\ requests[r].pc = "insert" /\ n \in Nat /\ n \notin ids
      /\ ids' = ids \cup {n} /\ IsNextJobId(n)
      /\ requests'[r].pc = "created" /\ requests'[r].collisions = requests[r].collisions
      /\ \A q \in Requests : q # r => requests'[q] = requests[q]
  BY InsertIsNext DEF Insert
<1>2. TypeOK'
  BY <1>1 DEF Insert
<1>3. Cardinality(Created') = Cardinality(Created) + 1
  <2>1. Created' = Created \cup {r} /\ r \notin Created
    BY <1>1 DEF Created
  <2>2. QED
    BY <2>1, CreatedFinite, FS_AddElement
<1>4. ScanIsCurrentOrTaken'
  BY <1>1, NextIsUnique DEF ScanIsCurrentOrTaken
<1>5. CollisionsAreCreations'
  <2> SUFFICES ASSUME NEW q \in Requests
               PROVE  /\ requests'[q].collisions <= Cardinality(Created')
                      /\ requests'[q].pc = "insert" /\ requests'[q].id \in ids' =>
                             requests'[q].collisions + 1 <= Cardinality(Created')
                      /\ requests'[q].pc = "gaveUp" => requests'[q].collisions >= Tries
    BY DEF CollisionsAreCreations
  <2>1. requests[q].collisions <= Cardinality(Created)
    BY DEF CollisionsAreCreations
  <2>2. requests[q].collisions \in Nat
    OBVIOUS
  <2>3. requests'[q].collisions = requests[q].collisions
    BY <1>1
  <2>4. requests'[q].pc = "gaveUp" => requests[q].pc = "gaveUp"
    BY <1>1
  <2>5. QED
    BY <1>3, <2>1, <2>2, <2>3, <2>4, CreatedFinite DEF CollisionsAreCreations
<1>6. QED
  BY <1>2, <1>4, <1>5

LEMMA CollideKeepsInv ==
    ASSUME Inv, NEW r \in Requests, Collide(r)
    PROVE  Inv'
<1> USE DEF Inv, TypeOK
<1>1. /\ requests[r].pc = "insert" /\ requests[r].id \in ids /\ ids' = ids
      /\ requests'[r].collisions = requests[r].collisions + 1
      /\ requests'[r].pc = IF requests[r].collisions + 1 < Tries THEN "scan" ELSE "gaveUp"
      /\ \A q \in Requests : q # r => requests'[q] = requests[q]
  BY DEF Collide
<1>2. TypeOK'
  BY DEF Collide
<1>3. Created' = Created
  BY <1>1 DEF Created
<1>4. ScanIsCurrentOrTaken'
  BY <1>1 DEF ScanIsCurrentOrTaken, IsNextJobId, Candidates, InUse
<1>5. CollisionsAreCreations'
  <2>1. requests'[r].pc = "gaveUp" => requests'[r].collisions >= Tries
    BY <1>1, JobIdsAssumption
  <2>2. requests'[r].collisions <= Cardinality(Created')
    BY <1>1, <1>3 DEF CollisionsAreCreations
  <2>3. requests'[r].pc # "insert"
    BY <1>1
  <2>4. QED
    BY <1>1, <1>3, <2>1, <2>2, <2>3 DEF CollisionsAreCreations
<1>6. QED
  BY <1>2, <1>4, <1>5

LEMMA InvStep == Inv /\ [Next]_vars => Inv'
<1> SUFFICES ASSUME Inv, [Next]_vars PROVE Inv'
  OBVIOUS
<1>1. CASE Next
  BY <1>1, ScanKeepsInv, InsertKeepsInv, CollideKeepsInv DEF Next
<1>2. CASE UNCHANGED vars
  BY <1>2 DEF vars, Inv, TypeOK, ScanIsCurrentOrTaken, CollisionsAreCreations,
              IsNextJobId, Candidates, InUse, Created
<1>3. QED
  BY <1>1, <1>2

LEMMA InvCorrect == Spec => []Inv
BY InvInit, InvStep, PTL DEF Spec

\* A request gives up only after at least Tries jobs were created by others
\* (services/jobs.py create_job).
THEOREM GivingUpNeedsACrowd == Spec => []GivingUpTakesACrowd
<1>1. Inv => GivingUpTakesACrowd
  <2> SUFFICES ASSUME Inv, NEW r \in Requests, requests[r].pc = "gaveUp"
               PROVE  Cardinality(Created) >= Tries
    BY DEF GivingUpTakesACrowd
  <2>1. /\ requests[r].collisions >= Tries
        /\ requests[r].collisions <= Cardinality(Created)
        /\ requests[r].collisions \in Nat
    BY DEF Inv, TypeOK, CollisionsAreCreations
  <2>2. QED
    BY <2>1, CreatedFinite, JobIdsAssumption
<1>2. QED
  BY <1>1, InvCorrect, PTL

\* A job's number is above every number in use when it is committed
\* (services/jobs.py next_job_id, create_job).
THEOREM IdsAlwaysFollowCommits == Spec => IdsFollowCommits
<1>1. Inv /\ [Next]_vars => [\A n \in ids' \ ids : \A x \in InUse : x < n]_vars
  <2> SUFFICES ASSUME Inv, [Next]_vars, NEW n \in ids' \ ids
               PROVE  \A x \in InUse : x < n
    OBVIOUS
  <2>1. PICK r \in Requests : Insert(r)
    BY DEF Next, Scan, Collide, vars
  <2>2. n = requests[r].id /\ IsNextJobId(n)
    BY <2>1, InsertIsNext
  <2>3. QED
    BY <2>2 DEF IsNextJobId, Candidates
<1>2. QED
  BY <1>1, InvCorrect, PTL DEF Spec, IdsFollowCommits

=============================================================================
